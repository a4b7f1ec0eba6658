------------------------------ MODULE ParseProof ------------------------------
(* Theorems about ParseEngine, for every world of documents, every recursion  *)
(* limit and every behaviour of the application: the types of its state, the  *)
(* bound on the depth, the scope of the fallback, the order of the notes that *)
(* an entry has, and, in a world of well-formed playlists, the nesting of the *)
(* signals; and that the engine implements Worklist, whose promise is that    *)
(* every document is accounted for once and in order.  The last two rest on   *)
(* induction over lists, which is stated here for sets of numbers.            *)
EXTENDS ParseProperties, TLAPS, SequenceTheorems, WellFoundedInduction, FiniteSetTheorems

\* Handlers run exactly while parse_internal has not returned to the
\* application, and all of them but the innermost wait for a call.
HandlersWait ==
  /\ pc \in {"idle", "done"} => stack = <<>>
  /\ pc = "idle" => level = 0
  /\ pc \in {"run", "back"} => stack # <<>>
  /\ \A k \in 1..(Len(stack) - 1) : stack[k].waits = TRUE
  /\ pc \in {"call", "back"} => \A k \in 1..Len(stack) : stack[k].waits = TRUE
  /\ pc = "run" => stack[Len(stack)].waits = FALSE

\* The fallback in force around the first k handlers, and that each waiting
\* PLS handler has saved.
FallbackAround(k) ==
  asked /\ ~(opts.recurse /\ \E j \in 1..k : WaitsInPls(stack[j]))
SavedInOrder ==
  \A k \in 1..Len(stack) :
    WaitsInPls(stack[k]) => stack[k].saved = FallbackAround(k - 1)

IInv ==
  /\ ControlTypes
  /\ HandlersWait
  /\ DepthIsBounded
  /\ FallbackIsScoped
  /\ SavedInOrder

---------------------------------------------------------------------------
\* Lemmas about the operators of the model

\* A verdict made of a way and a result is a verdict.
LEMMA VerdictTypes ==
  ASSUME NEW do \in {"return", "direct", "site", "leak", "tail", "handle"},
         NEW r \in Results
  PROVE  Verdict(do, r) \in Verdicts
<1>1. NONE \in Funcs
  <2>1. DualFunc["php"] = NONE /\ "php" \in DualTypes
    BY DEF DualFunc, DualTypes
  <2> QED BY <2>1 DEF Funcs
<1>2. NONE \in MimeTypes
  BY DEF MimeTypes
<1> QED BY <1>1, <1>2 DEF Verdict, Verdicts

\* The handler of a type is a handler.
LEMMA FuncTypes ==
  /\ \A t \in SpecialTypes : SpecialFunc[t] \in Funcs
  /\ \A t \in DualTypes : DualFunc[t] \in Funcs
  /\ NONE \in Funcs
  /\ \A t : get_function_for_mimetype(t) \in Funcs
<1>1. \A t \in SpecialTypes : SpecialFunc[t] \in Funcs
  BY DEF Funcs
<1>2. \A t \in DualTypes : DualFunc[t] \in Funcs
  BY DEF Funcs
<1>3. NONE \in Funcs
  <2>1. DualFunc["php"] = NONE /\ "php" \in DualTypes
    BY DEF DualFunc, DualTypes
  <2> QED BY <2>1, <1>2
<1> QED BY <1>1, <1>2, <1>3 DEF get_function_for_mimetype

\* The verdicts built by the other constructors are verdicts.
LEMMA NoHandlerType ==
  ASSUME NEW r \in Results, NEW t \in MimeTypes
  PROVE  NoHandler(r, t) \in Verdicts
BY VerdictTypes DEF NoHandler, Verdicts

\* A handler with its type is a verdict.
LEMMA HandleType ==
  ASSUME NEW f \in Funcs, NEW t \in MimeTypes, NEW b \in BOOLEAN
  PROVE  Handle(f, t, b) \in Verdicts
BY DEF Handle, Verdicts, Results

\* Sniffing gives a MIME type, and a buffer or none.
LEMMA BufferedType ==
  ASSUME NEW d \in Documents
  PROVE  Buffered(d) \in BOOLEAN /\ SniffedType(d) \in MimeTypes
BY DEF Documents, Buffered, SniffedType

\* The answer for a dual type is a verdict, and leaks no level.
LEMMA DualVerdictType ==
  ASSUME NEW d \in Documents, NEW t \in DualTypes, NEW b \in BOOLEAN
  PROVE  DualVerdict(d, t, b) \in Verdicts /\ DualVerdict(d, t, b).do \in {"handle", "tail"}
<1> DEFINE s == IF b THEN t ELSE SniffedType(d)
           func == IF s = NONE THEN DualFunc[t] ELSE get_function_for_mimetype(s)
<1>1. s \in MimeTypes
  BY BufferedType DEF MimeTypes
<1>2. func \in Funcs
  BY FuncTypes
<1>3. Handle(func, s, Buffered(d)) \in Verdicts
  BY <1>1, <1>2, HandleType, BufferedType
<1>4. /\ NoHandler(IGNORED, NONE) \in Verdicts
      /\ NoHandler(UNHANDLED, NONE) \in Verdicts
  BY NoHandlerType DEF MimeTypes, Results
<1>5. DualVerdict(d, t, b) \in {Handle(func, s, Buffered(d)), NoHandler(IGNORED, NONE),
                                NoHandler(UNHANDLED, NONE)}
  BY DEF DualVerdict
<1>6. DualVerdict(d, t, b).do \in {"handle", "tail"}
  BY <1>5 DEF Handle, NoHandler, Verdict
<1> QED BY <1>3, <1>4, <1>5, <1>6

\* An immediate return is a verdict.
LEMMA ReturnType ==
  ASSUME NEW r \in Results
  PROVE  Return(r) \in Verdicts
BY VerdictTypes DEF Return

\* The answer for a type is a verdict; the level leaks only in safe mode.
LEMMA TypeVerdictType ==
  ASSUME NEW d \in Documents, NEW t \in MimeTypes, NEW b \in BOOLEAN,
         NEW r \in Results, NEW o \in Options, NEW l \in Nat, NEW lists
  PROVE  /\ TypeVerdict(d, t, b, r, o, l, lists) \in Verdicts
         /\ \/ TypeVerdict(d, t, b, r, o, l, lists).do \in {"return", "tail", "handle"}
            \/ TypeVerdict(d, t, b, r, o, l, lists).do = "leak" /\ o.disable_unsafe
<1> DEFINE v == TypeVerdict(d, t, b, r, o, l, lists)
<1>1. /\ Return(IGNORED) \in Verdicts /\ Return(IGNORED).do = "return"
      /\ Verdict("leak", IGNORED) \in Verdicts /\ Verdict("leak", IGNORED).do = "leak"
  BY VerdictTypes, ReturnType DEF Results, Return, Verdict
<1>2. NoHandler(r, t) \in Verdicts /\ NoHandler(r, t).do = "tail"
  BY NoHandlerType DEF NoHandler, Verdict
<1>3. t \in SpecialTypes => /\ Handle(SpecialFunc[t], t, b) \in Verdicts
                            /\ Handle(SpecialFunc[t], t, b).do = "handle"
  BY FuncTypes, HandleType DEF Handle
<1>4. t \in DualTypes => /\ DualVerdict(d, t, b) \in Verdicts
                         /\ DualVerdict(d, t, b).do \in {"handle", "tail"}
  BY DualVerdictType
<1>5. \/ v \in {Return(IGNORED), NoHandler(r, t)}
      \/ t \in SpecialTypes /\ v = Handle(SpecialFunc[t], t, b)
      \/ t \in DualTypes /\ v = DualVerdict(d, t, b)
      \/ o.disable_unsafe /\ v = Verdict("leak", IGNORED)
  BY DEF TypeVerdict
<1> QED BY <1>1, <1>2, <1>3, <1>4, <1>5

\* The type a name or the contents give is a MIME type.
LEMMA ResolvedTypes ==
  ASSUME NEW d \in Documents, NEW force \in BOOLEAN
  PROVE  ResolvedType(d, force) \in MimeTypes /\ ResolvedData(d, force) \in BOOLEAN
<1>1. SniffedType(d) \in MimeTypes /\ Buffered(d) \in BOOLEAN /\ d.guess \in MimeTypes
  BY BufferedType DEF Documents
<1>2. "mp2t" \in MimeTypes /\ NONE \in MimeTypes
  BY DEF MimeTypes, OtherTypes
<1>3. NamedType(d, force) \in MimeTypes
  BY <1>1, <1>2 DEF NamedType
<1> QED BY <1>1, <1>3 DEF ResolvedType, ResolvedData

\* The answer once the type is known is a verdict.
LEMMA MimeVerdictType ==
  ASSUME NEW d \in Documents, NEW r \in Results, NEW o \in Options, NEW l \in Nat,
         NEW lists
  PROVE  /\ MimeVerdict(d, r, o, l, lists) \in Verdicts
         /\ \/ MimeVerdict(d, r, o, l, lists).do \in {"return", "tail", "handle"}
            \/ MimeVerdict(d, r, o, l, lists).do = "leak" /\ o.disable_unsafe
<1> DEFINE v == MimeVerdict(d, r, o, l, lists)
           t == ResolvedType(d, o.force)
           data == ResolvedData(d, o.force)
           again == t = "mpeg" /\ l = 0 /\ ~data
           t2 == IF again /\ SniffedType(d) # NONE THEN SniffedType(d) ELSE t
           b2 == IF again THEN Buffered(d) ELSE data
<1>1. t2 \in MimeTypes /\ b2 \in BOOLEAN
  BY ResolvedTypes, BufferedType DEF Options
<1>2. \A x \in Results : Return(x) \in Verdicts /\ Return(x).do = "return"
  BY ReturnType DEF Return, Verdict
<1>3. \/ \E x \in Results : v = Return(x)
      \/ v = TypeVerdict(d, t2, b2, r, o, l, lists)
  BY DEF MimeVerdict, Results
<1> HIDE DEF t, data, again, t2, b2
<1> QED BY <1>1, <1>2, <1>3, TypeVerdictType

\* What parse_internal decides is a verdict.  Past the recursion limit it
\* returns at once, the level leaks only in safe mode, and a feed scheme is
\* followed only to a feed.
LEMMA DecisionFacts ==
  ASSUME NEW d \in Documents, NEW o \in Options, NEW l \in Nat, NEW max \in Nat,
         NEW lists
  PROVE  /\ parse_internal(d, o, l, max, lists) \in Verdicts
         /\ l > max => parse_internal(d, o, l, max, lists).do = "return"
         /\ parse_internal(d, o, l, max, lists).do = "leak" => o.disable_unsafe
         /\ parse_internal(d, o, l, max, lists).do = "direct" => d.feed \in Docs
<1> DEFINE v == parse_internal(d, o, l, max, lists)
           r == IF d.scheme = "http" /\ o.recurse /\ d.site THEN d.siteRet ELSE UNHANDLED
<1>1. \A x \in Results : Return(x) \in Verdicts /\ Return(x).do = "return"
  BY ReturnType DEF Return, Verdict
<1>2. /\ Verdict("site", SUCCESS) \in Verdicts /\ Verdict("site", SUCCESS).do = "site"
      /\ Verdict("direct", SUCCESS) \in Verdicts /\ Verdict("direct", SUCCESS).do = "direct"
  BY VerdictTypes DEF Results, Verdict
<1>3. r \in Results
  BY DEF Documents, Results
<1>4. \/ \E x \in Results : v = Return(x)
      \/ ~(l > max) /\ v = Verdict("site", SUCCESS)
      \/ ~(l > max) /\ d.feed # NONE /\ v = Verdict("direct", SUCCESS)
      \/ ~(l > max) /\ v = MimeVerdict(d, r, o, l, lists)
  BY DEF parse_internal, FeedVerdict, WebVerdict, Results
<1>5. l > max => \E x \in Results : v = Return(x)
  BY DEF parse_internal, Results
<1>6. d.feed # NONE => d.feed \in Docs
  BY DEF Documents
<1> HIDE DEF r
<1> QED BY <1>1, <1>2, <1>3, <1>4, <1>5, <1>6, MimeVerdictType

\* A handler that opens a document starts one of the readers.
LEMMA ReaderType ==
  ASSUME NEW func, NEW d, NEW b
  PROVE  ReaderFor(func, d, b) # NONE => ReaderFor(func, d, b) \in Readers
<1>1. \A r \in ReaderRules : r.reader \in Readers
  BY DEF ReaderRules, Rule, Readers
<1>2. Applicable(func, d, b) \subseteq ReaderRules
  BY DEF Applicable
<1>3. Applicable(func, d, b) # {} =>
        (CHOOSE r \in Applicable(func, d, b) : TRUE) \in Applicable(func, d, b)
  OBVIOUS
<1> QED BY <1>1, <1>2, <1>3 DEF ReaderFor

\* What a handler returns, and what the tail makes of it, is a result.
LEMMA OutcomeType ==
  ASSUME NEW func, NEW uri, NEW d, NEW b, NEW recurse
  PROVE  Outcome(func, uri, d, b, recurse).ret \in Results
<1>1. OneGoResult(d) \in Results
  BY DEF OneGoResult, Results
<1>2. Foreign(func, d.form) \in Results
  BY DEF Foreign, Results
<1>3. SUCCESS \in Results /\ IGNORED \in Results /\ UNHANDLED \in Results /\ ERROR \in Results
  BY DEF Results
<1>4. Outcome(func, uri, d, b, recurse).ret \in
        {SUCCESS, IGNORED, UNHANDLED, ERROR, OneGoResult(d), Foreign(func, d.form)}
  BY DEF Outcome
<1> QED BY <1>1, <1>2, <1>3, <1>4

\* The tail of parse_internal returns a result.
LEMMA TailResultType ==
  ASSUME NEW r \in Results, NEW type, NEW fb
  PROVE  TailResult(r, type, fb) \in Results
BY DEF TailResult, Results

\* What an item to be followed names is a document.
LEMMA FollowedType ==
  ASSUME stack \in Seq(Frames), stack # <<>>, ~AtEnd(Top),
         It.op \in {"link", "device"}
  PROVE  It.to \in Docs
<1>1. Top \in Frames
  BY DEF Top
<1>2. Top.doc \in Docs /\ Top.i \in Nat \ {0}
  BY <1>1 DEF Frames
<1>3. World[Top.doc].items \in Seq(Items)
  BY <1>2, WorldAssumption DEF Documents
<1>4. Top.i \in DOMAIN World[Top.doc].items
  BY <1>2, <1>3 DEF AtEnd, ItemsOf
<1> QED BY <1>2, <1>4, WorldAssumption DEF It, ItemsOf

---------------------------------------------------------------------------
\* Lemmas about the steps: what each way of changing the stack preserves

\* The answers that open nothing, whatever they emit.
LEMMA AnswerKeepsIInv ==
  ASSUME IInv, pc = "call", Back, ret' \in Results,
         UNCHANGED <<priv, opts, fallback, asked, stack, arg>>,
         level' = level \/ (level' = level + 1 /\ opts.disable_unsafe)
  PROVE  IInv'
<1>1. ControlTypes'
  BY DEF IInv, ControlTypes, Back
<1>2. HandlersWait'
  BY DEF IInv, ControlTypes, HandlersWait, Back
<1>3. DepthIsBounded'
  BY EngineAssumption DEF IInv, ControlTypes, DepthIsBounded
<1>4. FallbackIsScoped' /\ SavedInOrder'
  BY DEF IInv, FallbackIsScoped, SavedInOrder, WaitsInPls, FallbackAround
<1> QED BY <1>1, <1>2, <1>3, <1>4 DEF IInv

\* A handler that is opened.
LEMMA OpenKeepsIInv ==
  ASSUME IInv, pc = "call", pc' = "run", level <= RECURSE_LEVEL_MAX,
         level' = level + 1,
         UNCHANGED <<priv, opts, fallback, asked, arg, ret>>,
         NEW f \in Frames, f.waits = FALSE, stack' = Append(stack, f)
  PROVE  IInv'
<1> DEFINE n == Len(stack)
<1>1. stack \in Seq(Frames) /\ n \in Nat
  BY DEF IInv, ControlTypes
<1>2. /\ stack' \in Seq(Frames) /\ Len(stack') = n + 1
      /\ stack'[n + 1] = f /\ \A k \in 1..n : stack'[k] = stack[k]
  BY <1>1
<1>3. ControlTypes'
  BY <1>2 DEF IInv, ControlTypes
<1>4. HandlersWait'
  <2>1. stack' # <<>>
    BY <1>1, <1>2
  <2>2. \A k \in 1..n : stack[k].waits = TRUE
    BY <1>1 DEF IInv, HandlersWait
  <2>3. stack'[Len(stack')].waits = FALSE
    BY <1>2
  <2> QED BY <1>1, <1>2, <2>1, <2>2, <2>3 DEF HandlersWait
<1>5. DepthIsBounded'
  BY <1>1, <1>2, EngineAssumption DEF IInv, ControlTypes, DepthIsBounded
<1>6. /\ \A k \in 1..n : WaitsInPls(stack'[k]) = WaitsInPls(stack[k])
      /\ ~WaitsInPls(stack'[n + 1])
  BY <1>2 DEF WaitsInPls
<1>7. FallbackIsScoped'
  <2>1. (\E k \in 1..n : WaitsInPls(stack[k])) <=> (\E k \in 1..(n + 1) : WaitsInPls(stack'[k]))
    BY <1>1, <1>6
  <2>2. DOMAIN stack = 1..n /\ DOMAIN stack' = 1..(n + 1)
    BY <1>1, <1>2
  <2> QED BY <2>1, <2>2 DEF IInv, FallbackIsScoped, WaitsInPls
<1>8. SavedInOrder'
  BY <1>1, <1>2, <1>6 DEF IInv, SavedInOrder, FallbackAround, WaitsInPls
<1> QED BY <1>3, <1>4, <1>5, <1>7, <1>8 DEF IInv

\* A step of the innermost handler's loop that calls nothing.
LEMMA LoopKeepsIInv ==
  ASSUME IInv, pc = "run", NEW f \in Frames, f.reader = Top.reader,
         f.waits = FALSE, Replace(f),
         UNCHANGED <<priv, opts, fallback, level, asked, pc, arg, ret>>
  PROVE  IInv'
<1> DEFINE n == Len(stack)
<1>1. stack \in Seq(Frames) /\ n \in Nat \ {0} /\ stack[n].waits = FALSE
  BY DEF IInv, ControlTypes, HandlersWait
<1>2. /\ stack' \in Seq(Frames) /\ Len(stack') = n /\ stack'[n] = f
      /\ \A k \in 1..(n - 1) : stack'[k] = stack[k]
  BY <1>1 DEF Replace
<1>3. stack' # <<>>
  BY <1>1, <1>2
<1>4. ControlTypes'
  BY <1>2 DEF IInv, ControlTypes
<1>5. HandlersWait'
  BY <1>1, <1>2, <1>3 DEF IInv, HandlersWait
<1>6. DepthIsBounded'
  BY <1>1, <1>2 DEF IInv, DepthIsBounded
<1>7. /\ \A k \in 1..(n - 1) : WaitsInPls(stack'[k]) = WaitsInPls(stack[k])
      /\ ~WaitsInPls(stack[n]) /\ ~WaitsInPls(stack'[n])
  BY <1>1, <1>2 DEF WaitsInPls
<1>8. FallbackIsScoped'
  <2>1. (\E k \in 1..n : WaitsInPls(stack[k])) <=> (\E k \in 1..n : WaitsInPls(stack'[k]))
    BY <1>1, <1>7
  <2>2. DOMAIN stack = 1..n /\ DOMAIN stack' = 1..n
    BY <1>1, <1>2
  <2> QED BY <2>1, <2>2 DEF IInv, FallbackIsScoped, WaitsInPls
<1>9. SavedInOrder'
  BY <1>1, <1>2, <1>7 DEF IInv, SavedInOrder, FallbackAround, WaitsInPls
<1> QED BY <1>4, <1>5, <1>6, <1>8, <1>9 DEF IInv

\* A call by the innermost handler: a PLS handler saves the fallback and, in a
\* recursive parse, withdraws it.
LEMMA CallKeepsIInv ==
  ASSUME IInv, pc = "run", NEW f \in Frames, f.reader = Top.reader, Call(f), It.to \in Docs,
         \/ f.reader # "pls" /\ UNCHANGED fallback
         \/ /\ f.reader = "pls" /\ f.saved = fallback
            /\ fallback' = (fallback /\ ~opts.recurse)
  PROVE  IInv'
<1> DEFINE n == Len(stack)
           g == [f EXCEPT !.waits = TRUE]
<1>1. stack \in Seq(Frames) /\ n \in Nat \ {0} /\ stack[n].waits = FALSE
  BY DEF IInv, ControlTypes, HandlersWait
<1>2. g \in Frames /\ g.waits = TRUE /\ g.reader = f.reader /\ g.saved = f.saved
  BY DEF Frames
<1> HIDE DEF g
<1>3. stack' = [stack EXCEPT ![n] = g]
  BY DEF Call, Replace, g
<1>4. /\ stack' \in Seq(Frames) /\ Len(stack') = n /\ stack'[n] = g
      /\ \A k \in 1..(n - 1) : stack'[k] = stack[k]
  BY <1>1, <1>2, <1>3
<1>5. UNCHANGED <<priv, opts, level, asked, ret>> /\ arg' \in Docs /\ pc' = "call"
  BY DEF Call, env
<1>6. ControlTypes'
  BY <1>4, <1>5 DEF IInv, ControlTypes
<1>7. HandlersWait'
  <2>1. \A k \in 1..(n - 1) : stack[k].waits = TRUE
    BY DEF IInv, HandlersWait
  <2> QED BY <1>1, <1>2, <1>4, <1>5, <2>1 DEF HandlersWait
<1>8. DepthIsBounded'
  BY <1>1, <1>4, <1>5 DEF IInv, DepthIsBounded
<1>9. /\ \A k \in 1..(n - 1) : WaitsInPls(stack'[k]) = WaitsInPls(stack[k])
      /\ ~WaitsInPls(stack[n]) /\ (WaitsInPls(stack'[n]) <=> f.reader = "pls")
  BY <1>1, <1>2, <1>4 DEF WaitsInPls
<1>10. DOMAIN stack = 1..n /\ DOMAIN stack' = 1..n
  BY <1>1, <1>4
<1>11. (\E k \in 1..n : WaitsInPls(stack'[k])) <=>
         (f.reader = "pls" \/ \E k \in 1..n : WaitsInPls(stack[k]))
  BY <1>1, <1>9
<1>12. FallbackIsScoped'
  <2> DEFINE A == \E k \in 1..n : WaitsInPls(stack[k])
             B == \E k \in 1..n : WaitsInPls(stack'[k])
  <2>1. fallback = (asked /\ ~(opts.recurse /\ A))
    BY <1>10 DEF IInv, FallbackIsScoped
  <2>2. fallback' = (asked /\ ~(opts.recurse /\ B))
    <3>1. B <=> (f.reader = "pls" \/ A)
      BY <1>11
    <3> HIDE DEF A, B
    <3> QED BY <2>1, <3>1
  <2> QED BY <2>2, <1>5, <1>10 DEF FallbackIsScoped, WaitsInPls
<1>13. SavedInOrder'
  <2>1. \A k \in 1..n : FallbackAround(k - 1)' = FallbackAround(k - 1)
    BY <1>1, <1>4, <1>5 DEF FallbackAround, WaitsInPls
  <2>2. \A k \in 1..(n - 1) :
          WaitsInPls(stack'[k]) => stack'[k].saved = FallbackAround(k - 1)'
    <3> SUFFICES ASSUME NEW k \in 1..(n - 1), WaitsInPls(stack'[k])
                 PROVE  stack'[k].saved = FallbackAround(k - 1)'
      OBVIOUS
    <3>1. stack'[k] = stack[k] /\ k \in 1..n
      BY <1>1, <1>4
    <3>2. WaitsInPls(stack[k])
      BY <3>1
    <3>3. stack[k].saved = FallbackAround(k - 1)
      BY <3>1, <3>2 DEF IInv, SavedInOrder
    <3>4. FallbackAround(k - 1)' = FallbackAround(k - 1)
      BY <2>1, <3>1
    <3> QED BY <3>1, <3>3, <3>4
  <2>3. WaitsInPls(stack'[n]) => stack'[n].saved = FallbackAround(n - 1)'
    <3>1. fallback = FallbackAround(n)
      BY <1>10 DEF IInv, FallbackIsScoped, FallbackAround
    <3>2. FallbackAround(n) = FallbackAround(n - 1)
      BY <1>1, <1>9 DEF FallbackAround
    <3> QED BY <1>1, <1>2, <1>4, <1>9, <2>1, <3>1, <3>2
  <2>4. Len(stack') = n /\ n \in Nat \ {0}
    BY <1>1, <1>4
  <2> QED BY <2>2, <2>3, <2>4 DEF SavedInOrder, WaitsInPls, FallbackAround
<1> QED BY <1>6, <1>7, <1>8, <1>12, <1>13 DEF IInv

\* An item a handler is at is an item.
LEMMA ItemType ==
  ASSUME NEW f \in Frames, ~AtEnd(f)
  PROVE  ItemsOf(f)[f.i] \in Items
<1>1. f.doc \in Docs /\ f.i \in Nat \ {0}
  BY DEF Frames
<1>2. ItemsOf(f) \in Seq(Items)
  BY <1>1, WorldAssumption DEF ItemsOf, Documents
<1>3. f.i \in 1..Len(ItemsOf(f))
  BY <1>1, <1>2 DEF AtEnd
<1> QED BY <1>2, <1>3

\* A handler that takes a note and goes on is a handler.
LEMMA NoteTakenType ==
  ASSUME NEW f \in Frames, NEW note \in Notes
  PROVE  /\ [f EXCEPT !.i = @ + 1, !.note = note] \in Frames
         /\ [f EXCEPT !.i = @ + 1, !.note = note].reader = f.reader
         /\ [f EXCEPT !.i = @ + 1, !.note = note].waits = f.waits
<1>1. f.i + 1 \in Nat \ {0}
  BY DEF Frames
<1> QED BY <1>1 DEF Frames

\* The absence of an #EXTINF is one of the notes.
LEMMA NoNoteType == NoNote \in Notes
<1>1. NONE \in Titles
  BY DEF Titles
<1> QED BY <1>1 DEF NoNote, Notes

\* What is below the innermost handler is a stack of handlers.
LEMMA PrefixType ==
  ASSUME NEW S, NEW s \in Seq(S), NEW n \in Nat \ {0}, n = Len(s)
  PROVE  /\ SubSeq(s, 1, n - 1) \in Seq(S) /\ Len(SubSeq(s, 1, n - 1)) = n - 1
         /\ \A k \in 1..(n - 1) : SubSeq(s, 1, n - 1)[k] = s[k]
OBVIOUS

\* A handler at its next item is a handler.
LEMMA AdvancedType ==
  ASSUME NEW f \in Frames, NoNote \in Notes
  PROVE  Advanced(f) \in Frames
<1>1. f.i + 1 \in Nat \ {0}
  BY DEF Frames
<1> QED BY <1>1 DEF Advanced, Frames

\* The return of a call: a PLS handler puts the fallback back.
LEMMA ChildReturnedKeepsIInv ==
  ASSUME IInv, ChildReturned
  PROVE  IInv'
<1> DEFINE n == Len(stack)
           g == [Advanced(Top) EXCEPT !.waits = FALSE, !.saved = FALSE]
<1>1. /\ stack \in Seq(Frames) /\ n \in Nat \ {0} /\ pc = "back"
      /\ \A k \in 1..n : stack[k].waits = TRUE
  BY DEF IInv, ControlTypes, HandlersWait, ChildReturned
<1>2. Top = stack[n] /\ Top \in Frames
  BY <1>1 DEF Top
<1>3. g \in Frames /\ g.waits = FALSE
  <2>1. NoNote \in Notes
    BY NoNoteType
  <2>2. Advanced(Top) \in Frames
    BY <2>1, <1>2, AdvancedType
  <2> QED BY <2>2 DEF g, Frames
<1> HIDE DEF g
<1>4. stack' = [stack EXCEPT ![n] = g]
  BY DEF ChildReturned, Replace, g
<1>5. /\ stack' \in Seq(Frames) /\ Len(stack') = n /\ stack'[n] = g
      /\ \A k \in 1..(n - 1) : stack'[k] = stack[k]
  BY <1>1, <1>3, <1>4
<1>6. /\ UNCHANGED <<priv, opts, level, asked, ret, arg>> /\ pc' = "run"
      /\ fallback' = IF Top.reader = "pls" THEN Top.saved ELSE fallback
  BY DEF ChildReturned, env
<1>7. ControlTypes'
  BY <1>2, <1>5, <1>6 DEF IInv, ControlTypes, Frames
<1>8. HandlersWait'
  BY <1>1, <1>3, <1>5, <1>6 DEF HandlersWait
<1>9. DepthIsBounded'
  BY <1>1, <1>5, <1>6 DEF IInv, DepthIsBounded
<1>10. /\ \A k \in 1..(n - 1) : WaitsInPls(stack'[k]) = WaitsInPls(stack[k])
       /\ ~WaitsInPls(stack'[n]) /\ (WaitsInPls(stack[n]) <=> Top.reader = "pls")
  BY <1>1, <1>2, <1>3, <1>5 DEF WaitsInPls
<1>11. \A k \in 1..n : FallbackAround(k - 1)' = FallbackAround(k - 1)
  BY <1>1, <1>5, <1>6 DEF FallbackAround, WaitsInPls
<1>12. DOMAIN stack = 1..n /\ DOMAIN stack' = 1..n
  BY <1>1, <1>5
<1>13. fallback' = FallbackAround(n - 1)
  <2>1. CASE Top.reader = "pls"
    <3>1. WaitsInPls(stack[n])
      BY <1>10, <2>1
    <3>2. stack[n].saved = FallbackAround(n - 1)
      BY <1>1, <3>1 DEF IInv, SavedInOrder
    <3> QED BY <1>2, <1>6, <2>1, <3>2
  <2>2. CASE Top.reader # "pls"
    <3>1. fallback = FallbackAround(n)
      BY <1>12 DEF IInv, FallbackIsScoped, FallbackAround
    <3>2. FallbackAround(n) = FallbackAround(n - 1)
      BY <1>1, <1>10, <2>2 DEF FallbackAround
    <3> QED BY <1>6, <2>2, <3>1, <3>2
  <2> QED BY <2>1, <2>2
<1>14. FallbackIsScoped'
  <2>1. (\E k \in 1..n : WaitsInPls(stack'[k])) <=> (\E k \in 1..(n - 1) : WaitsInPls(stack[k]))
    BY <1>1, <1>10
  <2>2. FallbackAround(n - 1) =
          (asked /\ ~(opts.recurse /\ \E k \in 1..n : WaitsInPls(stack'[k])))
    BY <2>1 DEF FallbackAround
  <2> QED BY <1>6, <1>12, <1>13, <2>2 DEF FallbackIsScoped, WaitsInPls
<1>15. SavedInOrder'
  <2> SUFFICES ASSUME NEW k \in 1..n, WaitsInPls(stack'[k])
               PROVE  stack'[k].saved = FallbackAround(k - 1)'
    BY <1>5 DEF SavedInOrder, WaitsInPls, FallbackAround
  <2>1. k \in 1..(n - 1) /\ stack'[k] = stack[k]
    BY <1>1, <1>5, <1>10
  <2>2. WaitsInPls(stack[k])
    BY <2>1
  <2>3. stack[k].saved = FallbackAround(k - 1)
    BY <2>2 DEF IInv, SavedInOrder
  <2> QED BY <1>11, <2>1, <2>3
<1> QED BY <1>7, <1>8, <1>9, <1>14, <1>15 DEF IInv

\* The end of a handler.
LEMMA LeaveKeepsIInv ==
  ASSUME IInv, Leave
  PROVE  IInv'
<1> DEFINE n == Len(stack)
<1>1. stack \in Seq(Frames) /\ n \in Nat \ {0} /\ stack[n].waits = FALSE /\ pc = "run"
  BY DEF IInv, ControlTypes, HandlersWait, Leave
<1>2. /\ stack' \in Seq(Frames) /\ Len(stack') = n - 1
      /\ \A k \in 1..(n - 1) : stack'[k] = stack[k]
  <2>1. stack' = SubSeq(stack, 1, n - 1)
    BY DEF Leave, Below
  <2> QED BY <1>1, <2>1, PrefixType
<1>3. /\ UNCHANGED <<priv, opts, asked, fallback, arg>> /\ level' = level - 1
      /\ pc' = IF n = 1 THEN "done" ELSE "back"
      /\ ret' \in Results
  <2>1. ReaderResult(Top.reader, ItemsOf(Top)) \in Results
    BY DEF ReaderResult, Results
  <2> QED BY <2>1, TailResultType DEF Leave, env, ThroughTail
<1>4. level \in Nat /\ n <= level
  BY DEF IInv, ControlTypes, DepthIsBounded
<1>5. ControlTypes'
  BY <1>1, <1>2, <1>3, <1>4 DEF IInv, ControlTypes
<1>6. HandlersWait'
  <2>1. \A k \in 1..(n - 1) : stack'[k].waits = TRUE
    BY <1>2 DEF IInv, HandlersWait
  <2>2. n = 1 => stack' = <<>>
    BY <1>1, <1>2
  <2>3. n # 1 => stack' # <<>>
    BY <1>1, <1>2
  <2> QED BY <1>1, <1>2, <1>3, <2>1, <2>2, <2>3 DEF HandlersWait
<1>7. DepthIsBounded'
  BY <1>1, <1>2, <1>3, <1>4, EngineAssumption DEF IInv, DepthIsBounded
<1>8. /\ \A k \in 1..(n - 1) : WaitsInPls(stack'[k]) = WaitsInPls(stack[k])
      /\ ~WaitsInPls(stack[n])
  BY <1>1, <1>2 DEF WaitsInPls
<1>9. FallbackIsScoped'
  <2>1. (\E k \in 1..n : WaitsInPls(stack[k])) <=> (\E k \in 1..(n - 1) : WaitsInPls(stack'[k]))
    BY <1>1, <1>8
  <2>2. DOMAIN stack = 1..n /\ DOMAIN stack' = 1..(n - 1)
    BY <1>1, <1>2
  <2> QED BY <1>3, <2>1, <2>2 DEF IInv, FallbackIsScoped, WaitsInPls
<1>10. SavedInOrder'
  BY <1>1, <1>2, <1>3, <1>8 DEF IInv, SavedInOrder, FallbackAround, WaitsInPls
<1> QED BY <1>5, <1>6, <1>7, <1>9, <1>10 DEF IInv

---------------------------------------------------------------------------
\* The invariant

\* A parse begins with no handler running and with the fallback asked for.
LEMMA InitKeepsIInv == Init => IInv
<1> SUFFICES ASSUME Init PROVE IInv
  OBVIOUS
<1>1. ControlTypes
  BY EngineAssumption DEF Init, ControlTypes, Results
<1>2. HandlersWait
  BY DEF Init, HandlersWait
<1>3. DepthIsBounded
  BY EngineAssumption DEF Init, DepthIsBounded
<1>4. FallbackIsScoped /\ SavedInOrder
  BY DEF Init, FallbackIsScoped, SavedInOrder
<1> QED BY <1>1, <1>2, <1>3, <1>4 DEF IInv

\* Starting a parse.
LEMMA ParseKeepsIInv ==
  ASSUME IInv, Parse
  PROVE  IInv'
<1>1. stack = <<>> /\ level = 0 /\ pc = "idle"
  BY DEF IInv, HandlersWait, Parse
<1>2. UNCHANGED <<priv, fallback, level, asked, stack, arg>>
  BY DEF Parse, env
<1>3. opts' \in {opts, priv} /\ pc' \in {"done", "call"} /\ ret' \in {ret, UNHANDLED}
  BY DEF Parse
<1>4. ControlTypes'
  BY <1>2, <1>3 DEF IInv, ControlTypes, Results
<1>5. HandlersWait'
  BY <1>1, <1>2, <1>3 DEF HandlersWait
<1>6. DepthIsBounded'
  BY <1>1, <1>2, EngineAssumption DEF DepthIsBounded
<1>7. FallbackIsScoped' /\ SavedInOrder'
  <2>1. DOMAIN stack = {} /\ stack' = stack /\ 1..Len(stack) = {}
    BY <1>1, <1>2
  <2>2. ~ \E k \in DOMAIN stack : WaitsInPls(stack[k])
    BY <2>1
  <2>3. ~ \E k \in DOMAIN stack' : WaitsInPls(stack'[k])
    BY <2>1
  <2>4. fallback = asked
    <3>1. fallback = (asked /\ ~(opts.recurse /\ \E k \in DOMAIN stack : WaitsInPls(stack[k])))
      BY DEF IInv, FallbackIsScoped
    <3>2. asked \in BOOLEAN
      BY DEF IInv, ControlTypes
    <3> QED BY <2>2, <3>1, <3>2
  <2>5. FallbackIsScoped'
    BY <1>2, <2>3, <2>4 DEF FallbackIsScoped, WaitsInPls, IInv, ControlTypes
  <2>6. SavedInOrder'
    BY <2>1 DEF SavedInOrder
  <2> QED BY <2>5, <2>6
<1> QED BY <1>4, <1>5, <1>6, <1>7 DEF IInv

\* The answers of parse_internal.
LEMMA DispatchKeepsIInv ==
  ASSUME IInv, Dispatch
  PROVE  IInv'
<1>1. PICK v \in {Decision} :
        \/ ReturnAtOnce(v) \/ ReturnVideoSite(v) \/ ReadFeedScheme(v)
        \/ ReturnUnsafe(v) \/ GiveUp(v) \/ ReadWhole(v) \/ Open(v)
  BY DEF Dispatch
<1>2. /\ pc = "call" /\ arg \in Docs /\ World[arg] \in Documents
      /\ opts \in Options /\ level \in Nat
  BY WorldAssumption DEF Dispatch, IInv, ControlTypes
<1>3. /\ v \in Verdicts
      /\ level > RECURSE_LEVEL_MAX => v.do = "return"
      /\ v.do = "leak" => opts.disable_unsafe
  <2>1. v = parse_internal(World[arg], opts, level, RECURSE_LEVEL_MAX, ignored)
    BY <1>1 DEF Decision
  <2> QED BY <1>2, <2>1, DecisionFacts, EngineAssumption
<1>4. v.ret \in Results
  BY <1>3 DEF Verdicts
<1>5. SUCCESS \in Results /\ IGNORED \in Results
  BY DEF Results
<1>6. CASE ReturnAtOnce(v)
  BY <1>2, <1>4, <1>6, AnswerKeepsIInv DEF ReturnAtOnce, env
<1>7. CASE ReturnVideoSite(v)
  BY <1>2, <1>5, <1>7, AnswerKeepsIInv DEF ReturnVideoSite, env
<1>8. CASE ReadFeedScheme(v)
  <2>1. ret' \in Results
    BY <1>8, OutcomeType DEF ReadFeedScheme
  <2> QED BY <1>2, <1>8, <2>1, AnswerKeepsIInv DEF ReadFeedScheme, env
<1>9. CASE ReturnUnsafe(v)
  BY <1>2, <1>3, <1>5, <1>9, AnswerKeepsIInv DEF ReturnUnsafe, env
<1>10. CASE GiveUp(v)
  <2>1. ret' \in Results
    BY <1>4, <1>10, TailResultType DEF GiveUp, ThroughTail
  <2> QED BY <1>2, <1>10, <2>1, AnswerKeepsIInv DEF GiveUp, env
<1>11. CASE ReadWhole(v)
  <2>1. ret' \in Results
    BY <1>11, OutcomeType, TailResultType DEF ReadWhole, ThroughTail
  <2> QED BY <1>2, <1>11, <2>1, AnswerKeepsIInv DEF ReadWhole, env
<1>12. CASE Open(v)
  <2> DEFINE reader == ReaderFor(v.func, World[arg], v.data)
             f == [doc |-> arg, reader |-> reader, type |-> v.type, i |-> 1,
                   waits |-> FALSE, saved |-> FALSE, note |-> NoNote]
  <2>1. reader \in Readers
    BY <1>12, ReaderType DEF Open
  <2>2. v.type \in MimeTypes
    BY <1>3 DEF Verdicts
  <2> HIDE DEF reader
  <2>3. f \in Frames /\ f.waits = FALSE
    BY <1>2, <2>1, <2>2, NoNoteType DEF Frames
  <2>4. level <= RECURSE_LEVEL_MAX
    BY <1>2, <1>3, <1>12, EngineAssumption DEF Open
  <2>5. stack' = Append(stack, f) /\ pc' = "run" /\ level' = level + 1
    BY <1>12 DEF Open, reader
  <2>6. UNCHANGED <<priv, opts, fallback, asked, arg, ret>>
    BY <1>12 DEF Open, env
  <2> HIDE DEF f
  <2> QED BY <1>2, <2>3, <2>4, <2>5, <2>6, OpenKeepsIInv
<1> QED BY <1>1, <1>6, <1>7, <1>8, <1>9, <1>10, <1>11, <1>12

\* The loops of the handlers.
LEMMA LoopStepKeepsIInv ==
  ASSUME IInv, Loop
  PROVE  IInv'
<1> USE DEF At, Running
<1>1. /\ stack \in Seq(Frames) /\ opts \in Options /\ NoNote \in Notes
      /\ pc = "run" => /\ stack # <<>> /\ stack[Len(stack)].waits = FALSE
                       /\ Top \in Frames /\ Top = stack[Len(stack)]
  BY NoNoteType DEF IInv, ControlTypes, HandlersWait, Top
<1>2. pc = "run" => /\ Advanced(Top) \in Frames /\ Advanced(Top).reader = Top.reader
                    /\ Advanced(Top).waits = FALSE
  <2> SUFFICES ASSUME pc = "run"
               PROVE  /\ Advanced(Top) \in Frames /\ Advanced(Top).reader = Top.reader
                      /\ Advanced(Top).waits = FALSE
    OBVIOUS
  <2>1. Advanced(Top) \in Frames
    BY <1>1, AdvancedType
  <2>2. Top \in Frames /\ Top.waits = FALSE
    BY <1>1
  <2> QED BY <2>1, <2>2 DEF Advanced, Frames
<1>3. ASSUME pc = "run", Pass PROVE IInv'
  BY <1>1, <1>2, <1>3, LoopKeepsIInv DEF Pass, env
<1>4. ASSUME pc = "run", NEW e, Emit(e) PROVE IInv'
  BY <1>1, <1>2, <1>4, LoopKeepsIInv DEF Emit, env
<1>5. ASSUME pc = "run", Top.reader # "pls", It.to \in Docs, Call(Top), UNCHANGED fallback
      PROVE  IInv'
  BY <1>1, <1>5, CallKeepsIInv
<1>6. ASSUME pc = "run", ~AtEnd(Top), It.op \in {"link", "device"} PROVE It.to \in Docs
  BY <1>1, <1>6, FollowedType
<1>7. CASE M3uNote
  <2> DEFINE f == [Top EXCEPT !.i = @ + 1,
                     !.note = IF It.op = "note" /\ ~@.set
                                THEN [set |-> TRUE, live |-> It.live, title |-> It.title]
                                ELSE @]
  <2>1. Top \in Frames /\ Top.waits = FALSE
    BY <1>1, <1>7 DEF M3uNote
  <2>2. It \in Items
    BY <2>1, <1>7, ItemType DEF M3uNote, It
  <2>3. [set |-> TRUE, live |-> It.live, title |-> It.title] \in Notes
    BY <2>2 DEF Items, Notes
  <2>4. f \in Frames /\ f.reader = Top.reader /\ f.waits = FALSE
    <3> DEFINE note == IF It.op = "note" /\ ~Top.note.set
                         THEN [set |-> TRUE, live |-> It.live, title |-> It.title]
                         ELSE Top.note
    <3>1. note \in Notes
      BY <2>1, <2>3 DEF Frames
    <3>2. f = [Top EXCEPT !.i = @ + 1, !.note = note]
      OBVIOUS
    <3> HIDE DEF note, f
    <3> QED BY <2>1, <3>1, <3>2, NoteTakenType
  <2>5. Replace(f) /\ pc = "run" /\ UNCHANGED <<priv, opts, fallback, level, asked, pc, arg, ret>>
    BY <1>7 DEF M3uNote, env
  <2> HIDE DEF f
  <2> QED BY <2>4, <2>5, LoopKeepsIInv
<1>8. CASE M3uAdd
  BY <1>4, <1>8 DEF M3uAdd
<1>9. CASE M3uFollow
  BY <1>5, <1>6, <1>9 DEF M3uFollow
<1>10. CASE PlsAdd
  BY <1>4, <1>10 DEF PlsAdd
<1>11. CASE PlsFollow
  <2> DEFINE f == [Top EXCEPT !.saved = fallback]
  <2>1. pc = "run" /\ Top \in Frames /\ fallback \in BOOLEAN /\ Top.reader = "pls"
    BY <1>1, <1>11 DEF PlsFollow, IInv, ControlTypes
  <2>2. f \in Frames /\ f.reader = "pls" /\ f.saved = fallback
    BY <2>1 DEF Frames
  <2>3. Call(f) /\ fallback' = (fallback /\ ~opts.recurse) /\ It.to \in Docs
    BY <1>6, <1>11 DEF PlsFollow
  <2> HIDE DEF f
  <2> QED BY <2>1, <2>2, <2>3, CallKeepsIInv
<1>12. CASE Follow
  BY <1>5, <1>6, <1>12 DEF Follow
<1>13. CASE Skip
  BY <1>3, <1>13 DEF Skip
<1>14. CASE RamStop
  <2> DEFINE f == [Top EXCEPT !.i = Len(ItemsOf(Top)) + 1]
  <2>1. Top \in Frames /\ Top.waits = FALSE /\ pc = "run"
    BY <1>1, <1>14 DEF RamStop
  <2>2. Len(ItemsOf(Top)) \in Nat
    <3>1. Top.doc \in Docs
      BY <2>1 DEF Frames
    <3> QED BY <3>1, WorldAssumption DEF ItemsOf, Documents
  <2>3. f \in Frames /\ f.reader = Top.reader /\ f.waits = FALSE
    BY <2>1, <2>2 DEF Frames
  <2>4. Replace(f) /\ UNCHANGED <<priv, opts, fallback, level, asked, pc, arg, ret>>
    BY <1>14 DEF RamStop, env
  <2> HIDE DEF f
  <2> QED BY <2>1, <2>3, <2>4, LoopKeepsIInv
<1>15. CASE AsxTitle
  BY <1>4, <1>15 DEF AsxTitle
<1>16. CASE AsxEnd
  BY <1>4, <1>16 DEF AsxEnd
<1>17. CASE DesktopAdd
  BY <1>4, <1>17 DEF DesktopAdd
<1>18. CASE DesktopFollow
  BY <1>5, <1>6, <1>18 DEF DesktopFollow
<1>19. CASE ChildReturned
  BY <1>19, ChildReturnedKeepsIInv
<1>20. CASE Leave
  BY <1>20, LeaveKeepsIInv
<1> QED BY <1>7, <1>8, <1>9, <1>10, <1>11, <1>12, <1>13, <1>14, <1>15, <1>16, <1>17, <1>18,
            <1>19, <1>20 DEF Loop

\* The application changes none of the state the invariant is about but its
\* own properties.
LEMMA ApplicationKeepsIInv ==
  ASSUME IInv, Application
  PROVE  IInv'
<1>1. priv' \in Options
  <2>1. ASSUME NEW name \in Toggles, SetProperty(name) PROVE priv' \in Options
    <3>1. priv \in Options /\ name \in {"recurse", "force", "disable_unsafe"}
      BY EngineAssumption DEF IInv, ControlTypes
    <3> QED BY <2>1, <3>1 DEF SetProperty, Options
  <2>2. ASSUME NEW new \in LateIgnores, AddIgnored(new) PROVE priv' \in Options
    BY <2>2 DEF AddIgnored, IInv, ControlTypes
  <2> QED BY <2>1, <2>2 DEF Application
<1>2. UNCHANGED <<opts, fallback, level, asked, root, stack, pc, arg, ret>>
  BY DEF Application, SetProperty, AddIgnored
<1> QED BY <1>1, <1>2 DEF IInv, ControlTypes, HandlersWait, DepthIsBounded, FallbackIsScoped,
                          SavedInOrder, WaitsInPls, FallbackAround

\* The invariant is inductive.
LEMMA NextKeepsIInv == IInv /\ [Next]_vars => IInv'
<1> SUFFICES ASSUME IInv, [Next]_vars PROVE IInv'
  OBVIOUS
<1>1. CASE Parse
  BY <1>1, ParseKeepsIInv
<1>2. CASE Dispatch
  BY <1>2, DispatchKeepsIInv
<1>3. CASE Loop
  BY <1>3, LoopStepKeepsIInv
<1>4. CASE Application
  BY <1>4, ApplicationKeepsIInv
<1>5. CASE UNCHANGED vars
  BY <1>5 DEF vars, IInv, ControlTypes, HandlersWait, DepthIsBounded, FallbackIsScoped,
              SavedInOrder, WaitsInPls, FallbackAround
<1> QED BY <1>1, <1>2, <1>3, <1>4, <1>5 DEF Next, Step, Over

---------------------------------------------------------------------------
\* What an M3U handler remembers

\* A handler is at an item or past the last one, one that waits is at an item
\* that names the document it waits for, and an M3U handler remembers the first note since the last entry.
NotedFrames ==
  {f \in Frames : /\ f.i <= Len(World[f.doc].items) + 1
                  /\ f.waits = TRUE => /\ f.i \in DOMAIN World[f.doc].items
                                       /\ World[f.doc].items[f.i].op \in {"link", "device"}
                  /\ f.reader = "m3u" => NoteIsFirst(f)}
NotesAreFirst == stack \in Seq(NotedFrames)

\* The item a handler is at.
LEMMA ItemAt ==
  ASSUME NEW f \in Frames, ~AtEnd(f)
  PROVE  /\ f.doc \in Docs /\ f.i \in Nat \ {0} /\ World[f.doc].items \in Seq(Items)
         /\ f.i \in DOMAIN World[f.doc].items
<1>1. f.doc \in Docs /\ f.i \in Nat \ {0}
  BY DEF Frames
<1>2. World[f.doc].items \in Seq(Items)
  BY <1>1, WorldAssumption DEF Documents
<1> QED BY <1>1, <1>2 DEF AtEnd, ItemsOf

\* Past an item that is neither a note nor passed by there is no note to
\* remember; at the start neither.
LEMMA NoNotesBefore ==
  ASSUME NEW items, NEW i \in Nat \ {0},
         i = 1 \/ items[i - 1].op \notin {"note", "skip"}
  PROVE  NotesBefore(items, i) = {}
BY DEF NotesBefore

\* The next item is remembered when it is a note.
LEMMA NotesBeforeNext ==
  ASSUME NEW items, NEW i \in Nat \ {0}, items[i].op \in {"note", "skip"}
  PROVE  NotesBefore(items, i + 1) =
           NotesBefore(items, i) \cup (IF items[i].op = "note" THEN {i} ELSE {})
<1>1. (i + 1) - 1 = i
  OBVIOUS
<1>2. \A j \in 1..i : (\A k \in j..i : items[k].op \in {"note", "skip"}) <=>
                        j = i \/ (j \in 1..(i - 1) /\ \A k \in j..(i - 1) : items[k].op \in {"note", "skip"})
  OBVIOUS
<1> QED BY <1>1, <1>2 DEF NotesBefore

\* A handler that goes on past an entry remembers nothing.
LEMMA AdvancedIsNoted ==
  ASSUME NEW f \in Frames, ~AtEnd(f), NEW g \in Frames,
         g.doc = f.doc, g.i = f.i + 1, g.note = NoNote, g.waits = FALSE, g.reader = f.reader,
         f.reader = "m3u" => World[f.doc].items[f.i].op \notin {"note", "skip"}
  PROVE  g \in NotedFrames
<1>1. f.i \in Nat \ {0} /\ g.i \in Nat \ {0} /\ g.i - 1 = f.i
  BY ItemAt
<1>2. f.reader = "m3u" => NotesBefore(World[f.doc].items, g.i) = {}
  BY <1>1, NoNotesBefore
<1>3. g.i <= Len(World[g.doc].items) + 1
  BY ItemAt
<1> QED BY <1>2, <1>3 DEF NotedFrames, NoteIsFirst, ItemsOf

\* An M3U handler that takes the item it is at as a note, or passes it by.
LEMMA NoteTakenIsNoted ==
  ASSUME NEW f \in NotedFrames, NEW g \in Frames, ~AtEnd(f), f.reader = "m3u",
         World[f.doc].items[f.i].op \in {"note", "skip"},
         g.doc = f.doc, g.i = f.i + 1, g.reader = f.reader, g.waits = FALSE,
         g.note = IF World[f.doc].items[f.i].op = "note" /\ ~f.note.set
                    THEN [set |-> TRUE, live |-> World[f.doc].items[f.i].live,
                          title |-> World[f.doc].items[f.i].title]
                    ELSE f.note
  PROVE  g \in NotedFrames
<1> DEFINE items == World[f.doc].items
           before == NotesBefore(items, f.i)
           after == NotesBefore(items, f.i + 1)
<1>1. f \in Frames /\ f.i \in Nat \ {0}
  BY ItemAt DEF NotedFrames
<1>2. after = before \cup (IF items[f.i].op = "note" THEN {f.i} ELSE {})
  BY <1>1, NotesBeforeNext
<1>3. \A j \in before : j \in Nat /\ j < f.i
  BY <1>1 DEF NotesBefore
<1>4. IF before = {} THEN f.note = NoNote
      ELSE \E j \in before :
             /\ \A l \in before : j <= l
             /\ f.note = [set |-> TRUE, live |-> items[j].live, title |-> items[j].title]
  BY DEF NotedFrames, NoteIsFirst, ItemsOf
<1> HIDE DEF before, after
<1>5. NoteIsFirst(g)
  <2> SUFFICES IF after = {} THEN g.note = NoNote
               ELSE \E j \in after :
                      /\ \A l \in after : j <= l
                      /\ g.note = [set |-> TRUE, live |-> items[j].live, title |-> items[j].title]
    BY DEF NoteIsFirst, ItemsOf, after
  <2>1. CASE before = {} /\ items[f.i].op = "note"
    <3>1. f.note.set = FALSE
      BY <1>4, <2>1 DEF NoNote
    <3>2. after = {f.i} /\ g.note = [set |-> TRUE, live |-> items[f.i].live, title |-> items[f.i].title]
      BY <1>2, <2>1, <3>1
    <3> QED BY <1>1, <3>2
  <2>2. CASE before = {} /\ items[f.i].op # "note"
    BY <1>2, <1>4, <2>2
  <2>3. CASE before # {}
    <3>1. PICK j \in before :
            /\ \A l \in before : j <= l
            /\ f.note = [set |-> TRUE, live |-> items[j].live, title |-> items[j].title]
      BY <1>4, <2>3
    <3>2. f.note.set = TRUE
      BY <3>1
    <3>3. g.note = f.note
      BY <3>2
    <3>4. j \in after /\ \A l \in after : j <= l
      BY <1>1, <1>2, <1>3, <3>1
    <3> QED BY <3>1, <3>3, <3>4
  <2> QED BY <2>1, <2>2, <2>3
<1>6. g.i <= Len(World[g.doc].items) + 1
  BY <1>1, ItemAt
<1> QED BY <1>5, <1>6 DEF NotedFrames

\* What replaces the innermost handler.
LEMMA ReplacedIsNoted ==
  ASSUME IInv, NotesAreFirst, stack # <<>>, NEW f \in NotedFrames, Replace(f)
  PROVE  NotesAreFirst'
BY DEF NotesAreFirst, Replace

\* The innermost handler is noted as the others are.
LEMMA TopIsNoted ==
  ASSUME NotesAreFirst, stack # <<>>
  PROVE  Top \in NotedFrames /\ Top \in Frames
<1>1. Top \in NotedFrames
  BY DEF NotesAreFirst, Top
<1> QED BY <1>1 DEF NotedFrames

\* What the loops of the handlers do keeps it.
LEMMA LoopKeepsNotes ==
  ASSUME IInv, NotesAreFirst, Loop
  PROVE  NotesAreFirst'
<1> USE DEF At, Running
<1>1. pc \in {"run", "back"} => stack # <<>> /\ Top \in NotedFrames /\ Top \in Frames
  BY TopIsNoted DEF IInv, HandlersWait
<1>2. pc = "run" => Top.waits = FALSE
  BY DEF IInv, HandlersWait, Top
<1>3. pc = "back" => /\ ~AtEnd(Top) /\ It.op \in {"link", "device"}
                     /\ World[Top.doc].items \in Seq(Items)
  <2> SUFFICES ASSUME pc = "back"
               PROVE  /\ ~AtEnd(Top) /\ It.op \in {"link", "device"}
                      /\ World[Top.doc].items \in Seq(Items)
    OBVIOUS
  <2>1. Top.waits = TRUE
    BY DEF IInv, ControlTypes, HandlersWait, Top
  <2>2. Top.i \in DOMAIN World[Top.doc].items /\ It.op \in {"link", "device"}
    BY <1>1, <2>1 DEF NotedFrames, It, ItemsOf
  <2>3. World[Top.doc].items \in Seq(Items)
    BY <1>1, WorldAssumption DEF Frames, Documents
  <2> QED BY <2>2, <2>3 DEF AtEnd, ItemsOf
<1>4. ASSUME stack # <<>>, ~AtEnd(Top), Top \in Frames,
             Top.reader = "m3u" => It.op \notin {"note", "skip"},
             NEW f, f \in {Advanced(Top), [Advanced(Top) EXCEPT !.waits = FALSE, !.saved = FALSE]},
             f.waits = FALSE, Replace(f)
      PROVE  NotesAreFirst'
  <2>1. Advanced(Top) \in Frames
    BY <1>4, AdvancedType, NoNoteType
  <2>2. f \in Frames /\ f.doc = Top.doc /\ f.i = Top.i + 1 /\ f.note = NoNote /\ f.reader = Top.reader
    BY <1>4, <2>1 DEF Advanced, Frames
  <2>3. f \in NotedFrames
    BY <1>4, <2>2, AdvancedIsNoted DEF It, ItemsOf
  <2> QED BY <1>4, <2>3, ReplacedIsNoted
<1>5. ASSUME pc = "run", ~AtEnd(Top), Top.reader = "m3u" => It.op \notin {"note", "skip"},
             Replace(Advanced(Top))
      PROVE  NotesAreFirst'
  <2>1. Top.waits = FALSE /\ Top \in Frames
    BY <1>1, <1>2, <1>5
  <2>2. Advanced(Top).waits = FALSE
    BY <2>1 DEF Advanced, Frames
  <2> QED BY <1>1, <1>4, <1>5, <2>1, <2>2
<1>6. ASSUME pc = "run", ~AtEnd(Top), It.op \in {"link", "device"},
             NEW f \in {Top, [Top EXCEPT !.saved = fallback]}, Call(f)
      PROVE  NotesAreFirst'
  <2> DEFINE g == [f EXCEPT !.waits = TRUE]
  <2>1. Top \in NotedFrames /\ Top \in Frames /\ stack # <<>> /\ fallback \in BOOLEAN
    BY <1>1, <1>6 DEF IInv, ControlTypes
  <2>2. g \in Frames /\ g.doc = Top.doc /\ g.i = Top.i /\ g.note = Top.note /\ g.reader = Top.reader
    BY <1>6, <2>1 DEF Frames
  <2>3. g.i \in DOMAIN World[g.doc].items /\ World[g.doc].items[g.i].op \in {"link", "device"}
    BY <1>6, <2>1, <2>2, ItemAt DEF It, ItemsOf
  <2>4. Replace(g)
    BY <1>6 DEF Call
  <2> HIDE DEF g
  <2>5. Top.reader = "m3u" => NoteIsFirst(g)
    BY <2>1, <2>2 DEF NotedFrames, NoteIsFirst, ItemsOf
  <2>6. g.i <= Len(World[g.doc].items) + 1
    BY <2>1, <2>2 DEF NotedFrames
  <2>7. g \in NotedFrames
    BY <2>2, <2>3, <2>5, <2>6 DEF NotedFrames
  <2> QED BY <2>1, <2>4, <2>7, ReplacedIsNoted
<1>7. CASE M3uNote
  <2> DEFINE f == [Top EXCEPT !.i = @ + 1,
                     !.note = IF It.op = "note" /\ ~@.set
                                THEN [set |-> TRUE, live |-> It.live, title |-> It.title]
                                ELSE @]
             note == IF It.op = "note" /\ ~Top.note.set
                       THEN [set |-> TRUE, live |-> It.live, title |-> It.title]
                       ELSE Top.note
  <2>1. /\ Top \in NotedFrames /\ Top \in Frames /\ Top.waits = FALSE /\ stack # <<>>
        /\ ~AtEnd(Top) /\ It.op \in {"note", "skip"} /\ Top.reader = "m3u" /\ Replace(f)
    BY <1>1, <1>2, <1>7 DEF M3uNote
  <2>2. It \in Items
    BY <2>1, ItemType DEF It
  <2>3. note \in Notes
    BY <2>1, <2>2 DEF Items, Notes, Frames
  <2>4. f = [Top EXCEPT !.i = @ + 1, !.note = note]
    OBVIOUS
  <2>5. It = World[Top.doc].items[Top.i]
    BY DEF It, ItemsOf
  <2>6. note = IF World[Top.doc].items[Top.i].op = "note" /\ ~Top.note.set
                    THEN [set |-> TRUE, live |-> World[Top.doc].items[Top.i].live,
                          title |-> World[Top.doc].items[Top.i].title]
                    ELSE Top.note
    BY <2>5
  <2> HIDE DEF note, f
  <2>7. /\ f \in Frames /\ f.doc = Top.doc /\ f.i = Top.i + 1 /\ f.reader = Top.reader
        /\ f.waits = FALSE /\ f.note = note
    BY <2>1, <2>3, <2>4, NoteTakenType DEF Frames
  <2>8. f \in NotedFrames
    BY <2>1, <2>5, <2>6, <2>7, NoteTakenIsNoted
  <2> QED BY <2>1, <2>8, ReplacedIsNoted
<1>8. CASE M3uAdd
  BY <1>5, <1>8 DEF M3uAdd, Emit
<1>9. CASE M3uFollow
  BY <1>6, <1>9 DEF M3uFollow
<1>10. CASE PlsAdd
  BY <1>5, <1>10 DEF PlsAdd, Emit
<1>11. CASE PlsFollow
  BY <1>6, <1>11 DEF PlsFollow
<1>12. CASE Follow
  BY <1>6, <1>12 DEF Follow
<1>13. CASE Skip
  BY <1>5, <1>13 DEF Skip, Pass
<1>14. CASE RamStop
  <2> DEFINE f == [Top EXCEPT !.i = Len(ItemsOf(Top)) + 1]
  <2>1. /\ Top \in Frames /\ Top.waits = FALSE /\ stack # <<>> /\ ~AtEnd(Top)
        /\ Top.reader = "ram" /\ Replace(f)
    BY <1>1, <1>2, <1>14 DEF RamStop
  <2>2. Len(ItemsOf(Top)) \in Nat
    BY <2>1, ItemAt DEF ItemsOf
  <2>3. /\ f \in Frames /\ f.reader = "ram" /\ f.waits = FALSE
        /\ f.doc = Top.doc /\ f.i = Len(World[Top.doc].items) + 1
    BY <2>1, <2>2 DEF Frames, ItemsOf
  <2> HIDE DEF f
  <2>4. f \in NotedFrames
    BY <2>3, <2>2 DEF NotedFrames, ItemsOf
  <2> QED BY <2>1, <2>4, ReplacedIsNoted
<1>15. CASE AsxTitle
  BY <1>5, <1>15 DEF AsxTitle, Emit
<1>16. CASE AsxEnd
  BY <1>5, <1>16 DEF AsxEnd, Emit
<1>17. CASE DesktopAdd
  BY <1>5, <1>17 DEF DesktopAdd, Emit
<1>18. CASE DesktopFollow
  BY <1>6, <1>18 DEF DesktopFollow
<1>19. CASE ChildReturned
  <2> DEFINE f == [Advanced(Top) EXCEPT !.waits = FALSE, !.saved = FALSE]
  <2>1. /\ stack # <<>> /\ Top \in Frames /\ ~AtEnd(Top) /\ It.op \in {"link", "device"}
        /\ Replace(f)
    BY <1>1, <1>3, <1>19 DEF ChildReturned
  <2>2. f.waits = FALSE
    BY <2>1, AdvancedType DEF Frames
  <2> HIDE DEF f
  <2>3. f \in {Advanced(Top), [Advanced(Top) EXCEPT !.waits = FALSE, !.saved = FALSE]}
    BY DEF f
  <2> QED BY <1>4, <2>1, <2>2, <2>3
<1>20. CASE Leave
  <2>1. stack' = SubSeq(stack, 1, Len(stack) - 1) /\ stack # <<>>
    BY <1>1, <1>20 DEF Leave, Below
  <2> QED BY <2>1 DEF NotesAreFirst
<1> QED BY <1>7, <1>8, <1>9, <1>10, <1>11, <1>12, <1>13, <1>14, <1>15, <1>16, <1>17, <1>18,
            <1>19, <1>20 DEF Loop

\* Every step keeps it.
LEMMA NextKeepsNotes == IInv /\ NotesAreFirst /\ [Next]_vars => NotesAreFirst'
<1> SUFFICES ASSUME IInv, NotesAreFirst, [Next]_vars PROVE NotesAreFirst'
  OBVIOUS
<1>1. CASE Loop
  BY <1>1, LoopKeepsNotes
<1>2. CASE Dispatch
  <2>1. PICK v \in {Decision} :
        \/ ReturnAtOnce(v) \/ ReturnVideoSite(v) \/ ReadFeedScheme(v)
        \/ ReturnUnsafe(v) \/ GiveUp(v) \/ ReadWhole(v) \/ Open(v)
    BY <1>2 DEF Dispatch
  <2>2. CASE Open(v)
    <3> DEFINE reader == ReaderFor(v.func, World[arg], v.data)
               f == [doc |-> arg, reader |-> reader, type |-> v.type, i |-> 1,
                     waits |-> FALSE, saved |-> FALSE, note |-> NoNote]
    <3>1. f \in Frames /\ stack' = Append(stack, f)
      <4>1. v = parse_internal(World[arg], opts, level, RECURSE_LEVEL_MAX, ignored)
        BY <2>1 DEF Decision
      <4>2. arg \in Docs /\ World[arg] \in Documents /\ opts \in Options /\ level \in Nat
        BY WorldAssumption DEF IInv, ControlTypes
      <4>3. v \in Verdicts
        BY <4>1, <4>2, DecisionFacts, EngineAssumption
      <4>4. reader \in Readers /\ v.type \in MimeTypes
        BY <2>2, <4>3, ReaderType DEF Open, Verdicts
      <4> HIDE DEF reader
      <4>5. f \in Frames
        BY <4>2, <4>4, NoNoteType DEF Frames
      <4>6. stack' = Append(stack, f)
        BY <2>2 DEF Open, reader
      <4> QED BY <4>5, <4>6
    <3>2. f.i = 1 /\ f.note = NoNote /\ f.waits = FALSE
      OBVIOUS
    <3> HIDE DEF f
    <3>3. NotesBefore(World[f.doc].items, f.i) = {}
      BY <3>2, NoNotesBefore
    <3>4. f \in NotedFrames
      BY <3>1, <3>2, <3>3 DEF NotedFrames, NoteIsFirst, ItemsOf
    <3> QED BY <3>1, <3>4 DEF NotesAreFirst
  <2>3. CASE ~Open(v)
    <3>1. UNCHANGED stack
      BY <2>1, <2>3 DEF ReturnAtOnce, ReturnVideoSite, ReadFeedScheme, ReturnUnsafe, GiveUp,
                        ReadWhole
    <3> QED BY <3>1 DEF NotesAreFirst
  <2> QED BY <2>2, <2>3
<1>3. CASE Parse \/ Application \/ UNCHANGED vars
  <2>1. UNCHANGED stack
    BY <1>3 DEF Parse, Application, SetProperty, AddIgnored, vars
  <2> QED BY <2>1 DEF NotesAreFirst
<1> QED BY <1>1, <1>2, <1>3 DEF Next, Step, Over

---------------------------------------------------------------------------
\* The results

\* The control state of a parse always has its types: every level of the
\* recursion, every saved value and every answer is one the code can hold.
THEOREM ControlStateIsTyped == Spec => []ControlTypes
<1>1. IInv => ControlTypes
  BY DEF IInv
<1> QED BY InitKeepsIInv, NextKeepsIInv, <1>1, PTL DEF Spec

\* However the playlists are nested, also when they lead back to themselves,
\* no more than RECURSE_LEVEL_MAX + 1 handlers run at once, the level is never
\* below their number, and equals it while no unsafe document is refused.
THEOREM RecursionIsBounded == Spec => []DepthIsBounded
<1>1. IInv => DepthIsBounded
  BY DEF IInv
<1> QED BY InitKeepsIInv, NextKeepsIInv, <1>1, PTL DEF Spec

\* A refused document may add itself exactly when the application asked for
\* the fallback and no PLS playlist of a recursive parse waits for it.
THEOREM FallbackIsRestored == Spec => []FallbackIsScoped
<1>1. IInv => FallbackIsScoped
  BY DEF IInv
<1> QED BY InitKeepsIInv, NextKeepsIInv, <1>1, PTL DEF Spec

\* What an M3U handler remembers of an #EXTINF line is that of the first one
\* after the last entry, also after other documents were parsed meanwhile: no
\* title and no length is given to another entry than the one it precedes.
THEOREM NotesStayWithEntries == Spec => []NoteBelongsToEntry
<1>1. Init => NotesAreFirst
  BY DEF Init, NotesAreFirst
<1>2. NotesAreFirst => NoteBelongsToEntry
  BY DEF NotesAreFirst, NotedFrames, NoteBelongsToEntry
<1> QED BY InitKeepsIInv, NextKeepsIInv, NextKeepsNotes, <1>1, <1>2, PTL DEF Spec

---------------------------------------------------------------------------
\* Induction over the natural numbers

\* Every nonempty set of natural numbers has a least element.
LEMMA LeastNumber ==
  ASSUME NEW S \in SUBSET Nat, S # {}
  PROVE  \E m \in S : \A k \in S : m <= k
<1> DEFINE R == OpToRel(<, Nat)
<1>1. IsWellFoundedOn(R, Nat)
  BY NatLessThanWellFounded
<1>2. \A m, k \in Nat : k < m => <<k, m>> \in R
  BY DEF OpToRel
<1> HIDE DEF R
<1>3. PICK m \in S : \A k \in S : ~ (<<k, m>> \in R)
  BY <1>1, WFMin
<1>4. \A k \in S : m \in Nat /\ k \in Nat /\ ~(k < m)
  BY <1>2, <1>3
<1>5. \A k \in S : m <= k
  BY <1>4
<1> QED BY <1>5

\* Induction over the natural numbers up to n.
LEMMA UpTo ==
  ASSUME NEW n \in Nat, NEW S, 0 \in S,
         \A i \in 1..n : i - 1 \in S => i \in S
  PROVE  \A i \in 0..n : i \in S
<1> DEFINE T == {i \in 0..n : i \notin S}
<1> SUFFICES ASSUME T # {} PROVE FALSE
  OBVIOUS
<1>1. T \in SUBSET Nat
  OBVIOUS
<1> HIDE DEF T
<1>2. PICK m \in T : \A k \in T : m <= k
  BY <1>1, LeastNumber
<1>3. m \in 1..n /\ m - 1 \in 0..n
  BY <1>2 DEF T
<1>4. m - 1 \notin T
  BY <1>2, <1>3
<1> QED BY <1>2, <1>3, <1>4 DEF T

\* The solutions of a recursion over 0..n, whose values are in V.
Runs(n, V, v, step) ==
  {f \in [0..n -> V] : f[0] = v /\ \A i \in 1..n : f[i] = step[<<i, f[i - 1]>>]}

\* A recursion over 0..n has a solution.
LEMMA RunExists ==
  ASSUME NEW n \in Nat, NEW V, NEW v \in V, NEW step \in [(1..n) \X V -> V]
  PROVE  Runs(n, V, v, step) # {}
<1> DEFINE S == {m \in 0..n : Runs(m, V, v, step) # {}}
<1>1. 0 \in S
  <2> DEFINE f == [i \in 0..0 |-> v]
  <2>1. f \in [0..0 -> V] /\ f[0] = v
    OBVIOUS
  <2> HIDE DEF f
  <2>2. f \in Runs(0, V, v, step)
    BY <2>1 DEF Runs
  <2> QED BY <2>2
<1>2. ASSUME NEW m \in 1..n, m - 1 \in S PROVE m \in S
  <2>1. PICK f \in Runs(m - 1, V, v, step) : TRUE
    BY <1>2
  <2>2. /\ f \in [0..(m - 1) -> V] /\ f[0] = v
        /\ \A i \in 1..(m - 1) : f[i] = step[<<i, f[i - 1]>>]
    BY <2>1 DEF Runs
  <2> DEFINE g == [i \in 0..m |-> IF i = m THEN step[<<m, f[m - 1]>>] ELSE f[i]]
  <2>3. step[<<m, f[m - 1]>>] \in V
    BY <2>2
  <2>4. g \in [0..m -> V]
    BY <2>2, <2>3
  <2>5. (\A i \in 0..(m - 1) : g[i] = f[i]) /\ g[m] = step[<<m, f[m - 1]>>]
    OBVIOUS
  <2> HIDE DEF g
  <2>6. ASSUME NEW i \in 1..m PROVE g[i] = step[<<i, g[i - 1]>>]
    <3>1. CASE i = m
      BY <2>5, <3>1
    <3>2. CASE i # m
      BY <2>2, <2>5, <3>2
    <3> QED BY <3>1, <3>2
  <2>7. g \in Runs(m, V, v, step)
    BY <2>2, <2>4, <2>5, <2>6 DEF Runs
  <2> QED BY <2>7
<1> HIDE DEF S
<1>3. \A i \in 0..n : i \in S
  BY <1>1, <1>2, UpTo
<1> QED BY <1>3 DEF S


---------------------------------------------------------------------------
\* The signals handlers emit

EntryEvents == {e \in Events : e.sig = "entry-parsed"}

\* The signals of the model are signals.
LEMMA SignalTypes ==
  /\ \A u \in Docs : /\ Started(u) \in Events /\ Started(u).sig = "playlist-started"
                     /\ Ended(u) \in Events /\ Ended(u).sig = "playlist-ended"
                     /\ Started(u).uri = u /\ Ended(u).uri = u
  /\ \A u \in Docs : \A t \in Titles : Entry(u, t) \in EntryEvents
  /\ EntryEvents \subseteq Events /\ NONE \in Titles
<1> USE DEF Event, Events, Signals, Titles
<1>1. \A u \in Docs : /\ Started(u) \in Events /\ Started(u).sig = "playlist-started"
                      /\ Ended(u) \in Events /\ Ended(u).sig = "playlist-ended"
                      /\ Started(u).uri = u /\ Ended(u).uri = u
  BY DEF Started, Ended
<1>2. \A u \in Docs : \A t \in Titles : Entry(u, t) \in EntryEvents
  BY DEF Entry, EntryEvents
<1> QED BY <1>1, <1>2 DEF EntryEvents

\* One more item adds its entry, or nothing.
LEMMA WithEntryType ==
  ASSUME NEW entries \in Seq(EntryEvents), NEW it \in Items, NEW form, NEW recurse
  PROVE  WithEntry(entries, it, form, recurse) \in Seq(EntryEvents)
<1> DEFINE uri == EntryUri(it, form, recurse)
<1>1. /\ it.to \in Docs \cup {NONE} /\ it.alt \in Docs \cup {NONE} /\ it.title \in Titles
  BY DEF Items
<1>2. uri \in Docs \cup {NONE}
  BY <1>1 DEF EntryUri, RssUri, AtomUri
<1> HIDE DEF uri
<1>3. uri # NONE => Entry(uri, it.title) \in EntryEvents
  BY <1>1, <1>2, SignalTypes
<1>4. WithEntry(entries, it, form, recurse) \in {entries} \cup
        (IF uri # NONE THEN {Append(entries, Entry(uri, it.title))} ELSE {})
  BY DEF WithEntry, uri
<1> QED BY <1>3, <1>4

\* The entries of a document are entries.
LEMMA EntriesOfType ==
  ASSUME NEW items \in Seq(Items), NEW form, NEW recurse
  PROVE  /\ EntriesOf(items, form, recurse) \in Seq(EntryEvents)
         /\ Len(items) = 0 => EntriesOf(items, form, recurse) = <<>>
<1> DEFINE n == Len(items)
           V == Seq(EntryEvents)
           With(o, it) == WithEntry(o, it, form, recurse)
           step == [p \in (1..n) \X V |-> With(p[2], items[p[1]])]
<1>1. n \in Nat /\ <<>> \in V
  OBVIOUS
<1>2. \A i \in 1..n : \A o \in V : With(o, items[i]) \in V
  BY WithEntryType
<1> HIDE DEF n, V, With
<1>3. step \in [(1..n) \X V -> V] /\ \A i \in 1..n : \A o \in V : step[<<i, o>>] = With(o, items[i])
  BY <1>2
<1> HIDE DEF step
<1>4. PICK f \in Runs(n, V, <<>>, step) : TRUE
  BY <1>1, <1>3, RunExists
<1>5. /\ f \in [0..n -> V] /\ f[0] = <<>>
      /\ \A i \in 1..n : f[i] = step[<<i, f[i - 1]>>]
  BY <1>4 DEF Runs
<1>6. ASSUME NEW i \in 1..n PROVE f[i] = With(f[i - 1], items[i])
  <2>1. i - 1 \in 0..n /\ f[i - 1] \in V
    BY <1>1, <1>5
  <2> QED BY <1>3, <1>5, <2>1
<1>7. f = [i \in 0..n |-> IF i = 0 THEN <<>> ELSE With(f[i - 1], items[i])]
  <2> DEFINE g == [i \in 0..n |-> IF i = 0 THEN <<>> ELSE With(f[i - 1], items[i])]
  <2>1. ASSUME NEW i \in 0..n PROVE f[i] = g[i]
    <3>1. CASE i = 0
      BY <1>5, <3>1
    <3>2. CASE i # 0
      BY <1>1, <1>6, <3>2
    <3> QED BY <3>1, <3>2
  <2> QED BY <1>5, <2>1
<1> DEFINE h == CHOOSE g : g = [i \in 0..n |-> IF i = 0 THEN <<>> ELSE With(g[i - 1], items[i])]
<1>8. h = [i \in 0..n |-> IF i = 0 THEN <<>> ELSE With(h[i - 1], items[i])]
  BY <1>7
<1>9. EntriesOf(items, form, recurse) = h[n]
  BY DEF EntriesOf, n, With
<1> HIDE DEF h
<1>10. h[0] = <<>> /\ \A i \in 1..n : h[i] = With(h[i - 1], items[i])
  <2> DEFINE g == [i \in 0..n |-> IF i = 0 THEN <<>> ELSE With(h[i - 1], items[i])]
  <2>1. g[0] = <<>>
    BY <1>1
  <2>2. \A i \in 1..n : g[i] = With(h[i - 1], items[i])
    BY <1>1
  <2>3. h = g
    BY <1>8
  <2> HIDE DEF g
  <2> QED BY <2>1, <2>2, <2>3
<1> DEFINE S == {i \in 0..n : h[i] \in V}
<1>11. 0 \in S
  BY <1>1, <1>10
<1>12. \A i \in 1..n : i - 1 \in S => i \in S
  BY <1>1, <1>2, <1>10
<1> HIDE DEF S
<1>13. \A i \in 0..n : i \in S
  BY <1>1, <1>11, <1>12, UpTo
<1>14. h[n] \in V
  BY <1>1, <1>13 DEF S
<1>15. n = 0 => h[n] = <<>>
  BY <1>10
<1> QED BY <1>9, <1>14, <1>15 DEF V, n

\* A PLA file is read up to some record.
LEMMA ReadableType ==
  ASSUME NEW items \in Seq(Items)
  PROVE  Readable(items) \in Seq(Items)
<1> DEFINE bad == {i \in 1..Len(items) : items[i].op = "bad"}
<1>1. CASE bad = {}
  <2>1. ~ \E i \in DOMAIN items : items[i].op = "bad"
    BY <1>1
  <2> QED BY <2>1 DEF Readable
<1>2. CASE bad # {}
  <2>1. bad \in SUBSET Nat
    OBVIOUS
  <2>2. \E m \in bad : \A k \in bad : m <= k
    BY <1>2, <2>1, LeastNumber
  <2>3. Min(bad) \in bad
    BY <2>2 DEF Min
  <2>4. \E i \in DOMAIN items : items[i].op = "bad"
    BY <1>2
  <2>5. Readable(items) = SubSeq(items, 1, Min(bad) - 1)
    BY <1>2, <2>4 DEF Readable, SelectInSeq
  <2> HIDE DEF bad
  <2>6. Min(bad) \in 1..Len(items)
    BY <2>3 DEF bad
  <2>7. SubSeq(items, 1, Min(bad) - 1) \in Seq(Items)
    BY <2>6
  <2> QED BY <2>5, <2>7
<1> QED BY <1>1, <1>2

\* The signals around entries.
Around(opened, entries, closed) == opened \o entries \o closed

\* What a document read in one go emits: nothing, or entries with the start
\* and the end of its playlist around them.
LEMMA OneGoLogIs ==
  ASSUME NEW uri \in Docs, NEW d \in Documents, NEW recurse
  PROVE  \/ OneGoLog(uri, d, recurse) = <<>>
         \/ \E entries \in Seq(EntryEvents) :
              OneGoLog(uri, d, recurse) =
                Around(IF Opens(d.form, d.items) THEN <<Started(uri)>> ELSE <<>>, entries,
                       IF Closes(d.form) THEN <<Ended(uri)>> ELSE <<>>)
<1>1. d.items \in Seq(Items)
  BY DEF Documents
<1>2. EntriesOf(Readable(d.items), d.form, recurse) \in Seq(EntryEvents)
  BY <1>1, ReadableType, EntriesOfType
<1> QED BY <1>2 DEF OneGoLog, Around

\* What a handler that does not open the document emits.
LEMMA OutcomeLogIs ==
  ASSUME NEW func, NEW uri \in Docs, NEW d \in Documents, NEW b, NEW recurse
  PROVE  LET emitted == Outcome(func, uri, d, b, recurse).log
         IN  \/ emitted \in {<<>>, <<Entry(uri, NONE)>>}
             \/ emitted = OneGoLog(uri, d, recurse)
BY DEF Outcome

\* All of that are signals.
LEMMA EmittedTypes ==
  /\ \A uri \in Docs : \A d \in Documents : \A recurse : OneGoLog(uri, d, recurse) \in Seq(Events)
  /\ \A uri \in Docs : \A d \in Documents : \A func, b, recurse :
       Outcome(func, uri, d, b, recurse).log \in Seq(Events)
  /\ \A uri \in Docs : \A reader : Opening(reader, uri) \in Seq(Events) /\ Closing(reader, uri) \in Seq(Events)
<1>1. ASSUME NEW uri \in Docs
      PROVE  /\ <<Started(uri)>> \in Seq(Events) /\ <<Ended(uri)>> \in Seq(Events)
             /\ <<Entry(uri, NONE)>> \in Seq(Events) /\ <<>> \in Seq(Events)
  BY SignalTypes
<1>2. ASSUME NEW uri \in Docs, NEW d \in Documents, NEW recurse
      PROVE  OneGoLog(uri, d, recurse) \in Seq(Events)
  <2>1. CASE OneGoLog(uri, d, recurse) = <<>>
    BY <1>1, <2>1
  <2>2. CASE \E entries \in Seq(EntryEvents) :
              OneGoLog(uri, d, recurse) =
                Around(IF Opens(d.form, d.items) THEN <<Started(uri)>> ELSE <<>>, entries,
                       IF Closes(d.form) THEN <<Ended(uri)>> ELSE <<>>)
    <3>1. PICK entries \in Seq(EntryEvents) :
              OneGoLog(uri, d, recurse) =
                Around(IF Opens(d.form, d.items) THEN <<Started(uri)>> ELSE <<>>, entries,
                       IF Closes(d.form) THEN <<Ended(uri)>> ELSE <<>>)
      BY <2>2
    <3>2. entries \in Seq(Events)
      BY SignalTypes
    <3>3. \A o, c \in Seq(Events) : Around(o, entries, c) \in Seq(Events)
      BY <3>2 DEF Around
    <3> QED BY <1>1, <3>1, <3>3
  <2> QED BY <2>1, <2>2, OneGoLogIs
<1>3. ASSUME NEW uri \in Docs, NEW d \in Documents, NEW func, NEW b, NEW recurse
      PROVE  Outcome(func, uri, d, b, recurse).log \in Seq(Events)
  <2> DEFINE emitted == Outcome(func, uri, d, b, recurse).log
  <2>1. emitted \in {<<>>, <<Entry(uri, NONE)>>} \/ emitted = OneGoLog(uri, d, recurse)
    BY OutcomeLogIs
  <2> HIDE DEF emitted
  <2> QED BY <1>1, <1>2, <2>1 DEF emitted
<1>4. ASSUME NEW uri \in Docs, NEW reader
      PROVE  Opening(reader, uri) \in Seq(Events) /\ Closing(reader, uri) \in Seq(Events)
  BY <1>1 DEF Opening, Closing
<1> QED BY <1>2, <1>3, <1>4

---------------------------------------------------------------------------
\* The types of the whole state

LogTypes == ignored \in Lists /\ root \in Roots /\ log \in Seq(Events)

\* One more signal.
LEMMA EmittedIsTyped ==
  ASSUME log \in Seq(Events), NEW e \in Events, log' = Append(log, e)
  PROVE  log' \in Seq(Events)
OBVIOUS

\* What the tail emits after the signals of the handler.
TailEntry(doc, r, type) ==
  IF AddsItself(r, type, fallback) THEN <<Entry(doc, NONE)>> ELSE <<>>

\* The tail emits signals.
LEMMA TailIsTyped ==
  ASSUME log \in Seq(Events), NEW doc \in Docs, NEW r, NEW type, NEW emitted \in Seq(Events),
         ThroughTail(doc, r, type, emitted)
  PROVE  log' = (log \o emitted) \o TailEntry(doc, r, type) /\ log' \in Seq(Events)
<1>1. TailEntry(doc, r, type) \in Seq(Events)
  BY SignalTypes DEF TailEntry
<1>2. log' = (log \o emitted) \o TailEntry(doc, r, type)
  BY DEF ThroughTail, TailEntry
<1> QED BY <1>1, <1>2

\* The answers of parse_internal emit signals.
LEMMA DispatchEmitsSignals ==
  ASSUME IInv, LogTypes, Dispatch
  PROVE  log' \in Seq(Events)
<1>1. PICK v \in {Decision} :
        \/ ReturnAtOnce(v) \/ ReturnVideoSite(v) \/ ReadFeedScheme(v)
        \/ ReturnUnsafe(v) \/ GiveUp(v) \/ ReadWhole(v) \/ Open(v)
  BY DEF Dispatch
<1>2. /\ arg \in Docs /\ World[arg] \in Documents /\ opts \in Options /\ level \in Nat
      /\ log \in Seq(Events) /\ <<>> \in Seq(Events)
  BY WorldAssumption DEF IInv, ControlTypes, LogTypes
<1>3. v = parse_internal(World[arg], opts, level, RECURSE_LEVEL_MAX, ignored)
  BY <1>1 DEF Decision
<1>4. v.do = "direct" => World[arg].feed \in Docs
  BY <1>2, <1>3, DecisionFacts, EngineAssumption
<1>5. CASE ReturnAtOnce(v) \/ ReturnUnsafe(v)
  BY <1>2, <1>5 DEF ReturnAtOnce, ReturnUnsafe
<1>6. CASE ReturnVideoSite(v)
  BY <1>2, <1>6, SignalTypes DEF ReturnVideoSite
<1>7. CASE ReadFeedScheme(v)
  <2> DEFINE feed == World[arg].feed
  <2>1. feed \in Docs /\ World[feed] \in Documents
    BY <1>4, <1>7, WorldAssumption DEF ReadFeedScheme
  <2> HIDE DEF feed
  <2> DEFINE emitted == Outcome("rss", feed, World[feed], FALSE, priv.recurse).log
  <2>2. log' = log \o emitted
    BY <1>7 DEF ReadFeedScheme, feed
  <2>3. emitted \in Seq(Events)
    BY <2>1, EmittedTypes
  <2> HIDE DEF emitted
  <2> QED BY <1>2, <2>2, <2>3
<1>8. CASE GiveUp(v)
  BY <1>2, <1>8, TailIsTyped DEF GiveUp
<1>9. CASE ReadWhole(v)
  <2> DEFINE out == Outcome(v.func, arg, World[arg], v.data, priv.recurse)
  <2>1. out.log \in Seq(Events)
    BY <1>2, EmittedTypes
  <2>2. ThroughTail(arg, out.ret, v.type, out.log)
    BY <1>9 DEF ReadWhole
  <2> HIDE DEF out
  <2> QED BY <1>2, <2>1, <2>2, TailIsTyped
<1>10. CASE Open(v)
  BY <1>2, <1>10, EmittedTypes DEF Open
<1> QED BY <1>1, <1>5, <1>6, <1>7, <1>8, <1>9, <1>10

\* An item that is handed on names a document.
LEMMA ItemNames ==
  ASSUME NEW f \in Frames, ~AtEnd(f)
  PROVE  /\ ItemsOf(f)[f.i] \in Items
         /\ ItemsOf(f)[f.i].op \in {"link", "device", "add"} => ItemsOf(f)[f.i].to \in Docs
<1>1. ItemsOf(f)[f.i] \in Items
  BY ItemType
<1>2. f.doc \in Docs /\ f.i \in DOMAIN World[f.doc].items
  BY ItemAt
<1>3. ASSUME World[f.doc].items[f.i].op \in {"link", "device", "add"}
      PROVE  World[f.doc].items[f.i].to \in Docs
  BY <1>2, <1>3, WorldAssumption
<1> QED BY <1>1, <1>3 DEF ItemsOf

\* A handler that waits is at the item it has handed on.
LEMMA WaitingItem ==
  ASSUME IInv, NotesAreFirst, pc = "back"
  PROVE  /\ stack # <<>> /\ Top \in Frames /\ ~AtEnd(Top) /\ It \in Items
         /\ It.op \in {"link", "device"} /\ It.to \in Docs
<1>1. stack # <<>> /\ Top \in NotedFrames /\ Top \in Frames
  BY TopIsNoted DEF IInv, HandlersWait
<1>2. Top.waits = TRUE
  BY <1>1 DEF IInv, ControlTypes, HandlersWait, Top
<1>3. Top.i \in DOMAIN World[Top.doc].items /\ It.op \in {"link", "device"}
  BY <1>1, <1>2 DEF NotedFrames, It, ItemsOf
<1>4. World[Top.doc].items \in Seq(Items)
  BY <1>1, WorldAssumption DEF Frames, Documents
<1>5. ~AtEnd(Top)
  BY <1>3, <1>4 DEF AtEnd, ItemsOf
<1>6. It \in Items /\ It.to \in Docs
  <2>1. /\ ItemsOf(Top)[Top.i] \in Items
        /\ ItemsOf(Top)[Top.i].op \in {"link", "device", "add"} => ItemsOf(Top)[Top.i].to \in Docs
    BY <1>1, <1>5, ItemNames
  <2> QED BY <1>3, <2>1 DEF It
<1> QED BY <1>1, <1>3, <1>5, <1>6

\* The loops of the handlers emit signals.
LEMMA LoopEmitsSignals ==
  ASSUME IInv, NotesAreFirst, LogTypes, Loop
  PROVE  log' \in Seq(Events)
<1> USE DEF At, Running
<1>1. pc = "run" => stack # <<>> /\ Top \in Frames
  BY TopIsNoted DEF IInv, HandlersWait
<1>2. log \in Seq(Events)
  BY DEF LogTypes
<1>3. pc = "run" /\ ~AtEnd(Top) =>
        /\ It \in Items /\ It.title \in Titles /\ Top.note.title \in Titles /\ Top.doc \in Docs
        /\ It.op \in {"link", "device", "add"} => It.to \in Docs
  <2> SUFFICES ASSUME pc = "run", ~AtEnd(Top)
               PROVE  /\ It \in Items /\ It.title \in Titles /\ Top.note.title \in Titles /\ Top.doc \in Docs
                      /\ It.op \in {"link", "device", "add"} => It.to \in Docs
    OBVIOUS
  <2>1. /\ ItemsOf(Top)[Top.i] \in Items
        /\ ItemsOf(Top)[Top.i].op \in {"link", "device", "add"} => ItemsOf(Top)[Top.i].to \in Docs
    BY <1>1, ItemNames
  <2>2. It \in Items /\ (It.op \in {"link", "device", "add"} => It.to \in Docs)
    BY <2>1 DEF It
  <2> QED BY <1>1, <2>2 DEF Items, Frames, Notes
<1>4. CASE UNCHANGED log
  BY <1>2, <1>4
<1>5. CASE M3uAdd
  BY <1>2, <1>3, <1>5, SignalTypes DEF M3uAdd, Emit
<1>6. CASE PlsAdd
  BY <1>2, <1>3, <1>6, SignalTypes DEF PlsAdd, Emit
<1>7. CASE AsxTitle
  BY <1>2, <1>3, <1>7, SignalTypes DEF AsxTitle, Emit
<1>8. CASE AsxEnd
  BY <1>2, <1>3, <1>8, SignalTypes DEF AsxEnd, Emit
<1>9. CASE DesktopAdd
  BY <1>2, <1>3, <1>9, SignalTypes DEF DesktopAdd, Emit
<1>10. CASE ChildReturned
  <2>1. /\ Top \in Frames /\ It \in Items /\ It.to \in Docs
    BY <1>10, WaitingItem DEF ChildReturned
  <2>2. TitleOf(Top) \in Titles
    BY <2>1 DEF TitleOf, Frames, Notes, Items
  <2>3. Entry(It.to, TitleOf(Top)) \in Events
    BY <2>1, <2>2, SignalTypes
  <2> QED BY <1>2, <1>10, <2>3 DEF ChildReturned
<1>11. CASE Leave
  <2>1. Top.doc \in Docs
    BY <1>1, <1>11 DEF Leave, Frames
  <2>2. Closing(Top.reader, Top.doc) \in Seq(Events)
    BY <2>1, EmittedTypes
  <2> QED BY <1>2, <1>11, <2>1, <2>2, TailIsTyped DEF Leave
<1>12. CASE M3uNote \/ M3uFollow \/ PlsFollow \/ Follow \/ Skip \/ RamStop \/ DesktopFollow
  <2>1. UNCHANGED log
    BY <1>12 DEF M3uNote, M3uFollow, PlsFollow, Follow, Skip, RamStop, DesktopFollow, Call, Pass
  <2> QED BY <1>4, <2>1
<1> QED BY <1>5, <1>6, <1>7, <1>8, <1>9, <1>10, <1>11, <1>12 DEF Loop

\* Every step keeps the types.
LEMMA NextKeepsLogTypes ==
  IInv /\ NotesAreFirst /\ LogTypes /\ [Next]_vars => LogTypes'
<1> SUFFICES ASSUME IInv, NotesAreFirst, LogTypes, [Next]_vars PROVE LogTypes'
  OBVIOUS
<1>1. CASE Parse \/ UNCHANGED vars
  BY <1>1 DEF Parse, vars, env, LogTypes
<1>2. CASE Dispatch
  <2>1. UNCHANGED <<ignored, root>>
    BY <1>2 DEF Dispatch, ReturnAtOnce, ReturnVideoSite, ReadFeedScheme, ReturnUnsafe, GiveUp,
                ReadWhole, Open, env
  <2> QED BY <1>2, <2>1, DispatchEmitsSignals DEF LogTypes
<1>3. CASE Loop
  <2>1. UNCHANGED <<ignored, root>>
    BY <1>3 DEF Loop, M3uNote, M3uAdd, M3uFollow, PlsAdd, PlsFollow, Follow, Skip, RamStop, AsxTitle,
                AsxEnd, DesktopAdd, DesktopFollow, ChildReturned, Leave, Emit, Call, Pass, env
  <2> QED BY <1>3, <2>1, LoopEmitsSignals DEF LogTypes
<1>4. CASE Application
  <2>1. ASSUME NEW name \in Toggles, SetProperty(name) PROVE UNCHANGED <<ignored, root, log>>
    BY <2>1 DEF SetProperty
  <2>2. ASSUME NEW new \in LateIgnores, AddIgnored(new) PROVE LogTypes'
    <3>1. \/ new.list = "schemes" /\ new.value \in Schemes
          \/ new.list = "types" /\ new.value \in MimeTypes
          \/ new.list = "globs" /\ new.value \in STRING
      BY EngineAssumption
    <3>2. ignored' = [ignored EXCEPT ![new.list] = @ \cup {new.value}] /\ UNCHANGED <<root, log>>
      BY <2>2 DEF AddIgnored
    <3>3. ignored \in Lists
      BY DEF LogTypes
    <3>4. ignored' \in Lists
      <4>1. CASE new.list = "schemes" /\ new.value \in Schemes
        BY <3>2, <3>3, <4>1 DEF Lists
      <4>2. CASE new.list = "types" /\ new.value \in MimeTypes
        BY <3>2, <3>3, <4>2 DEF Lists
      <4>3. CASE new.list = "globs" /\ new.value \in STRING
        BY <3>2, <3>3, <4>3 DEF Lists
      <4> QED BY <3>1, <4>1, <4>2, <4>3
    <3> QED BY <3>2, <3>4 DEF LogTypes
  <2> QED BY <1>4, <2>1, <2>2 DEF Application, LogTypes
<1> QED BY <1>1, <1>2, <1>3, <1>4 DEF Next, Step, Over

\* A parse begins with typed lists and no signal.
LEMMA InitLogTypes == Init => LogTypes /\ NotesAreFirst
<1> SUFFICES ASSUME Init PROVE LogTypes /\ NotesAreFirst
  OBVIOUS
<1>1. ignored \in Lists
  <2>1. ignored \in [schemes : SUBSET Schemes, types : SUBSET MimeTypes,
                     globs : SUBSET (STRING \ {NONE})]
    BY EngineAssumption DEF Init
  <2> QED BY <2>1 DEF Lists
<1>2. NotesAreFirst
  BY DEF Init, NotesAreFirst
<1> QED BY <1>1, <1>2 DEF Init, LogTypes

\* Every part of the state takes the values it is meant to take; above all,
\* every signal the application receives names a document.
THEOREM ParseTypesHold == Spec => []TypeOK
<1>1. IInv /\ LogTypes => TypeOK
  BY DEF IInv, LogTypes, TypeOK
<1> QED BY InitKeepsIInv, NextKeepsIInv, NextKeepsNotes, InitLogTypes, NextKeepsLogTypes, <1>1,
           PTL DEF Spec

---------------------------------------------------------------------------
\* The playlists that are open after a list of signals

Openings == Seq(Docs \cup {NONE})

\* One more signal opens or closes a playlist, or changes nothing.
LEMMA AfterSignalType ==
  ASSUME NEW open \in Openings, NEW e \in Events
  PROVE  /\ AfterSignal(open, e) \in Openings
         /\ e.sig = "playlist-started" => AfterSignal(open, e) = Append(open, e.uri)
         /\ e.sig = "entry-parsed" => AfterSignal(open, e) = open
         /\ e.sig = "playlist-ended" =>
              AfterSignal(open, e) =
                IF open # <<>> /\ open[Len(open)] = e.uri THEN SubSeq(open, 1, Len(open) - 1)
                ELSE Append(open, NONE)
<1>1. e.sig \in {"playlist-started", "playlist-ended", "entry-parsed"} /\ e.uri \in Docs
  BY DEF Events, Signals
<1>2. Append(open, e.uri) \in Openings /\ Append(open, NONE) \in Openings
  BY <1>1 DEF Openings
<1>3. open # <<>> => SubSeq(open, 1, Len(open) - 1) \in Openings
  BY DEF Openings
<1>4. CASE e.sig = "playlist-started"
  BY <1>2, <1>4 DEF AfterSignal
<1>5. CASE e.sig = "playlist-ended"
  BY <1>2, <1>3, <1>5 DEF AfterSignal, Last, Front
<1>6. CASE e.sig = "entry-parsed"
  BY <1>6 DEF AfterSignal
<1> QED BY <1>1, <1>4, <1>5, <1>6

\* h goes through the playlists open after each of the signals.
OpenRun(h, s) ==
  /\ h \in [0..Len(s) -> Openings]
  /\ h[0] = <<>>
  /\ \A i \in 1..Len(s) : h[i] = AfterSignal(h[i - 1], s[i])

\* StillOpen is where it ends.
LEMMA StillOpenRun ==
  ASSUME NEW s \in Seq(Events)
  PROVE  (\E h : OpenRun(h, s)) /\ \A h : OpenRun(h, s) => StillOpen(s) = h[Len(s)]
<1> DEFINE n == Len(s)
           V == Openings
           step == [p \in (1..n) \X V |-> AfterSignal(p[2], s[p[1]])]
<1>1. n \in Nat /\ <<>> \in V
  BY DEF Openings
<1>2. \A i \in 1..n : \A o \in V : AfterSignal(o, s[i]) \in V
  BY AfterSignalType
<1> HIDE DEF V
<1>3. step \in [(1..n) \X V -> V] /\ \A i \in 1..n : \A o \in V : step[<<i, o>>] = AfterSignal(o, s[i])
  BY <1>2
<1> HIDE DEF n, step
<1>4. PICK f \in Runs(n, V, <<>>, step) : TRUE
  BY <1>1, <1>3, RunExists
<1>5. /\ f \in [0..n -> V] /\ f[0] = <<>>
      /\ \A i \in 1..n : f[i] = step[<<i, f[i - 1]>>]
  BY <1>4 DEF Runs
<1>6. ASSUME NEW i \in 1..n PROVE f[i] = AfterSignal(f[i - 1], s[i])
  <2>1. i - 1 \in 0..n /\ f[i - 1] \in V
    BY <1>1, <1>5
  <2> QED BY <1>3, <1>5, <2>1
<1>7. f = [i \in 0..n |-> IF i = 0 THEN <<>> ELSE AfterSignal(f[i - 1], s[i])]
  <2> DEFINE g == [i \in 0..n |-> IF i = 0 THEN <<>> ELSE AfterSignal(f[i - 1], s[i])]
  <2>1. ASSUME NEW i \in 0..n PROVE f[i] = g[i]
    <3>1. CASE i = 0
      BY <1>5, <3>1
    <3>2. CASE i # 0
      BY <1>1, <1>6, <3>2
    <3> QED BY <3>1, <3>2
  <2> QED BY <1>5, <2>1
<1> DEFINE open == CHOOSE g : g = [i \in 0..n |-> IF i = 0 THEN <<>> ELSE AfterSignal(g[i - 1], s[i])]
<1>8. open = [i \in 0..n |-> IF i = 0 THEN <<>> ELSE AfterSignal(open[i - 1], s[i])]
  BY <1>7
<1>9. StillOpen(s) = open[n]
  BY DEF StillOpen, n
<1> HIDE DEF open
<1>10. open[0] = <<>> /\ \A i \in 1..n : open[i] = AfterSignal(open[i - 1], s[i])
  <2> DEFINE g == [i \in 0..n |-> IF i = 0 THEN <<>> ELSE AfterSignal(open[i - 1], s[i])]
  <2>1. g[0] = <<>>
    BY <1>1
  <2>2. \A i \in 1..n : g[i] = AfterSignal(open[i - 1], s[i])
    BY <1>1
  <2>3. open = g
    BY <1>8
  <2> HIDE DEF g
  <2> QED BY <2>1, <2>2, <2>3
<1>11. ASSUME NEW h, OpenRun(h, s) PROVE StillOpen(s) = h[n]
  <2>1. h[0] = <<>> /\ (\A i \in 1..n : h[i] = AfterSignal(h[i - 1], s[i]))
    BY <1>11 DEF OpenRun, n
  <2>2. open[0] = h[0] /\ (\A i \in 1..n : open[i] = AfterSignal(open[i - 1], s[i]))
    BY <1>10, <2>1
  <2> DEFINE S == {i \in 0..n : open[i] = h[i]}
  <2>3. 0 \in S
    BY <1>1, <2>2
  <2>4. \A i \in 1..n : i - 1 \in S => i \in S
    BY <1>1, <2>1, <2>2
  <2> HIDE DEF S
  <2>5. n \in S
    BY <1>1, <2>3, <2>4, UpTo
  <2> QED BY <1>9, <2>5 DEF S
<1>12. OpenRun(f, s)
  BY <1>5, <1>6 DEF OpenRun, n, V
<1> QED BY <1>11, <1>12 DEF n

\* Nothing is open before the first signal.
LEMMA StillOpenEmpty == StillOpen(<<>>) = <<>>
<1>1. <<>> \in Seq(Events) /\ Len(<<>>) = 0
  OBVIOUS
<1>2. PICK h : OpenRun(h, <<>>)
  BY <1>1, StillOpenRun
<1> QED BY <1>1, <1>2, StillOpenRun DEF OpenRun

\* What one more signal does.
LEMMA StillOpenAppend ==
  ASSUME NEW s \in Seq(Events), NEW e \in Events
  PROVE  /\ StillOpen(s) \in Openings
         /\ StillOpen(Append(s, e)) = AfterSignal(StillOpen(s), e)
<1> DEFINE t == Append(s, e)
           n == Len(s)
<1>1. /\ t \in Seq(Events) /\ n \in Nat /\ Len(t) = n + 1 /\ t[n + 1] = e
      /\ \A i \in 1..n : t[i] = s[i]
  OBVIOUS
<1> HIDE DEF t, n
<1>2. PICK h : OpenRun(h, t)
  BY <1>1, StillOpenRun
<1>3. /\ h \in [0..(n + 1) -> Openings] /\ h[0] = <<>>
      /\ \A i \in 1..(n + 1) : h[i] = AfterSignal(h[i - 1], t[i])
  BY <1>1, <1>2 DEF OpenRun
<1> DEFINE f == [i \in 0..n |-> h[i]]
<1>4. f \in [0..n -> Openings] /\ f[0] = <<>> /\ f[n] = h[n]
  BY <1>1, <1>3
<1>5. \A i \in 1..n : f[i] = AfterSignal(f[i - 1], s[i])
  <2> SUFFICES ASSUME NEW i \in 1..n PROVE f[i] = AfterSignal(f[i - 1], s[i])
    OBVIOUS
  <2>1. f[i] = h[i] /\ f[i - 1] = h[i - 1] /\ i \in 1..(n + 1) /\ t[i] = s[i]
    BY <1>1
  <2> HIDE DEF f
  <2> QED BY <1>3, <2>1
<1> HIDE DEF f
<1>6. OpenRun(f, s)
  BY <1>4, <1>5 DEF OpenRun, n
<1>7. StillOpen(s) = h[n]
  BY <1>4, <1>6, StillOpenRun DEF n
<1>8. StillOpen(t) = h[n + 1]
  BY <1>1, <1>2, StillOpenRun
<1>9. n \in 0..(n + 1) /\ h[n + 1] = AfterSignal(h[n], e)
  BY <1>1, <1>3
<1> QED BY <1>3, <1>7, <1>8, <1>9 DEF t

\* Signals that leave no playlist open and close none.
Quiet(t) ==
  /\ t \in Seq(Events)
  /\ \A s \in Seq(Events) : StillOpen(s \o t) = StillOpen(s)

\* Nothing is quiet, and so is one quiet list after another.
LEMMA QuietConcat ==
  /\ Quiet(<<>>)
  /\ \A t, u : Quiet(t) /\ Quiet(u) => Quiet(t \o u)
<1>1. Quiet(<<>>)
  BY ConcatEmptySeq DEF Quiet
<1>2. ASSUME NEW t, NEW u, Quiet(t), Quiet(u) PROVE Quiet(t \o u)
  <2>1. t \in Seq(Events) /\ u \in Seq(Events) /\ t \o u \in Seq(Events)
    BY <1>2 DEF Quiet
  <2>2. ASSUME NEW s \in Seq(Events) PROVE StillOpen(s \o (t \o u)) = StillOpen(s)
    <3>1. (s \o t) \o u = s \o (t \o u) /\ s \o t \in Seq(Events)
      BY <2>1, ConcatAssociative
    <3>2. StillOpen((s \o t) \o u) = StillOpen(s \o t) /\ StillOpen(s \o t) = StillOpen(s)
      BY <1>2, <3>1 DEF Quiet
    <3> QED BY <3>1, <3>2
  <2> QED BY <2>1, <2>2 DEF Quiet
<1> QED BY <1>1, <1>2

\* Entries are quiet.
LEMMA QuietEntries ==
  ASSUME NEW t \in Seq(EntryEvents)
  PROVE  Quiet(t)
<1>1. t \in Seq(Events) /\ \A i \in 1..Len(t) : t[i] \in Events /\ t[i].sig = "entry-parsed"
  BY SignalTypes DEF EntryEvents
<1>2. ASSUME NEW s \in Seq(Events) PROVE StillOpen(s \o t) = StillOpen(s)
  <2> DEFINE upto(i) == s \o SubSeq(t, 1, i)
             S == {i \in 0..Len(t) : upto(i) \in Seq(Events) /\ StillOpen(upto(i)) = StillOpen(s)}
  <2>1. 0 \in S
    <3>1. SubSeq(t, 1, 0) = <<>>
      BY SubSeqEmpty
    <3>2. upto(0) = s
      BY <3>1, ConcatEmptySeq
    <3> HIDE DEF upto
    <3> QED BY <1>1, <1>2, <3>2
  <2>2. ASSUME NEW i \in 1..Len(t), i - 1 \in S PROVE i \in S
    <3>1. SubSeq(t, 1, i - 1) \in Seq(Events) /\ <<t[i]>> \in Seq(Events) /\ t[i] \in Events
      BY <1>1
    <3>2. SubSeq(t, 1, i) = SubSeq(t, 1, i - 1) \o <<t[i]>>
      BY <1>1, SubSeqRecursiveSecond
    <3>3. upto(i) = upto(i - 1) \o <<t[i]>>
      BY <3>1, <3>2, ConcatAssociative
    <3>4. upto(i - 1) \in Seq(Events) /\ StillOpen(upto(i - 1)) = StillOpen(s)
      BY <2>2
    <3> HIDE DEF upto
    <3>5. upto(i) = Append(upto(i - 1), t[i])
      BY <3>1, <3>3, <3>4
    <3>6. StillOpen(upto(i)) = AfterSignal(StillOpen(upto(i - 1)), t[i])
      BY <3>1, <3>4, <3>5, StillOpenAppend
    <3>7. AfterSignal(StillOpen(s), t[i]) = StillOpen(s)
      BY <1>1, <1>2, <3>1, StillOpenAppend, AfterSignalType
    <3>8. upto(i) \in Seq(Events)
      BY <3>1, <3>4, <3>5
    <3> QED BY <3>4, <3>6, <3>7, <3>8
  <2> DEFINE n == Len(t)
  <2> HIDE DEF S
  <2>3. n \in Nat
    OBVIOUS
  <2>4. \A i \in 1..n : i - 1 \in S => i \in S
    BY <2>2
  <2>5. upto(Len(t)) = s \o t
    BY <1>1, SubSeqFull
  <2> HIDE DEF n, upto
  <2>6. \A i \in 0..n : i \in S
    BY ONLY <2>1, <2>3, <2>4, UpTo
  <2>7. n \in S
    BY <2>3, <2>6
  <2> QED BY <2>5, <2>7 DEF S, n
<1> QED BY <1>1, <1>2 DEF Quiet

\* So is a playlist that is started and ended around quiet signals.
LEMMA QuietBracket ==
  ASSUME NEW u \in Docs, NEW t, Quiet(t)
  PROVE  Quiet(Around(<<Started(u)>>, t, <<Ended(u)>>))
<1> DEFINE a == Started(u)
           b == Ended(u)
<1>1. /\ a \in Events /\ b \in Events /\ a.sig = "playlist-started" /\ b.sig = "playlist-ended"
      /\ a.uri = u /\ b.uri = u
  BY SignalTypes
<1> HIDE DEF a, b
<1>2. t \in Seq(Events) /\ <<a>> \in Seq(Events) /\ <<b>> \in Seq(Events)
  BY <1>1 DEF Quiet
<1>3. (<<a>> \o t) \o <<b>> \in Seq(Events)
  BY <1>2
<1>4. ASSUME NEW s \in Seq(Events) PROVE StillOpen(s \o ((<<a>> \o t) \o <<b>>)) = StillOpen(s)
  <2>1. s \o <<a>> \in Seq(Events) /\ (s \o <<a>>) \o t \in Seq(Events) /\ <<a>> \o t \in Seq(Events)
    BY <1>2
  <2>2. s \o ((<<a>> \o t) \o <<b>>) = (s \o (<<a>> \o t)) \o <<b>>
    BY <1>2, <2>1, ConcatAssociative
  <2>3. s \o (<<a>> \o t) = (s \o <<a>>) \o t
    BY <1>2, ConcatAssociative
  <2> DEFINE r == (s \o <<a>>) \o t
  <2>4. r \in Seq(Events) /\ s \o ((<<a>> \o t) \o <<b>>) = r \o <<b>>
    BY <2>1, <2>2, <2>3
  <2>5. s \o <<a>> = Append(s, a)
    BY <1>1
  <2>6. StillOpen(r) = StillOpen(s \o <<a>>)
    BY <1>4, <2>1 DEF Quiet
  <2> HIDE DEF r
  <2>7. r \o <<b>> = Append(r, b)
    BY <1>1, <2>4
  <2> DEFINE x == StillOpen(s)
  <2>8. x \in Openings /\ StillOpen(Append(s, a)) = Append(x, u)
    BY <1>1, StillOpenAppend, AfterSignalType
  <2> HIDE DEF x
  <2>9. Append(x, u) \in Openings
    BY <2>8 DEF Openings
  <2>10. StillOpen(Append(r, b)) = AfterSignal(Append(x, u), b)
    BY <1>1, <2>4, <2>5, <2>6, <2>8, StillOpenAppend
  <2>11. Append(x, u) # <<>> /\ Append(x, u)[Len(Append(x, u))] = u
         /\ SubSeq(Append(x, u), 1, Len(Append(x, u)) - 1) = x
    BY <2>8 DEF Openings
  <2>12. AfterSignal(Append(x, u), b) = x
    BY <1>1, <2>9, <2>11, AfterSignalType
  <2> QED BY <2>4, <2>7, <2>10, <2>12 DEF x
<1> QED BY <1>3, <1>4 DEF Quiet, Around, a, b

---------------------------------------------------------------------------
\* The playlists that running handlers have started

\* A handler has started some playlists.
LEMMA StartedByType ==
  ASSUME NEW f \in Frames
  PROVE  StartedBy(f) \in Openings
<1>1. f.doc \in Docs /\ World[f.doc].items \in Seq(Items)
  BY WorldAssumption DEF Frames, Documents
<1> DEFINE n == Excess(ItemsOf(f), f.i - 1)
<1>2. n \in Int
  <2>1. f.i - 1 \in Nat
    BY DEF Frames
  <2>2. \A op : MarksUpTo(ItemsOf(f), op, f.i - 1) \subseteq 1..(f.i - 1)
    BY DEF MarksUpTo
  <2>3. IsFiniteSet(1..(f.i - 1))
    BY <2>1, FS_Interval
  <2>4. \A op : IsFiniteSet(MarksUpTo(ItemsOf(f), op, f.i - 1))
    BY <2>2, <2>3, FS_Subset
  <2>5. \A op : Cardinality(MarksUpTo(ItemsOf(f), op, f.i - 1)) \in Nat
    BY <2>4, FS_CardinalityType
  <2> QED BY <2>5 DEF Excess
<1> HIDE DEF n
<1>3. [j \in 1..n |-> f.doc] \in Openings
  <2>1. CASE n >= 0
    BY <1>1, <1>2, <2>1 DEF Openings
  <2>2. CASE n < 0
    <3>1. 1..n = 1..0
      BY <1>2, <2>2
    <3>2. [j \in 1..0 |-> f.doc] \in Openings
      BY <1>1 DEF Openings
    <3> QED BY <3>1, <3>2
  <2> QED BY <1>2, <2>1, <2>2
<1>4. <<>> \in Openings /\ <<f.doc>> \in Openings
  BY <1>1 DEF Openings
<1> QED BY <1>3, <1>4 DEF StartedBy, n

\* One handler after another.
LEMMA OpeningsConcat ==
  ASSUME NEW s \in Openings, NEW t \in Openings
  PROVE  s \o t \in Openings
BY ConcatProperties DEF Openings

\* h goes through the playlists started by the first handlers.
OpenedRun(h, frames) ==
  /\ h \in [0..Len(frames) -> Openings]
  /\ h[0] = <<>>
  /\ \A k \in 1..Len(frames) : h[k] = h[k - 1] \o StartedBy(frames[k])

\* OpenedBy is where it ends.
LEMMA OpenedByRun ==
  ASSUME NEW s \in Seq(Frames)
  PROVE  (\E h : OpenedRun(h, s)) /\ \A h : OpenedRun(h, s) => OpenedBy(s) = h[Len(s)]
<1> DEFINE n == Len(s)
           V == Openings
           By(o, k) == o \o StartedBy(s[k])
           step == [p \in (1..n) \X V |-> By(p[2], p[1])]
<1>1. n \in Nat /\ <<>> \in V
  BY DEF Openings
<1>2. \A i \in 1..n : \A o \in V : By(o, i) \in V
  <2> SUFFICES ASSUME NEW i \in 1..n, NEW o \in V PROVE By(o, i) \in V
    OBVIOUS
  <2>1. s[i] \in Frames
    OBVIOUS
  <2> QED BY <2>1, StartedByType, OpeningsConcat
<1> HIDE DEF V, By
<1>3. step \in [(1..n) \X V -> V] /\ \A i \in 1..n : \A o \in V : step[<<i, o>>] = By(o, i)
  BY <1>2
<1> HIDE DEF n, step
<1>4. PICK f \in Runs(n, V, <<>>, step) : TRUE
  BY <1>1, <1>3, RunExists
<1>5. /\ f \in [0..n -> V] /\ f[0] = <<>>
      /\ \A i \in 1..n : f[i] = step[<<i, f[i - 1]>>]
  BY <1>4 DEF Runs
<1>6. ASSUME NEW i \in 1..n PROVE f[i] = By(f[i - 1], i)
  <2>1. i - 1 \in 0..n /\ f[i - 1] \in V
    BY <1>1, <1>5
  <2> QED BY <1>3, <1>5, <2>1
<1>7. f = [i \in 0..n |-> IF i = 0 THEN <<>> ELSE By(f[i - 1], i)]
  <2> DEFINE g == [i \in 0..n |-> IF i = 0 THEN <<>> ELSE By(f[i - 1], i)]
  <2>1. ASSUME NEW i \in 0..n PROVE f[i] = g[i]
    <3>1. CASE i = 0
      BY <1>5, <3>1
    <3>2. CASE i # 0
      BY <1>1, <1>6, <3>2
    <3> QED BY <3>1, <3>2
  <2> QED BY <1>5, <2>1
<1> DEFINE opened == CHOOSE g : g = [i \in 0..n |-> IF i = 0 THEN <<>> ELSE By(g[i - 1], i)]
<1>8. opened = [i \in 0..n |-> IF i = 0 THEN <<>> ELSE By(opened[i - 1], i)]
  BY <1>7
<1>9. OpenedBy(s) = opened[n]
  BY DEF OpenedBy, n, By
<1> HIDE DEF opened
<1>10. opened[0] = <<>> /\ \A i \in 1..n : opened[i] = By(opened[i - 1], i)
  <2> DEFINE g == [i \in 0..n |-> IF i = 0 THEN <<>> ELSE By(opened[i - 1], i)]
  <2>1. g[0] = <<>>
    BY <1>1
  <2>2. \A i \in 1..n : g[i] = By(opened[i - 1], i)
    BY <1>1
  <2>3. opened = g
    BY <1>8
  <2> HIDE DEF g
  <2> QED BY <2>1, <2>2, <2>3
<1>11. ASSUME NEW h, OpenedRun(h, s) PROVE OpenedBy(s) = h[n]
  <2>1. h[0] = <<>> /\ (\A i \in 1..n : h[i] = By(h[i - 1], i))
    BY <1>11 DEF OpenedRun, n, By
  <2>2. opened[0] = h[0] /\ (\A i \in 1..n : opened[i] = By(opened[i - 1], i))
    BY <1>10, <2>1
  <2> DEFINE S == {i \in 0..n : opened[i] = h[i]}
  <2>3. 0 \in S
    BY <1>1, <2>2
  <2>4. \A i \in 1..n : i - 1 \in S => i \in S
    BY <1>1, <2>1, <2>2
  <2> HIDE DEF S
  <2>5. \A i \in 0..n : i \in S
    BY ONLY <1>1, <2>3, <2>4, UpTo
  <2>6. n \in S
    BY <1>1, <2>5
  <2> QED BY <1>9, <2>6 DEF S
<1>12. OpenedRun(f, s)
  BY <1>5, <1>6 DEF OpenedRun, n, V, By
<1> QED BY <1>11, <1>12 DEF n

\* No handler has started nothing.
LEMMA OpenedByNone == OpenedBy(<<>>) = <<>>
<1>1. <<>> \in Seq(Frames) /\ Len(<<>>) = 0
  OBVIOUS
<1>2. PICK h : OpenedRun(h, <<>>)
  BY <1>1, OpenedByRun
<1> QED BY <1>1, <1>2, OpenedByRun DEF OpenedRun

\* The innermost handler comes last.
LEMMA OpenedByAppend ==
  ASSUME NEW s \in Seq(Frames), NEW f \in Frames
  PROVE  /\ OpenedBy(s) \in Openings
         /\ OpenedBy(Append(s, f)) = OpenedBy(s) \o StartedBy(f)
<1> DEFINE t == Append(s, f)
           n == Len(s)
<1>1. /\ t \in Seq(Frames) /\ n \in Nat /\ Len(t) = n + 1 /\ t[n + 1] = f
      /\ \A i \in 1..n : t[i] = s[i]
  OBVIOUS
<1> HIDE DEF t, n
<1>2. PICK h : OpenedRun(h, t)
  BY <1>1, OpenedByRun
<1>3. /\ h \in [0..(n + 1) -> Openings] /\ h[0] = <<>>
      /\ \A i \in 1..(n + 1) : h[i] = h[i - 1] \o StartedBy(t[i])
  BY <1>1, <1>2 DEF OpenedRun
<1> DEFINE g == [i \in 0..n |-> h[i]]
<1>4. g \in [0..n -> Openings] /\ g[0] = <<>> /\ g[n] = h[n]
  BY <1>1, <1>3
<1>5. \A i \in 1..n : g[i] = g[i - 1] \o StartedBy(s[i])
  <2> SUFFICES ASSUME NEW i \in 1..n PROVE g[i] = g[i - 1] \o StartedBy(s[i])
    OBVIOUS
  <2>1. g[i] = h[i] /\ g[i - 1] = h[i - 1] /\ i \in 1..(n + 1) /\ t[i] = s[i]
    BY <1>1
  <2> HIDE DEF g
  <2> QED BY <1>3, <2>1
<1> HIDE DEF g
<1>6. OpenedRun(g, s)
  BY <1>4, <1>5 DEF OpenedRun, n
<1>7. OpenedBy(s) = h[n]
  BY <1>4, <1>6, OpenedByRun DEF n
<1>8. OpenedBy(t) = h[n + 1]
  BY <1>1, <1>2, OpenedByRun
<1>9. n \in 0..(n + 1) /\ h[n + 1] = h[n] \o StartedBy(f)
  <2>1. n + 1 \in 1..(n + 1) /\ (n + 1) - 1 = n /\ n \in 0..(n + 1)
    BY <1>1
  <2>2. h[n + 1] = h[(n + 1) - 1] \o StartedBy(t[n + 1])
    BY <1>3, <2>1
  <2> QED BY <1>1, <2>1, <2>2
<1> QED BY <1>3, <1>7, <1>8, <1>9 DEF t

\* Past an item that is neither a title nor an end, a handler has started what
\* it had before; a title is one more, an end one less.
LEMMA ExcessNext ==
  ASSUME NEW items, NEW i \in Nat \ {0}
  PROVE  Excess(items, i) = Excess(items, i - 1)
                              + (IF items[i].op = "title" THEN 1 ELSE 0)
                              - (IF items[i].op = "end" THEN 1 ELSE 0)
<1>1. ASSUME NEW op
      PROVE  /\ Cardinality(MarksUpTo(items, op, i - 1)) \in Nat
             /\ Cardinality(MarksUpTo(items, op, i)) =
                  Cardinality(MarksUpTo(items, op, i - 1)) + (IF items[i].op = op THEN 1 ELSE 0)
  <2> DEFINE T == MarksUpTo(items, op, i - 1)
  <2>1. T \subseteq 1..(i - 1) /\ IsFiniteSet(1..(i - 1)) /\ i \notin T
    BY FS_Interval DEF MarksUpTo
  <2>2. MarksUpTo(items, op, i) = IF items[i].op = op THEN T \cup {i} ELSE T
    BY DEF MarksUpTo
  <2> HIDE DEF T
  <2>3. IsFiniteSet(T)
    BY <2>1, FS_Subset
  <2>4. Cardinality(T) \in Nat /\ Cardinality(T \cup {i}) = Cardinality(T) + 1
    BY <2>1, <2>3, FS_CardinalityType, FS_AddElement
  <2> QED BY <2>2, <2>4 DEF T
<1> DEFINE t0 == Cardinality(MarksUpTo(items, "title", i - 1))
           e0 == Cardinality(MarksUpTo(items, "end", i - 1))
<1>2. /\ t0 \in Nat /\ e0 \in Nat
      /\ Cardinality(MarksUpTo(items, "title", i)) = t0 + (IF items[i].op = "title" THEN 1 ELSE 0)
      /\ Cardinality(MarksUpTo(items, "end", i)) = e0 + (IF items[i].op = "end" THEN 1 ELSE 0)
  BY <1>1
<1>3. Excess(items, i - 1) = t0 - e0
  BY DEF Excess
<1> HIDE DEF t0, e0
<1> QED BY <1>2, <1>3 DEF Excess

\* Before its first item a handler has started nothing but its own playlist.
LEMMA ExcessAtStart ==
  ASSUME NEW items
  PROVE  Excess(items, 0) = 0
<1>1. \A op : MarksUpTo(items, op, 0) = {}
  BY DEF MarksUpTo
<1> QED BY <1>1, FS_EmptySet DEF Excess

---------------------------------------------------------------------------
\* Signals are nested

NestedStates ==
  {p \in Seq(Events) \X Seq(Frames) : StillOpen(p[1]) = OpenedBy(p[2])}
SignalsFit == <<log, stack>> \in NestedStates

\* What it says.
LEMMA FitMeans ==
  ASSUME NEW l \in Seq(Events), NEW s \in Seq(Frames)
  PROVE  <<l, s>> \in NestedStates <=> StillOpen(l) = OpenedBy(s)
BY DEF NestedStates

\* A single entry is quiet, and so is what the tail emits.
LEMMA QuietEntry ==
  /\ \A u \in Docs : \A t \in Titles : Quiet(<<Entry(u, t)>>)
  /\ \A u \in Docs : \A r, type : Quiet(TailEntry(u, r, type))
<1>1. ASSUME NEW u \in Docs, NEW t \in Titles PROVE Quiet(<<Entry(u, t)>>)
  <2>1. Entry(u, t) \in EntryEvents
    BY SignalTypes
  <2>2. <<Entry(u, t)>> \in Seq(EntryEvents)
    BY <2>1
  <2> QED BY <2>2, QuietEntries
<1>2. ASSUME NEW u \in Docs, NEW r, NEW type PROVE Quiet(TailEntry(u, r, type))
  <2>1. Quiet(<<Entry(u, NONE)>>) /\ Quiet(<<>>)
    BY <1>1, SignalTypes, QuietConcat
  <2> QED BY <2>1 DEF TailEntry
<1> QED BY <1>1, <1>2

\* A handler of a tidy world ends what it starts.
LEMMA OpensAsItCloses ==
  ASSUME NEW form, NEW items, form # "opml",
         form = "atom" => \E i \in DOMAIN items : items[i].op = "entry"
  PROVE  Opens(form, items) <=> Closes(form)
<1>1. CASE form = "atom"
  BY <1>1 DEF Opens, Closes
<1>2. CASE form # "atom"
  BY <1>2 DEF Opens, Closes
<1> QED BY <1>1, <1>2

\* What a handler emits that does not open the document is quiet in a tidy
\* world.
LEMMA QuietOutcome ==
  ASSUME TidyWorld, NEW uri \in Docs, NEW func, NEW b, NEW recurse
  PROVE  Quiet(Outcome(func, uri, World[uri], b, recurse).log)
<1> DEFINE d == World[uri]
           emitted == Outcome(func, uri, d, b, recurse).log
           whole == OneGoLog(uri, d, recurse)
<1>1. /\ d \in Documents /\ d.form # "opml"
      /\ d.form = "atom" => \E i \in DOMAIN d.items : d.items[i].op = "entry"
  BY WorldAssumption DEF TidyWorld
<1>2. Opens(d.form, d.items) <=> Closes(d.form)
  BY <1>1, OpensAsItCloses
<1> HIDE DEF d
<1>3. emitted \in {<<>>, <<Entry(uri, NONE)>>} \/ emitted = whole
  BY <1>1, OutcomeLogIs
<1>4. Quiet(<<>>) /\ Quiet(<<Entry(uri, NONE)>>)
  BY QuietConcat, QuietEntry, SignalTypes
<1>5. Quiet(whole)
  <2>1. \/ whole = <<>>
        \/ \E entries \in Seq(EntryEvents) :
             whole = Around(IF Opens(d.form, d.items) THEN <<Started(uri)>> ELSE <<>>, entries,
                            IF Closes(d.form) THEN <<Ended(uri)>> ELSE <<>>)
    BY <1>1, OneGoLogIs
  <2>2. ASSUME NEW entries \in Seq(EntryEvents)
        PROVE  /\ Quiet(Around(<<Started(uri)>>, entries, <<Ended(uri)>>))
               /\ Quiet(Around(<<>>, entries, <<>>))
    BY <1>4, QuietEntries, QuietBracket, QuietConcat DEF Around
  <2> HIDE DEF whole, d
  <2>3. CASE whole = <<>>
    BY <1>4, <2>3
  <2>4. CASE whole # <<>>
    <3>1. PICK entries \in Seq(EntryEvents) :
             whole = Around(IF Opens(d.form, d.items) THEN <<Started(uri)>> ELSE <<>>, entries,
                            IF Closes(d.form) THEN <<Ended(uri)>> ELSE <<>>)
      BY <2>1, <2>4
    <3>2. whole = Around(<<Started(uri)>>, entries, <<Ended(uri)>>) \/ whole = Around(<<>>, entries, <<>>)
      BY <1>2, <3>1
    <3> QED BY <2>2, <3>2
  <2> QED BY <2>3, <2>4
<1> HIDE DEF emitted, whole
<1>6. Quiet(emitted)
  BY <1>3, <1>4, <1>5
<1> QED BY <1>6 DEF emitted, d

\* A step that emits quiet signals and leaves what the handlers started.
LEMMA QuietStep ==
  ASSUME SignalsFit, log \in Seq(Events), stack \in Seq(Frames), stack' \in Seq(Frames),
         NEW t, Quiet(t), log' = log \o t, OpenedBy(stack') = OpenedBy(stack)
  PROVE  SignalsFit'
<1>1. StillOpen(log) = OpenedBy(stack)
  BY FitMeans DEF SignalsFit
<1>2. t \in Seq(Events) /\ log' \in Seq(Events) /\ StillOpen(log \o t) = StillOpen(log)
  BY DEF Quiet
<1>3. StillOpen(log') = OpenedBy(stack')
  BY <1>1, <1>2
<1>4. <<log', stack'>> \in NestedStates
  BY <1>2, <1>3, FitMeans
<1> QED BY <1>4 DEF SignalsFit

\* The handlers that are running are the innermost one and those below it.
LEMMA StackIsBelowTop ==
  ASSUME stack \in Seq(Frames), stack # <<>>
  PROVE  Below \in Seq(Frames) /\ stack = Append(Below, Top)
<1> DEFINE n == Len(stack)
<1>1. n \in Nat \ {0} /\ Top \in Frames /\ Top = stack[n]
  BY DEF Top
<1>2. Below \in Seq(Frames) /\ Len(Below) = n - 1 /\ \A k \in 1..(n - 1) : Below[k] = stack[k]
  BY <1>1, PrefixType DEF Below
<1> HIDE DEF n
<1>3. Append(Below, Top) \in Seq(Frames) /\ Len(Append(Below, Top)) = n
  BY <1>1, <1>2
<1>4. \A k \in 1..n : Append(Below, Top)[k] = stack[k]
  BY <1>1, <1>2
<1> QED BY <1>2, <1>3, <1>4, SeqEqual DEF n

\* The innermost handler, and what replaces it, comes on top.
LEMMA ReplacedOpens ==
  ASSUME stack \in Seq(Frames), stack # <<>>, stack' \in Seq(Frames), NEW f, Replace(f)
  PROVE  /\ f \in Frames /\ Top \in Frames /\ Below \in Seq(Frames) /\ OpenedBy(Below) \in Openings
         /\ OpenedBy(stack) = OpenedBy(Below) \o StartedBy(Top)
         /\ OpenedBy(stack') = OpenedBy(Below) \o StartedBy(f)
<1> DEFINE n == Len(stack)
<1>1. n \in Nat \ {0}
  OBVIOUS
<1>2. stack' = [stack EXCEPT ![n] = f]
  BY DEF Replace
<1>3. Len(stack') = n /\ stack'[n] = f /\ \A k \in 1..(n - 1) : stack'[k] = stack[k]
  BY <1>1, <1>2
<1>4. f \in Frames /\ Top \in Frames /\ Top = stack[n]
  BY <1>1, <1>3 DEF Top
<1>5. Below \in Seq(Frames) /\ Len(Below) = n - 1 /\ \A k \in 1..(n - 1) : Below[k] = stack[k]
  BY <1>1, PrefixType DEF Below
<1> HIDE DEF n
<1>6. Append(Below, Top) \in Seq(Frames) /\ Append(Below, f) \in Seq(Frames)
      /\ Len(Append(Below, Top)) = n /\ Len(Append(Below, f)) = n
  BY <1>1, <1>4, <1>5
<1>7. \A k \in 1..n : Append(Below, Top)[k] = stack[k] /\ Append(Below, f)[k] = stack'[k]
  BY <1>1, <1>3, <1>4, <1>5
<1>8. stack = Append(Below, Top)
  BY <1>6, <1>7, SeqEqual DEF n
<1>9. stack' = Append(Below, f)
  BY <1>3, <1>6, <1>7, SeqEqual
<1> QED BY <1>4, <1>5, <1>8, <1>9, OpenedByAppend

\* What a handler that goes on has started, when the item it passes is neither
\* a title nor an end.
LEMMA StartedSame ==
  ASSUME NEW f \in Frames, NEW g \in Frames, g.doc = f.doc, g.reader = f.reader,
         \/ f.reader # "asx"
         \/ g.i = f.i
         \/ g.i = f.i + 1 /\ World[f.doc].items[f.i].op \notin {"title", "end"}
  PROVE  StartedBy(g) = StartedBy(f)
<1>1. f.i \in Nat \ {0}
  BY DEF Frames
<1>2. CASE f.reader # "asx"
  BY <1>2 DEF StartedBy, Bracketed
<1>3. CASE g.i = f.i
  BY <1>3 DEF StartedBy, ItemsOf
<1>4. CASE g.i = f.i + 1 /\ World[f.doc].items[f.i].op \notin {"title", "end"}
  <2>1. Excess(World[f.doc].items, f.i) = Excess(World[f.doc].items, f.i - 1)
                              + (IF World[f.doc].items[f.i].op = "title" THEN 1 ELSE 0)
                              - (IF World[f.doc].items[f.i].op = "end" THEN 1 ELSE 0)
    BY <1>1, ExcessNext
  <2>2. Excess(World[f.doc].items, f.i - 1) \in Int
    <3>1. MarksUpTo(World[f.doc].items, "title", f.i - 1) \subseteq 1..(f.i - 1)
          /\ MarksUpTo(World[f.doc].items, "end", f.i - 1) \subseteq 1..(f.i - 1)
      BY DEF MarksUpTo
    <3>2. IsFiniteSet(1..(f.i - 1))
      BY <1>1, FS_Interval
    <3>3. /\ IsFiniteSet(MarksUpTo(World[f.doc].items, "title", f.i - 1))
          /\ IsFiniteSet(MarksUpTo(World[f.doc].items, "end", f.i - 1))
      BY <3>1, <3>2, FS_Subset
    <3>4. /\ Cardinality(MarksUpTo(World[f.doc].items, "title", f.i - 1)) \in Nat
          /\ Cardinality(MarksUpTo(World[f.doc].items, "end", f.i - 1)) \in Nat
      BY <3>3, FS_CardinalityType
    <3> QED BY <3>4 DEF Excess
  <2>3. Excess(World[f.doc].items, f.i) = Excess(World[f.doc].items, f.i - 1) /\ g.i - 1 = f.i
    BY <1>1, <1>4, <2>1, <2>2
  <2> QED BY <2>3 DEF StartedBy, ItemsOf
<1> QED BY <1>2, <1>3, <1>4

\* The signal that starts a playlist, and the one that ends it.
LEMMA BracketSignals ==
  ASSUME NEW s \in Seq(Events), NEW u \in Docs, NEW x \in Openings
  PROVE  /\ StillOpen(s) = x =>
              Append(s, Started(u)) \in Seq(Events) /\ StillOpen(Append(s, Started(u))) = Append(x, u)
         /\ StillOpen(s) = Append(x, u) =>
              Append(s, Ended(u)) \in Seq(Events) /\ StillOpen(Append(s, Ended(u))) = x
<1> DEFINE a == Started(u)
           b == Ended(u)
<1>1. /\ a \in Events /\ b \in Events /\ a.sig = "playlist-started" /\ b.sig = "playlist-ended"
      /\ a.uri = u /\ b.uri = u
  BY SignalTypes
<1> HIDE DEF a, b
<1>2. Append(s, a) \in Seq(Events) /\ Append(s, b) \in Seq(Events)
  BY <1>1
<1>3. ASSUME StillOpen(s) = x PROVE StillOpen(Append(s, a)) = Append(x, u)
  BY <1>1, <1>3, StillOpenAppend, AfterSignalType
<1>4. ASSUME StillOpen(s) = Append(x, u) PROVE StillOpen(Append(s, b)) = x
  <2>1. Append(x, u) # <<>> /\ Append(x, u)[Len(Append(x, u))] = u
         /\ SubSeq(Append(x, u), 1, Len(Append(x, u)) - 1) = x /\ Append(x, u) \in Openings
    BY DEF Openings
  <2>2. AfterSignal(Append(x, u), b) = x
    BY <1>1, <2>1, AfterSignalType
  <2> QED BY <1>1, <1>4, <2>2, StillOpenAppend
<1> QED BY <1>2, <1>3, <1>4 DEF a, b

\* The innermost handler starts a playlist, or ends it.
LEMMA StartStep ==
  ASSUME SignalsFit, log \in Seq(Events), stack \in Seq(Frames), stack' \in Seq(Frames),
         NEW u \in Docs, log' = Append(log, Started(u)),
         OpenedBy(stack) \in Openings, OpenedBy(stack') = Append(OpenedBy(stack), u)
  PROVE  SignalsFit'
<1>1. StillOpen(log) = OpenedBy(stack)
  BY FitMeans DEF SignalsFit
<1>2. log' \in Seq(Events) /\ StillOpen(log') = OpenedBy(stack')
  BY <1>1, BracketSignals
<1>3. <<log', stack'>> \in NestedStates
  BY <1>2, FitMeans
<1> QED BY <1>3 DEF SignalsFit

LEMMA EndStep ==
  ASSUME SignalsFit, log \in Seq(Events), stack \in Seq(Frames), stack' \in Seq(Frames),
         NEW u \in Docs, NEW t, Quiet(t), log' = Append(log, Ended(u)) \o t,
         OpenedBy(stack') \in Openings, OpenedBy(stack) = Append(OpenedBy(stack'), u)
  PROVE  SignalsFit'
<1>1. StillOpen(log) = OpenedBy(stack)
  BY FitMeans DEF SignalsFit
<1>2. Append(log, Ended(u)) \in Seq(Events) /\ StillOpen(Append(log, Ended(u))) = OpenedBy(stack')
  BY <1>1, BracketSignals
<1> DEFINE l == Append(log, Ended(u))
<1>3. l \in Seq(Events) /\ StillOpen(l) = OpenedBy(stack') /\ log' = l \o t
  BY <1>2
<1> HIDE DEF l
<1>4. t \in Seq(Events) /\ StillOpen(l \o t) = StillOpen(l)
  BY <1>3 DEF Quiet
<1>5. l \o t \in Seq(Events)
  BY <1>3, <1>4, ConcatProperties
<1>6. log' \in Seq(Events) /\ StillOpen(log') = OpenedBy(stack')
  BY <1>3, <1>4, <1>5
<1>7. <<log', stack'>> \in NestedStates
  BY <1>6, FitMeans
<1> QED BY <1>7 DEF SignalsFit

\* As many names of one document.
Copies(n, u) == [j \in 1..n |-> u]

LEMMA CopiesNext ==
  ASSUME NEW n \in Nat, NEW u \in Docs
  PROVE  /\ Copies(n, u) \in Openings /\ Copies(0, u) = <<>>
         /\ Copies(n + 1, u) = Append(Copies(n, u), u)
<1>1. Copies(n, u) \in Openings /\ Copies(n + 1, u) \in Openings
  BY DEF Copies, Openings
<1>2. Len(Copies(n, u)) = n /\ Len(Copies(n + 1, u)) = n + 1
      /\ \A j \in 1..n : Copies(n, u)[j] = u
  BY DEF Copies
<1>3. \A j \in 1..(n + 1) : Copies(n + 1, u)[j] = u
  BY DEF Copies
<1> DEFINE c == Copies(n, u)
           d == Copies(n + 1, u)
<1> HIDE DEF c, d
<1>4. Append(c, u) \in Seq(Docs \cup {NONE}) /\ Len(Append(c, u)) = n + 1
      /\ \A j \in 1..(n + 1) : Append(c, u)[j] = u
  BY <1>1, <1>2 DEF Openings, c
<1>5. d = Append(c, u)
  BY <1>1, <1>2, <1>3, <1>4, SeqEqual DEF Openings, d
<1>6. Copies(0, u) = <<>>
  BY DEF Copies
<1> QED BY <1>1, <1>5, <1>6 DEF c, d

\* One more on top.
LEMMA OpeningsAppend ==
  ASSUME NEW x \in Openings, NEW y \in Openings, NEW u \in Docs
  PROVE  x \o Append(y, u) = Append(x \o y, u) /\ x \o <<u>> = Append(x, u) /\ x \o <<>> = x
         /\ x \o y \in Openings
<1>1. <<u>> \in Openings
  BY DEF Openings
<1>2. Append(y, u) = y \o <<u>> /\ x \o <<u>> = Append(x, u)
  BY <1>1 DEF Openings
<1>3. x \o y \in Openings
  BY OpeningsConcat
<1>4. Append(x \o y, u) = (x \o y) \o <<u>>
  BY <1>1, <1>3 DEF Openings
<1>5. (x \o y) \o <<u>> = x \o (y \o <<u>>)
  BY <1>1, ConcatAssociative DEF Openings
<1>6. x \o <<>> = x
  BY ConcatEmptySeq DEF Openings
<1> QED BY <1>2, <1>3, <1>4, <1>5, <1>6

\* An answer of parse_internal that opens nothing is quiet.
LEMMA DispatchKeepsFit ==
  ASSUME TidyWorld, IInv, IInv', LogTypes, SignalsFit, Dispatch
  PROVE  SignalsFit'
<1>1. PICK v \in {Decision} :
        \/ ReturnAtOnce(v) \/ ReturnVideoSite(v) \/ ReadFeedScheme(v)
        \/ ReturnUnsafe(v) \/ GiveUp(v) \/ ReadWhole(v) \/ Open(v)
  BY DEF Dispatch
<1>2. /\ arg \in Docs /\ World[arg] \in Documents /\ opts \in Options /\ level \in Nat
      /\ log \in Seq(Events) /\ stack \in Seq(Frames) /\ stack' \in Seq(Frames)
  BY WorldAssumption DEF IInv, ControlTypes, LogTypes
<1>3. v = parse_internal(World[arg], opts, level, RECURSE_LEVEL_MAX, ignored)
  BY <1>1 DEF Decision
<1>4. v.do = "direct" => World[arg].feed \in Docs
  BY <1>2, <1>3, DecisionFacts, EngineAssumption
<1>5. ASSUME NEW t, Quiet(t), log' = log \o t, UNCHANGED stack PROVE SignalsFit'
  BY <1>2, <1>5, QuietStep
<1>6. CASE ReturnAtOnce(v) \/ ReturnUnsafe(v)
  <2>1. log' = log \o <<>> /\ UNCHANGED stack
    BY <1>2, <1>6, ConcatEmptySeq DEF ReturnAtOnce, ReturnUnsafe
  <2> QED BY <1>5, <2>1, QuietConcat
<1>7. CASE ReturnVideoSite(v)
  <2>1. log' = log \o <<Entry(arg, NONE)>> /\ UNCHANGED stack
    BY <1>2, <1>7, SignalTypes DEF ReturnVideoSite
  <2>2. Quiet(<<Entry(arg, NONE)>>)
    BY <1>2, QuietEntry, SignalTypes
  <2> QED BY <1>5, <2>1, <2>2
<1>8. CASE ReadFeedScheme(v)
  <2> DEFINE feed == World[arg].feed
  <2>1. feed \in Docs
    BY <1>4, <1>8 DEF ReadFeedScheme
  <2> HIDE DEF feed
  <2> DEFINE emitted == Outcome("rss", feed, World[feed], FALSE, priv.recurse).log
  <2>2. log' = log \o emitted /\ UNCHANGED stack
    BY <1>8 DEF ReadFeedScheme, feed
  <2>3. Quiet(emitted)
    BY <2>1, QuietOutcome
  <2> HIDE DEF emitted
  <2> QED BY <1>5, <2>2, <2>3
<1>9. ASSUME NEW r, NEW type, NEW emitted, Quiet(emitted), ThroughTail(arg, r, type, emitted),
             UNCHANGED stack
      PROVE  SignalsFit'
  <2> DEFINE tail == TailEntry(arg, r, type)
  <2>1. emitted \in Seq(Events) /\ log' = (log \o emitted) \o tail
    BY <1>2, <1>9, TailIsTyped DEF Quiet
  <2>2. Quiet(tail)
    BY <1>2, QuietEntry
  <2> HIDE DEF tail
  <2>3. tail \in Seq(Events)
    BY <2>2 DEF Quiet
  <2>4. log' = log \o (emitted \o tail)
    BY <1>2, <2>1, <2>3, ConcatAssociative
  <2>5. Quiet(emitted \o tail)
    BY <1>9, <2>2, QuietConcat
  <2> QED BY <1>5, <1>9, <2>4, <2>5
<1>10. CASE GiveUp(v)
  BY <1>9, <1>10, QuietConcat DEF GiveUp
<1>11. CASE ReadWhole(v)
  <2> DEFINE out == Outcome(v.func, arg, World[arg], v.data, priv.recurse)
  <2>1. Quiet(out.log)
    BY <1>2, QuietOutcome
  <2>2. ThroughTail(arg, out.ret, v.type, out.log) /\ UNCHANGED stack
    BY <1>11 DEF ReadWhole
  <2> HIDE DEF out
  <2> QED BY <1>9, <2>1, <2>2
<1>12. CASE Open(v)
  <2> DEFINE reader == ReaderFor(v.func, World[arg], v.data)
             f == [doc |-> arg, reader |-> reader, type |-> v.type, i |-> 1,
                   waits |-> FALSE, saved |-> FALSE, note |-> NoNote]
  <2>1. stack' = Append(stack, f) /\ log' = log \o Opening(reader, arg)
    BY <1>12 DEF Open
  <2> HIDE DEF reader
  <2>2. f.doc = arg /\ f.reader = reader /\ f.i = 1
    OBVIOUS
  <2> HIDE DEF f
  <2>3. f \in Frames
    <3>1. stack'[Len(stack) + 1] = f /\ Len(stack') = Len(stack) + 1
      BY <1>2, <2>1
    <3> QED BY <1>2, <3>1
  <2>4. OpenedBy(stack) \in Openings /\ OpenedBy(stack') = OpenedBy(stack) \o StartedBy(f)
    BY <1>2, <2>1, <2>3, OpenedByAppend
  <2>5. CASE Bracketed(reader)
    <3>1. StartedBy(f) = <<arg>>
      BY <2>2, <2>5 DEF StartedBy
    <3>2. OpenedBy(stack') = Append(OpenedBy(stack), arg)
      BY <1>2, <2>4, <3>1, OpeningsAppend
    <3>3. Opening(reader, arg) = <<Started(arg)>>
      BY <2>5 DEF Opening
    <3>4. log' = Append(log, Started(arg))
      BY <1>2, <2>1, <3>3, SignalTypes
    <3> QED BY <1>2, <2>4, <3>2, <3>4, StartStep
  <2>6. CASE ~Bracketed(reader)
    <3>1. Excess(ItemsOf(f), f.i - 1) = 0
      BY <2>2, ExcessAtStart
    <3>2. StartedBy(f) = <<>>
      <4>1. Copies(0, arg) = <<>>
        BY <1>2, CopiesNext
      <4> QED BY <2>2, <2>6, <3>1, <4>1 DEF StartedBy, Copies
    <3>3. OpenedBy(stack') = OpenedBy(stack)
      BY <1>2, <2>4, <3>2, OpeningsAppend
    <3>4. log' = log \o <<>>
      BY <2>1, <2>6 DEF Opening
    <3> QED BY <1>2, <3>3, <3>4, QuietStep, QuietConcat
  <2> QED BY <2>5, <2>6
<1> QED BY <1>1, <1>6, <1>7, <1>8, <1>10, <1>11, <1>12

\* What the innermost handler emits as it goes on is quiet, unless the item is
\* the title or the end of an ASX document.
LEMMA QuietAdvance ==
  ASSUME IInv', LogTypes, SignalsFit, stack \in Seq(Frames), stack # <<>>,
         NEW f \in Frames, Replace(f), f.doc = Top.doc, f.reader = Top.reader,
         \/ Top.reader # "asx"
         \/ f.i = Top.i
         \/ f.i = Top.i + 1 /\ It.op \notin {"title", "end"},
         NEW t, Quiet(t), log' = log \o t
  PROVE  SignalsFit'
<1>1. stack' \in Seq(Frames) /\ log \in Seq(Events)
  BY DEF IInv, ControlTypes, LogTypes
<1>2. /\ Top \in Frames
      /\ OpenedBy(stack) = OpenedBy(Below) \o StartedBy(Top)
      /\ OpenedBy(stack') = OpenedBy(Below) \o StartedBy(f)
  BY <1>1, ReplacedOpens
<1>3. StartedBy(f) = StartedBy(Top)
  <2>1. \/ Top.reader # "asx"
        \/ f.i = Top.i
        \/ f.i = Top.i + 1 /\ World[Top.doc].items[Top.i].op \notin {"title", "end"}
    BY DEF It, ItemsOf
  <2> QED BY <1>2, <2>1, StartedSame
<1> QED BY <1>1, <1>2, <1>3, QuietStep

\* What an ASX handler has started before its item, in a tidy world.
LEMMA AsxExcess ==
  ASSUME TidyWorld, NEW f \in Frames, ~AtEnd(f)
  PROVE  /\ Excess(ItemsOf(f), f.i - 1) \in Nat /\ Excess(ItemsOf(f), f.i) \in Nat
         /\ ItemsOf(f)[f.i].op = "title" => Excess(ItemsOf(f), f.i) = Excess(ItemsOf(f), f.i - 1) + 1
         /\ ItemsOf(f)[f.i].op = "end" => Excess(ItemsOf(f), f.i - 1) = Excess(ItemsOf(f), f.i) + 1
<1> DEFINE items == ItemsOf(f)
           n == Len(items)
           i == f.i
<1>1. items \in Seq(Items) /\ n \in Nat /\ i \in 1..n /\ Balanced(items)
  <2>1. f.doc \in Docs /\ f.i \in DOMAIN World[f.doc].items /\ World[f.doc].items \in Seq(Items)
    BY ItemAt
  <2>2. Balanced(World[f.doc].items)
    BY <2>1 DEF TidyWorld
  <2> QED BY <2>1, <2>2 DEF ItemsOf
<1> HIDE DEF items, n, i
<1>2. Excess(items, i - 1) >= 0 /\ Excess(items, i) >= 0
  <2>1. i - 1 \in 0..n /\ i \in 0..n
    BY <1>1
  <2> QED BY <1>1, <2>1 DEF Balanced, n
<1>3. Excess(items, i - 1) \in Int
  <2>1. \A op : MarksUpTo(items, op, i - 1) \subseteq 1..(i - 1)
    BY DEF MarksUpTo
  <2>2. IsFiniteSet(1..(i - 1))
    BY <1>1, FS_Interval
  <2>3. \A op : IsFiniteSet(MarksUpTo(items, op, i - 1))
    BY <2>1, <2>2, FS_Subset
  <2>4. \A op : Cardinality(MarksUpTo(items, op, i - 1)) \in Nat
    BY <2>3, FS_CardinalityType
  <2> QED BY <2>4 DEF Excess
<1>4. Excess(items, i) = Excess(items, i - 1)
                              + (IF items[i].op = "title" THEN 1 ELSE 0)
                              - (IF items[i].op = "end" THEN 1 ELSE 0)
  <2>1. i \in Nat \ {0}
    BY <1>1
  <2> QED BY <2>1, ExcessNext
<1> DEFINE before == Excess(items, i - 1)
           after == Excess(items, i)
<1> HIDE DEF before, after
<1>5. /\ before \in Int /\ before >= 0 /\ after >= 0
      /\ after = before + (IF items[i].op = "title" THEN 1 ELSE 0)
                        - (IF items[i].op = "end" THEN 1 ELSE 0)
  BY <1>2, <1>3, <1>4 DEF before, after
<1>6. /\ before \in Nat /\ after \in Nat
      /\ items[i].op = "title" => after = before + 1
      /\ items[i].op = "end" => before = after + 1
  BY <1>5
<1> QED BY <1>6 DEF before, after, items, i

\* The innermost ASX handler goes on past a title: it has started one more;
\* past an end: one less.
LEMMA AsxMarks ==
  ASSUME TidyWorld, IInv', LogTypes, SignalsFit, stack \in Seq(Frames), stack # <<>>, ~AtEnd(Top),
         Top.reader = "asx",
         NEW f \in Frames, Replace(f), f.doc = Top.doc, f.reader = "asx", f.i = Top.i + 1,
         \/ It.op = "title" /\ log' = Append(log, Started(Top.doc))
         \/ It.op = "end" /\ log' = Append(log, Ended(Top.doc))
  PROVE  SignalsFit'
<1> DEFINE u == Top.doc
           before == Excess(ItemsOf(Top), Top.i - 1)
           after == Excess(ItemsOf(Top), Top.i)
           base == OpenedBy(Below)
<1>1. stack' \in Seq(Frames) /\ log \in Seq(Events)
  BY DEF IInv, ControlTypes, LogTypes
<1>2. /\ Top \in Frames /\ base \in Openings
      /\ OpenedBy(stack) = base \o StartedBy(Top)
      /\ OpenedBy(stack') = base \o StartedBy(f)
  BY <1>1, ReplacedOpens
<1>3. u \in Docs /\ Top.i \in Nat
  BY <1>2 DEF Frames
<1>4. /\ before \in Nat /\ after \in Nat
      /\ It.op = "title" => after = before + 1
      /\ It.op = "end" => before = after + 1
  BY <1>2, AsxExcess DEF It
<1>5. StartedBy(Top) = Copies(before, u) /\ StartedBy(f) = Copies(after, u)
  <2>1. f.i - 1 = Top.i
    BY <1>3
  <2> QED BY <2>1 DEF StartedBy, Bracketed, Copies, ItemsOf
<1> HIDE DEF u, before, after, base
<1>6. /\ Copies(before, u) \in Openings /\ Copies(after, u) \in Openings
      /\ Copies(before + 1, u) = Append(Copies(before, u), u)
      /\ Copies(after + 1, u) = Append(Copies(after, u), u)
  BY <1>3, <1>4, CopiesNext
<1>7. OpenedBy(stack) \in Openings /\ OpenedBy(stack') \in Openings
  BY <1>2, <1>5, <1>6, OpeningsConcat
<1>8. CASE It.op = "title" /\ log' = Append(log, Started(u))
  <2>1. OpenedBy(stack') = base \o Append(Copies(before, u), u)
    BY <1>2, <1>4, <1>5, <1>6, <1>8
  <2>2. base \o Append(Copies(before, u), u) = Append(base \o Copies(before, u), u)
    BY <1>2, <1>3, <1>6, OpeningsAppend
  <2>3. OpenedBy(stack') = Append(OpenedBy(stack), u)
    BY <1>2, <1>5, <2>1, <2>2
  <2> QED BY <1>1, <1>3, <1>7, <1>8, <2>3, StartStep
<1>9. CASE It.op = "end" /\ log' = Append(log, Ended(u))
  <2>1. OpenedBy(stack) = base \o Append(Copies(after, u), u)
    BY <1>2, <1>4, <1>5, <1>6, <1>9
  <2>2. base \o Append(Copies(after, u), u) = Append(base \o Copies(after, u), u)
    BY <1>2, <1>3, <1>6, OpeningsAppend
  <2>3. OpenedBy(stack) = Append(OpenedBy(stack'), u)
    BY <1>2, <1>5, <2>1, <2>2
  <2>4. Append(log, Ended(u)) \in Seq(Events)
    BY <1>1, <1>3, SignalTypes
  <2>5. log' = Append(log, Ended(u)) \o <<>>
    BY <1>9, <2>4, ConcatEmptySeq
  <2> QED BY <1>1, <1>3, <1>7, <2>3, <2>5, EndStep, QuietConcat
<1> QED BY <1>8, <1>9 DEF u

\* A handler past its last item has started only its own playlist.
LEMMA StartedAtEnd ==
  ASSUME TidyWorld, NEW f \in NotedFrames, AtEnd(f)
  PROVE  StartedBy(f) = IF Bracketed(f.reader) THEN <<f.doc>> ELSE <<>>
<1> DEFINE n == Len(World[f.doc].items)
<1>1. f.doc \in Docs /\ f.i \in Nat /\ World[f.doc].items \in Seq(Items) /\ f.i <= n + 1
  BY WorldAssumption DEF NotedFrames, Frames, Documents
<1>2. f.i - 1 = n
  BY <1>1 DEF AtEnd, ItemsOf
<1>3. Excess(World[f.doc].items, n) = 0
  BY <1>1 DEF TidyWorld, Balanced
<1>4. Excess(ItemsOf(f), f.i - 1) = 0
  BY <1>2, <1>3 DEF ItemsOf
<1>5. Copies(0, f.doc) = <<>>
  BY <1>1, CopiesNext
<1> QED BY <1>4, <1>5 DEF StartedBy, Copies

\* The innermost handler returns.
LEMMA LeaveKeepsFit ==
  ASSUME TidyWorld, IInv, IInv', NotesAreFirst, LogTypes, SignalsFit, Leave
  PROVE  SignalsFit'
<1> DEFINE u == Top.doc
           r == ReaderResult(Top.reader, ItemsOf(Top))
           tail == TailEntry(u, r, Top.type)
           base == OpenedBy(Below)
           starts == StartedBy(Top)
<1>1. /\ stack # <<>> /\ Top \in NotedFrames /\ Top \in Frames /\ stack \in Seq(Frames)
      /\ stack' \in Seq(Frames) /\ log \in Seq(Events) /\ u \in Docs /\ AtEnd(Top)
  <2>1. stack # <<>>
    BY DEF Leave, IInv, HandlersWait
  <2>2. Top \in NotedFrames /\ Top \in Frames
    BY <2>1, TopIsNoted
  <2> QED BY <2>1, <2>2 DEF Leave, IInv, ControlTypes, LogTypes, Frames
<1>2. stack' = Below /\ ThroughTail(u, r, Top.type, Closing(Top.reader, u))
  BY DEF Leave
<1>3. base \in Openings /\ OpenedBy(stack) = base \o starts
  <2>1. Below \in Seq(Frames) /\ stack = Append(Below, Top)
    BY <1>1, StackIsBelowTop
  <2> QED BY <1>1, <2>1, OpenedByAppend
<1>4. starts = IF Bracketed(Top.reader) THEN <<u>> ELSE <<>>
  BY <1>1, StartedAtEnd
<1>5. Closing(Top.reader, u) = IF Bracketed(Top.reader) THEN <<Ended(u)>> ELSE <<>>
  BY DEF Closing
<1>6. Closing(Top.reader, u) \in Seq(Events) /\ Ended(u) \in Events
  BY <1>1, <1>5, SignalTypes
<1>7. Quiet(tail)
  BY <1>1, QuietEntry
<1>8. log' = (log \o Closing(Top.reader, u)) \o tail
  BY <1>1, <1>2, <1>6, TailIsTyped
<1>9. OpenedBy(stack') = base
  BY <1>2
<1> HIDE DEF u, r, tail, base, starts
<1>10. CASE Bracketed(Top.reader)
  <2>1. log \o <<Ended(u)>> = Append(log, Ended(u))
    BY <1>1, <1>6
  <2>2. log' = Append(log, Ended(u)) \o tail
    BY <1>5, <1>8, <1>10, <2>1
  <2>3. OpenedBy(stack) = Append(OpenedBy(stack'), u)
    BY <1>1, <1>3, <1>4, <1>9, <1>10, OpeningsAppend
  <2> QED BY <1>1, <1>3, <1>7, <1>9, <2>2, <2>3, EndStep
<1>11. CASE ~Bracketed(Top.reader)
  <2>1. log \o <<>> = log
    BY <1>1, ConcatEmptySeq
  <2>2. log' = log \o tail
    BY <1>5, <1>8, <1>11, <2>1
  <2>3. OpenedBy(stack') = OpenedBy(stack)
    BY <1>1, <1>3, <1>4, <1>9, <1>11, ConcatEmptySeq DEF Openings
  <2> QED BY <1>1, <1>7, <2>2, <2>3, QuietStep
<1> QED BY <1>10, <1>11

\* What the handlers do as they go on keeps the signals nested.
LEMMA LoopKeepsFit ==
  ASSUME TidyWorld, IInv, IInv', NotesAreFirst, LogTypes, SignalsFit, Loop
  PROVE  SignalsFit'
<1> USE DEF At, Running
<1>1. /\ stack \in Seq(Frames) /\ log \in Seq(Events) /\ fallback \in BOOLEAN
      /\ pc \in {"run", "back"} => stack # <<>> /\ Top \in Frames /\ Top.doc \in Docs
  <2>1. pc \in {"run", "back"} => stack # <<>> /\ Top \in Frames
    BY TopIsNoted DEF IInv, HandlersWait
  <2> QED BY <2>1 DEF IInv, ControlTypes, LogTypes, Frames
<1>2. pc = "run" /\ ~AtEnd(Top) =>
        /\ It.title \in Titles /\ Top.note.title \in Titles
        /\ It.op \in {"link", "device", "add"} => It.to \in Docs
  <2> SUFFICES ASSUME pc = "run", ~AtEnd(Top)
               PROVE  /\ It.title \in Titles /\ Top.note.title \in Titles
                      /\ It.op \in {"link", "device", "add"} => It.to \in Docs
    OBVIOUS
  <2>1. /\ ItemsOf(Top)[Top.i] \in Items
        /\ ItemsOf(Top)[Top.i].op \in {"link", "device", "add"} => ItemsOf(Top)[Top.i].to \in Docs
    BY <1>1, ItemNames
  <2>2. It \in Items /\ (It.op \in {"link", "device", "add"} => It.to \in Docs)
    BY <2>1 DEF It
  <2> QED BY <1>1, <2>2 DEF Items, Frames, Notes
<1>3. Top \in Frames => /\ Advanced(Top) \in Frames /\ Advanced(Top).doc = Top.doc
                        /\ Advanced(Top).reader = Top.reader /\ Advanced(Top).i = Top.i + 1
  <2>1. Top \in Frames => Advanced(Top) \in Frames
    BY AdvancedType, NoNoteType
  <2> QED BY <2>1 DEF Advanced, Frames
<1>4. log = log \o <<>> /\ Quiet(<<>>)
  BY <1>1, ConcatEmptySeq, QuietConcat
\* The handler emits one entry.
<1>5. ASSUME pc = "run", Top.reader # "asx", NEW d \in Docs, NEW title \in Titles,
             Emit(Entry(d, title))
      PROVE  SignalsFit'
  <2> DEFINE e == Entry(d, title)
             f == Advanced(Top)
  <2>1. Quiet(<<e>>) /\ e \in Events
    BY <1>5, QuietEntry, SignalTypes
  <2>2. Replace(f) /\ log' = Append(log, e)
    BY <1>5 DEF Emit
  <2>3. f \in Frames /\ f.doc = Top.doc /\ f.reader = Top.reader
    BY <1>1, <1>3, <1>5
  <2> HIDE DEF e, f
  <2>4. log' = log \o <<e>>
    BY <1>1, <2>1, <2>2
  <2> QED BY <1>1, <1>5, <2>1, <2>2, <2>3, <2>4, QuietAdvance
\* The handler calls parse_internal.
<1>6. ASSUME pc = "run", NEW f \in {Top, [Top EXCEPT !.saved = fallback]}, Call(f)
      PROVE  SignalsFit'
  <2> DEFINE g == [f EXCEPT !.waits = TRUE]
  <2>1. g \in Frames /\ g.doc = Top.doc /\ g.reader = Top.reader /\ g.i = Top.i
    BY <1>1, <1>6 DEF Frames
  <2>2. Replace(g) /\ log' = log
    BY <1>6 DEF Call
  <2> HIDE DEF g
  <2> QED BY <1>1, <1>4, <1>6, <2>1, <2>2, QuietAdvance
<1>7. CASE M3uNote
  <2> DEFINE note == IF It.op = "note" /\ ~Top.note.set
                       THEN [set |-> TRUE, live |-> It.live, title |-> It.title]
                       ELSE Top.note
             f == [Top EXCEPT !.i = @ + 1,
                     !.note = IF It.op = "note" /\ ~@.set
                                THEN [set |-> TRUE, live |-> It.live, title |-> It.title]
                                ELSE @]
  <2>1. pc = "run" /\ ~AtEnd(Top) /\ Top.reader = "m3u" /\ Replace(f) /\ log' = log
    BY <1>7 DEF M3uNote
  <2>2. It \in Items
    BY <1>1, <2>1, ItemType DEF It
  <2>3. note \in Notes
    BY <1>1, <2>1, <2>2 DEF Items, Notes, Frames
  <2>4. f = [Top EXCEPT !.i = @ + 1, !.note = note]
    OBVIOUS
  <2> HIDE DEF note, f
  <2>5. f \in Frames /\ f.doc = Top.doc /\ f.reader = Top.reader
    BY <1>1, <2>1, <2>3, <2>4, NoteTakenType DEF Frames
  <2> QED BY <1>1, <1>4, <2>1, <2>5, QuietAdvance
<1>8. CASE M3uAdd
  BY <1>2, <1>5, <1>8 DEF M3uAdd
<1>9. CASE PlsAdd
  BY <1>2, <1>5, <1>9 DEF PlsAdd
<1>10. CASE DesktopAdd
  BY <1>2, <1>5, <1>10 DEF DesktopAdd
<1>11. CASE M3uFollow \/ Follow \/ DesktopFollow \/ PlsFollow
  BY <1>6, <1>11 DEF M3uFollow, Follow, DesktopFollow, PlsFollow
<1>12. CASE Skip
  <2>1. pc = "run" /\ It.op \notin {"title", "end"} /\ Replace(Advanced(Top)) /\ log' = log
    BY <1>12 DEF Skip, Pass
  <2> DEFINE f == Advanced(Top)
  <2>2. f \in Frames /\ f.doc = Top.doc /\ f.reader = Top.reader /\ f.i = Top.i + 1 /\ Replace(f)
    BY <1>1, <1>3, <2>1
  <2> HIDE DEF f
  <2> QED BY <1>1, <1>4, <2>1, <2>2, QuietAdvance
<1>13. CASE RamStop
  <2> DEFINE f == [Top EXCEPT !.i = Len(ItemsOf(Top)) + 1]
  <2>1. pc = "run" /\ ~AtEnd(Top) /\ Top.reader = "ram" /\ Replace(f) /\ log' = log
    BY <1>13 DEF RamStop
  <2>2. Len(ItemsOf(Top)) \in Nat
    BY <1>1, <2>1, ItemAt DEF ItemsOf
  <2>3. f \in Frames /\ f.doc = Top.doc /\ f.reader = Top.reader
    BY <1>1, <2>1, <2>2 DEF Frames
  <2> HIDE DEF f
  <2> QED BY <1>1, <1>4, <2>1, <2>3, QuietAdvance
<1>14. CASE AsxTitle \/ AsxEnd
  <2> DEFINE f == Advanced(Top)
  <2>1. /\ pc = "run" /\ ~AtEnd(Top) /\ Top.reader = "asx" /\ Replace(f)
        /\ \/ It.op = "title" /\ log' = Append(log, Started(Top.doc))
           \/ It.op = "end" /\ log' = Append(log, Ended(Top.doc))
    BY <1>14 DEF AsxTitle, AsxEnd, Emit
  <2>2. f \in Frames /\ f.doc = Top.doc /\ f.reader = "asx" /\ f.i = Top.i + 1
    BY <1>1, <1>3, <2>1
  <2> HIDE DEF f
  <2> QED BY <1>1, <2>1, <2>2, AsxMarks
<1>15. CASE ChildReturned
  <2> DEFINE f == [Advanced(Top) EXCEPT !.waits = FALSE, !.saved = FALSE]
             e == Entry(It.to, TitleOf(Top))
  <2>1. /\ stack # <<>> /\ Top \in Frames /\ It \in Items /\ It.op \in {"link", "device"}
        /\ It.to \in Docs
    BY <1>15, WaitingItem DEF ChildReturned
  <2>2. f \in Frames /\ f.doc = Top.doc /\ f.reader = Top.reader /\ f.i = Top.i + 1
    BY <1>3, <2>1 DEF Frames
  <2>3. Replace(f)
    BY <1>15 DEF ChildReturned
  <2>4. TitleOf(Top) \in Titles
    BY <2>1 DEF TitleOf, Frames, Notes, Items
  <2>5. Quiet(<<e>>) /\ e \in Events
    BY <2>1, <2>4, QuietEntry, SignalTypes
  <2>6. log' = Append(log, e) \/ log' = log
    BY <1>15 DEF ChildReturned
  <2> HIDE DEF e, f
  <2>7. \E t : Quiet(t) /\ log' = log \o t
    <3>1. Append(log, e) = log \o <<e>>
      BY <1>1, <2>5
    <3> QED BY <1>4, <2>5, <2>6, <3>1
  <2> QED BY <1>1, <2>1, <2>2, <2>3, <2>7, QuietAdvance
<1>16. CASE Leave
  BY <1>16, LeaveKeepsFit
<1> QED BY <1>7, <1>8, <1>9, <1>10, <1>11, <1>12, <1>13, <1>14, <1>15, <1>16 DEF Loop

\* Every step does.
LEMMA NextKeepsFit ==
  ASSUME TidyWorld
  PROVE  IInv /\ IInv' /\ NotesAreFirst /\ LogTypes /\ SignalsFit /\ [Next]_vars => SignalsFit'
<1> SUFFICES ASSUME IInv, IInv', NotesAreFirst, LogTypes, SignalsFit, [Next]_vars PROVE SignalsFit'
  OBVIOUS
<1>1. CASE Dispatch
  BY <1>1, DispatchKeepsFit
<1>2. CASE Loop
  BY <1>2, LoopKeepsFit
<1>3. CASE Parse \/ Application \/ UNCHANGED vars
  <2>1. UNCHANGED <<log, stack>>
    BY <1>3 DEF Parse, Application, SetProperty, AddIgnored, vars
  <2> QED BY <2>1 DEF SignalsFit
<1> QED BY <1>1, <1>2, <1>3 DEF Next, Step, Over

\* In a tidy world, however playlists of whatever formats are nested, every
\* playlist-started has its playlist-ended, they are properly nested, and at
\* any moment the playlists open are those of the handlers that are running.
THEOREM SignalsNest ==
  ASSUME TidyWorld
  PROVE  Spec => []SignalsAreNested
<1>1. Init => SignalsFit
  <2>1. <<>> \in Seq(Events) /\ <<>> \in Seq(Frames)
    OBVIOUS
  <2>2. <<<<>>, <<>>>> \in NestedStates
    BY <2>1, StillOpenEmpty, OpenedByNone, FitMeans
  <2> QED BY <2>2 DEF Init, SignalsFit
<1>2. IInv /\ LogTypes /\ SignalsFit => SignalsAreNested
  BY FitMeans DEF IInv, ControlTypes, LogTypes, SignalsFit, SignalsAreNested
<1>3. IInv /\ IInv' /\ NotesAreFirst /\ LogTypes /\ SignalsFit /\ [Next]_vars => SignalsFit'
  BY NextKeepsFit
<1> QED BY InitKeepsIInv, NextKeepsIInv, NextKeepsNotes, InitLogTypes, NextKeepsLogTypes,
           <1>1, <1>2, <1>3, PTL DEF Spec
---------------------------------------------------------------------------
\* The entries in a list of signals

\* h goes through the entries reported by the first signals.
ReportRun(h, s) ==
  /\ h \in [0..Len(s) -> Seq(Docs)]
  /\ h[0] = <<>>
  /\ \A i \in 1..Len(s) : h[i] = WithReport(h[i - 1], s[i])

\* Reports is where it ends.
LEMMA ReportsRun ==
  ASSUME NEW s \in Seq(Events)
  PROVE  (\E h : ReportRun(h, s)) /\ \A h : ReportRun(h, s) => Reports(s) = h[Len(s)]
<1> DEFINE n == Len(s)
           V == Seq(Docs)
           step == [p \in (1..n) \X V |-> WithReport(p[2], s[p[1]])]
<1>1. n \in Nat /\ <<>> \in V
  OBVIOUS
<1>2. \A i \in 1..n : \A o \in V : WithReport(o, s[i]) \in V
  <2>1. \A e \in Events : e.uri \in Docs
    BY DEF Events
  <2>2. \A i \in 1..n : s[i] \in Events
    OBVIOUS
  <2> HIDE DEF n
  <2>3. \A i \in 1..n : \A o \in V : Append(o, s[i].uri) \in V
    BY <2>1, <2>2
  <2> QED BY <2>3 DEF WithReport
<1> HIDE DEF V
<1>3. step \in [(1..n) \X V -> V] /\ \A i \in 1..n : \A o \in V : step[<<i, o>>] = WithReport(o, s[i])
  BY <1>2
<1> HIDE DEF n, step
<1>4. PICK f \in Runs(n, V, <<>>, step) : TRUE
  BY <1>1, <1>3, RunExists
<1>5. /\ f \in [0..n -> V] /\ f[0] = <<>>
      /\ \A i \in 1..n : f[i] = step[<<i, f[i - 1]>>]
  BY <1>4 DEF Runs
<1>6. ASSUME NEW i \in 1..n PROVE f[i] = WithReport(f[i - 1], s[i])
  <2>1. i - 1 \in 0..n /\ f[i - 1] \in V
    BY <1>1, <1>5
  <2> QED BY <1>3, <1>5, <2>1
<1>7. f = [i \in 0..n |-> IF i = 0 THEN <<>> ELSE WithReport(f[i - 1], s[i])]
  <2> DEFINE g == [i \in 0..n |-> IF i = 0 THEN <<>> ELSE WithReport(f[i - 1], s[i])]
  <2>1. ASSUME NEW i \in 0..n PROVE f[i] = g[i]
    <3>1. CASE i = 0
      BY <1>5, <3>1
    <3>2. CASE i # 0
      BY <1>1, <1>6, <3>2
    <3> QED BY <3>1, <3>2
  <2> QED BY <1>5, <2>1
<1> DEFINE uris == CHOOSE g : g = [i \in 0..n |-> IF i = 0 THEN <<>> ELSE WithReport(g[i - 1], s[i])]
<1>8. uris = [i \in 0..n |-> IF i = 0 THEN <<>> ELSE WithReport(uris[i - 1], s[i])]
  BY <1>7
<1>9. Reports(s) = uris[n]
  BY DEF Reports, n
<1> HIDE DEF uris
<1>10. uris[0] = <<>> /\ \A i \in 1..n : uris[i] = WithReport(uris[i - 1], s[i])
  <2> DEFINE g == [i \in 0..n |-> IF i = 0 THEN <<>> ELSE WithReport(uris[i - 1], s[i])]
  <2>1. g[0] = <<>>
    BY <1>1
  <2>2. \A i \in 1..n : g[i] = WithReport(uris[i - 1], s[i])
    BY <1>1
  <2>3. uris = g
    BY <1>8
  <2> HIDE DEF g
  <2> QED BY <2>1, <2>2, <2>3
<1>11. ASSUME NEW h, ReportRun(h, s) PROVE Reports(s) = h[n]
  <2>1. h[0] = <<>> /\ (\A i \in 1..n : h[i] = WithReport(h[i - 1], s[i]))
    BY <1>11 DEF ReportRun, n
  <2>2. uris[0] = h[0] /\ (\A i \in 1..n : uris[i] = WithReport(uris[i - 1], s[i]))
    BY <1>10, <2>1
  <2> DEFINE S == {i \in 0..n : uris[i] = h[i]}
  <2>3. 0 \in S
    BY <1>1, <2>2
  <2>4. \A i \in 1..n : i - 1 \in S => i \in S
    BY <1>1, <2>1, <2>2
  <2> HIDE DEF S
  <2>5. \A i \in 0..n : i \in S
    BY ONLY <1>1, <2>3, <2>4, UpTo
  <2>6. n \in S
    BY <1>1, <2>5
  <2> QED BY <1>9, <2>6 DEF S
<1>12. ReportRun(f, s)
  BY <1>5, <1>6 DEF ReportRun, n, V
<1> QED BY <1>11, <1>12 DEF n

\* What one more signal reports.
LEMMA ReportsAppend ==
  /\ Reports(<<>>) = <<>>
  /\ \A s \in Seq(Events) : \A e \in Events :
       Reports(s) \in Seq(Docs) /\ Reports(Append(s, e)) = WithReport(Reports(s), e)
<1>1. Reports(<<>>) = <<>>
  <2>1. <<>> \in Seq(Events) /\ Len(<<>>) = 0
    OBVIOUS
  <2>2. PICK h : ReportRun(h, <<>>)
    BY <2>1, ReportsRun
  <2> QED BY <2>1, <2>2, ReportsRun DEF ReportRun
<1>2. ASSUME NEW s \in Seq(Events), NEW e \in Events
      PROVE  Reports(s) \in Seq(Docs) /\ Reports(Append(s, e)) = WithReport(Reports(s), e)
  <2> DEFINE t == Append(s, e)
             n == Len(s)
  <2>1. /\ t \in Seq(Events) /\ n \in Nat /\ Len(t) = n + 1 /\ t[n + 1] = e
        /\ \A i \in 1..n : t[i] = s[i]
    OBVIOUS
  <2> HIDE DEF t, n
  <2>2. PICK h : ReportRun(h, t)
    BY <2>1, ReportsRun
  <2>3. /\ h \in [0..(n + 1) -> Seq(Docs)] /\ h[0] = <<>>
        /\ \A i \in 1..(n + 1) : h[i] = WithReport(h[i - 1], t[i])
    BY <2>1, <2>2 DEF ReportRun
  <2> DEFINE g == [i \in 0..n |-> h[i]]
  <2>4. g \in [0..n -> Seq(Docs)] /\ g[0] = <<>> /\ g[n] = h[n]
    BY <2>1, <2>3
  <2>5. \A i \in 1..n : g[i] = WithReport(g[i - 1], s[i])
    <3> SUFFICES ASSUME NEW i \in 1..n PROVE g[i] = WithReport(g[i - 1], s[i])
      OBVIOUS
    <3>1. g[i] = h[i] /\ g[i - 1] = h[i - 1] /\ i \in 1..(n + 1) /\ t[i] = s[i]
      BY <2>1
    <3> HIDE DEF g
    <3> QED BY <2>3, <3>1
  <2> HIDE DEF g
  <2>6. ReportRun(g, s)
    BY <2>4, <2>5 DEF ReportRun, n
  <2>7. Reports(s) = h[n]
    BY <2>4, <2>6, ReportsRun DEF n
  <2>8. Reports(t) = h[n + 1]
    BY <2>1, <2>2, ReportsRun
  <2>9. n \in 0..(n + 1) /\ h[n + 1] = WithReport(h[n], e)
    <3>1. n + 1 \in 1..(n + 1) /\ (n + 1) - 1 = n /\ n \in 0..(n + 1)
      BY <2>1
    <3>2. h[n + 1] = WithReport(h[(n + 1) - 1], t[n + 1])
      BY <2>3, <3>1
    <3> QED BY <2>1, <3>1, <3>2
  <2> QED BY <2>3, <2>7, <2>8, <2>9 DEF t
<1> QED BY <1>1, <1>2

\* The entries of one list of signals after another.
LEMMA ReportsConcat ==
  ASSUME NEW s \in Seq(Events), NEW t \in Seq(Events)
  PROVE  Reports(s \o t) = Reports(s) \o Reports(t)
<1> DEFINE first(i) == SubSeq(t, 1, i)
           upto(i) == s \o first(i)
           n == Len(t)
           S == {i \in 0..n : upto(i) \in Seq(Events) /\ Reports(upto(i)) = Reports(s) \o Reports(first(i))}
<1>1. n \in Nat /\ Reports(s) \in Seq(Docs) /\ <<>> \in Seq(Events)
  BY ReportsAppend, EmptySeq, LenProperties
<1>2. 0 \in S
  <2>1. SubSeq(t, 1, 0) = <<>>
    BY SubSeqEmpty
  <2>2. first(0) = <<>> /\ upto(0) = s
    BY <2>1, ConcatEmptySeq
  <2> HIDE DEF first, upto
  <2>3. Reports(s) \o Reports(first(0)) = Reports(s)
    BY <1>1, <2>2, ReportsAppend, ConcatEmptySeq
  <2> QED BY <1>1, <2>2, <2>3
<1>3. ASSUME NEW i \in 1..n, i - 1 \in S PROVE i \in S
  <2>1. first(i - 1) \in Seq(Events) /\ <<t[i]>> \in Seq(Events) /\ t[i] \in Events
    OBVIOUS
  <2>2. first(i) = first(i - 1) \o <<t[i]>>
    BY SubSeqRecursiveSecond
  <2>3. upto(i) = upto(i - 1) \o <<t[i]>>
    BY <2>1, <2>2, ConcatAssociative
  <2>4. upto(i - 1) \in Seq(Events) /\ Reports(upto(i - 1)) = Reports(s) \o Reports(first(i - 1))
    BY <1>3
  <2> DEFINE a == first(i - 1)
             b == upto(i - 1)
             e == t[i]
  <2> HIDE DEF first, upto
  <2>5. first(i) = Append(a, e) /\ upto(i) = Append(b, e) /\ a \in Seq(Events) /\ b \in Seq(Events) /\ e \in Events
    BY <2>1, <2>2, <2>3, <2>4
  <2>6. Reports(b) = Reports(s) \o Reports(a)
    BY <2>4
  <2> HIDE DEF a, b, e
  <2>7. /\ Reports(first(i)) = WithReport(Reports(a), e) /\ Reports(upto(i)) = WithReport(Reports(b), e)
        /\ Reports(a) \in Seq(Docs)
    BY <2>5, ReportsAppend
  <2>8. Append(b, e) \in Seq(Events) /\ e.uri \in Docs
    BY <2>5 DEF Events
  <2> DEFINE x == Reports(s)
             y == Reports(a)
  <2>9. x \in Seq(Docs) /\ y \in Seq(Docs)
    BY <1>1, <2>7
  <2> HIDE DEF x, y
  <2>10. WithReport(x \o y, e) = x \o WithReport(y, e)
    <3> DEFINE u == e.uri
    <3>1. x \o y \in Seq(Docs) /\ u \in Docs /\ <<u>> \in Seq(Docs)
      BY <2>8, <2>9
    <3>2. (x \o y) \o <<u>> = x \o (y \o <<u>>)
      BY <2>9, <3>1, ConcatAssociative
    <3> HIDE DEF u
    <3>3. Append(x \o y, u) = (x \o y) \o <<u>> /\ Append(y, u) = y \o <<u>>
      BY <2>9, <3>1, AppendIsConcat
    <3> QED BY <3>2, <3>3 DEF WithReport, u
  <2>11. Reports(upto(i)) = Reports(s) \o Reports(first(i))
    BY <2>6, <2>7, <2>10 DEF x, y
  <2>12. upto(i) \in Seq(Events) /\ i \in 0..n
    BY <2>5, <2>8
  <2> QED BY <2>11, <2>12
<1>4. upto(n) = s \o t /\ first(n) = t
  BY SubSeqFull
<1> HIDE DEF S, upto, first, n
<1>5. \A i \in 0..n : i \in S
  BY ONLY <1>1, <1>2, <1>3, UpTo
<1>6. n \in S
  BY <1>1, <1>5
<1> QED BY <1>4, <1>6 DEF S

\* What the signals of a handler report.
LEMMA ReportsOf ==
  /\ \A u \in Docs : \A t \in Titles : Reports(<<Entry(u, t)>>) = <<u>>
  /\ \A u \in Docs : Reports(<<Started(u)>>) = <<>> /\ Reports(<<Ended(u)>>) = <<>>
  /\ \A u \in Docs : \A reader : Reports(Opening(reader, u)) = <<>> /\ Reports(Closing(reader, u)) = <<>>
<1>1. \A e \in Events : Reports(<<e>>) = WithReport(<<>>, e)
  <2> SUFFICES ASSUME NEW e \in Events PROVE Reports(<<e>>) = WithReport(<<>>, e)
    OBVIOUS
  <2>1. <<>> \in Seq(Events) /\ Append(<<>>, e) = <<e>>
    OBVIOUS
  <2> QED BY <2>1, ReportsAppend
<1>2. ASSUME NEW u \in Docs, NEW t \in Titles PROVE Reports(<<Entry(u, t)>>) = <<u>>
  <2>1. Entry(u, t) \in Events /\ Entry(u, t).sig = "entry-parsed" /\ Entry(u, t).uri = u
    BY SignalTypes DEF EntryEvents, Entry, Event
  <2>2. Append(<<>>, u) = <<u>>
    OBVIOUS
  <2> QED BY <1>1, <2>1, <2>2 DEF WithReport
<1>3. ASSUME NEW u \in Docs PROVE Reports(<<Started(u)>>) = <<>> /\ Reports(<<Ended(u)>>) = <<>>
  BY <1>1, SignalTypes DEF WithReport
<1> QED BY <1>2, <1>3, ReportsAppend DEF Opening, Closing

---------------------------------------------------------------------------
\* What a playlist names

\* The lists of items whose links lead somewhere, as those of a document do.
Lines ==
  {items \in Seq(Items) : \A i \in 1..Len(items) : items[i].op \in Naming => items[i].to \in Docs}

\* The items of every document are a list of lines.
LEMMA DocumentLines == \A d \in Docs : World[d].items \in Lines
<1> SUFFICES ASSUME NEW d \in Docs PROVE World[d].items \in Lines
  OBVIOUS
<1>1. World[d].items \in Seq(Items)
  BY WorldAssumption DEF Documents
<1>2. \A i \in DOMAIN World[d].items :
        World[d].items[i].op \in {"link", "device", "add"} => World[d].items[i].to \in Docs
  BY WorldAssumption
<1> QED BY <1>1, <1>2 DEF Lines, Naming

\* One more item in front.
LEMMA NamedThenType ==
  ASSUME NEW items \in Lines, NEW i \in 1..Len(items), NEW rest \in Seq(Docs)
  PROVE  NamedThen(items[i], rest) \in Seq(Docs)
<1>1. <<>> \in Seq(Docs)
  OBVIOUS
<1>2. ASSUME items[i].op \in Naming PROVE <<items[i].to>> \o rest \in Seq(Docs)
  <2>1. items[i].to \in Docs
    BY <1>2 DEF Lines
  <2>2. <<items[i].to>> \in Seq(Docs)
    BY <2>1
  <2> QED BY <2>2, ConcatProperties
<1> QED BY <1>1, <1>2 DEF NamedThen

\* h goes through what the last items name.
NamedRun(h, items) ==
  /\ h \in [0..Len(items) -> Seq(Docs)]
  /\ h[0] = <<>>
  /\ \A j \in 1..Len(items) : h[j] = NamedThen(items[Len(items) + 1 - j], h[j - 1])

\* NamedFrom is one of its values.
LEMMA NamedFromRun ==
  ASSUME NEW s \in Lines
  PROVE  \E h : NamedRun(h, s) /\ \A i : NamedFrom(s, i) = h[Len(s) + 1 - i]
<1> DEFINE n == Len(s)
           V == Seq(Docs)
           With(o, j) == NamedThen(s[n + 1 - j], o)
           step == [p \in (1..n) \X V |-> With(p[2], p[1])]
<1>1. n \in Nat /\ <<>> \in V
  BY DEF Lines
<1>2. \A j \in 1..n : \A o \in V : With(o, j) \in V
  <2> SUFFICES ASSUME NEW j \in 1..n, NEW o \in V PROVE With(o, j) \in V
    OBVIOUS
  <2>1. n + 1 - j \in 1..Len(s)
    BY <1>1
  <2> QED BY <2>1, NamedThenType
<1> HIDE DEF V, With
<1>3. step \in [(1..n) \X V -> V] /\ \A i \in 1..n : \A o \in V : step[<<i, o>>] = With(o, i)
  BY <1>2
<1> HIDE DEF n, step
<1>4. PICK f \in Runs(n, V, <<>>, step) : TRUE
  BY <1>1, <1>3, RunExists
<1>5. /\ f \in [0..n -> V] /\ f[0] = <<>>
      /\ \A i \in 1..n : f[i] = step[<<i, f[i - 1]>>]
  BY <1>4 DEF Runs
<1>6. ASSUME NEW i \in 1..n PROVE f[i] = With(f[i - 1], i)
  <2>1. i - 1 \in 0..n /\ f[i - 1] \in V
    BY <1>1, <1>5
  <2> QED BY <1>3, <1>5, <2>1
<1>7. f = [i \in 0..n |-> IF i = 0 THEN <<>> ELSE With(f[i - 1], i)]
  <2> DEFINE g == [i \in 0..n |-> IF i = 0 THEN <<>> ELSE With(f[i - 1], i)]
  <2>1. ASSUME NEW i \in 0..n PROVE f[i] = g[i]
    <3>1. CASE i = 0
      BY <1>5, <3>1
    <3>2. CASE i # 0
      BY <1>1, <1>6, <3>2
    <3> QED BY <3>1, <3>2
  <2> QED BY <1>5, <2>1
<1> DEFINE named == CHOOSE g : g = [i \in 0..n |-> IF i = 0 THEN <<>> ELSE With(g[i - 1], i)]
<1>8. named = [i \in 0..n |-> IF i = 0 THEN <<>> ELSE With(named[i - 1], i)]
  BY <1>7
<1>9. \A i : NamedFrom(s, i) = named[n + 1 - i]
  BY DEF NamedFrom, n, With
<1> HIDE DEF named
<1>10. named[0] = <<>> /\ \A i \in 1..n : named[i] = With(named[i - 1], i)
  <2> DEFINE g == [i \in 0..n |-> IF i = 0 THEN <<>> ELSE With(named[i - 1], i)]
  <2>1. g[0] = <<>>
    BY <1>1
  <2>2. \A i \in 1..n : g[i] = With(named[i - 1], i)
    BY <1>1
  <2>3. named = g
    BY <1>8
  <2> HIDE DEF g
  <2> QED BY <2>1, <2>2, <2>3
<1>11. DOMAIN named = 0..n
  <2> DEFINE g == [i \in 0..n |-> IF i = 0 THEN <<>> ELSE With(named[i - 1], i)]
  <2>1. DOMAIN g = 0..n /\ named = g
    BY <1>8
  <2> QED BY <2>1
<1> DEFINE S == {i \in 0..n : named[i] \in V}
<1>12. 0 \in S
  BY <1>1, <1>10
<1>13. \A i \in 1..n : i - 1 \in S => i \in S
  BY <1>1, <1>2, <1>10
<1> HIDE DEF S
<1>14. \A i \in 0..n : i \in S
  BY ONLY <1>1, <1>12, <1>13, UpTo
<1>15. named = [i \in 0..n |-> named[i]]
  BY <1>8, <1>11
<1>16. named \in [0..n -> V]
  BY <1>14, <1>15 DEF S
<1>17. NamedRun(named, s)
  BY <1>10, <1>16 DEF NamedRun, n, V, With
<1> QED BY <1>9, <1>17 DEF n

\* An item names its target and leaves what follows, unless it is a stop.
LEMMA NamedFromNext ==
  ASSUME NEW items \in Lines
  PROVE  /\ Len(items) \in Nat
         /\ NamedFrom(items, Len(items) + 1) = <<>>
         /\ \A i \in 1..(Len(items) + 1) : NamedFrom(items, i) \in Seq(Docs)
         /\ \A i \in 1..Len(items) : NamedFrom(items, i) = NamedThen(items[i], NamedFrom(items, i + 1))
<1> DEFINE n == Len(items)
<1>1. n \in Nat
  BY DEF Lines
<1>2. PICK h : NamedRun(h, items) /\ \A i : NamedFrom(items, i) = h[n + 1 - i]
  BY NamedFromRun
<1>3. /\ h \in [0..n -> Seq(Docs)] /\ h[0] = <<>>
      /\ \A j \in 1..n : h[j] = NamedThen(items[n + 1 - j], h[j - 1])
  BY <1>2 DEF NamedRun
<1>4. NamedFrom(items, n + 1) = <<>>
  <2>1. n + 1 - (n + 1) = 0
    BY <1>1
  <2> QED BY <1>2, <1>3, <2>1
<1>5. ASSUME NEW i \in 1..(n + 1) PROVE NamedFrom(items, i) \in Seq(Docs)
  <2>1. n + 1 - i \in 0..n
    BY <1>1
  <2> QED BY <1>2, <1>3, <2>1
<1>6. ASSUME NEW i \in 1..n PROVE NamedFrom(items, i) = NamedThen(items[i], NamedFrom(items, i + 1))
  <2>1. n + 1 - i \in 1..n /\ n + 1 - (n + 1 - i) = i /\ (n + 1 - i) - 1 = n + 1 - (i + 1)
    BY <1>1
  <2>2. h[n + 1 - i] = NamedThen(items[n + 1 - (n + 1 - i)], h[(n + 1 - i) - 1])
    BY <1>3, <2>1
  <2> QED BY <1>2, <2>1, <2>2
<1> QED BY <1>1, <1>4, <1>5, <1>6

---------------------------------------------------------------------------
\* What is still to be accounted for

Tasks == [doc : Docs, optional : BOOLEAN]
ListOf(uris, optional) == [k \in DOMAIN uris |-> Task(uris[k], optional)]

\* A list of documents makes a list of tasks.
LEMMA ListOfType ==
  ASSUME NEW uris \in Seq(Docs), NEW o \in BOOLEAN
  PROVE  /\ ListOf(uris, o) \in Seq(Tasks)
         /\ Len(ListOf(uris, o)) = Len(uris)
         /\ \A k \in 1..Len(uris) : ListOf(uris, o)[k] = Task(uris[k], o)
<1>1. \A d \in Docs : Task(d, o) \in Tasks
  BY DEF Task, Tasks
<1>2. DOMAIN uris = 1..Len(uris) /\ Len(uris) \in Nat /\ \A k \in 1..Len(uris) : uris[k] \in Docs
  OBVIOUS
<1>3. ListOf(uris, o) = [k \in 1..Len(uris) |-> Task(uris[k], o)]
  BY <1>2 DEF ListOf
<1>4. \A k \in 1..Len(uris) : Task(uris[k], o) \in Tasks
  BY <1>1, <1>2
<1> HIDE DEF ListOf
<1>5. ListOf(uris, o) \in [1..Len(uris) -> Tasks] /\ \A k \in 1..Len(uris) : ListOf(uris, o)[k] = Task(uris[k], o)
  BY <1>3, <1>4
<1> QED BY <1>2, <1>5

\* No document makes no task, and the first one makes the first.
LEMMA ListOfNext ==
  /\ \A o : ListOf(<<>>, o) = <<>>
  /\ \A uris \in Seq(Docs) : \A d \in Docs : \A o \in BOOLEAN :
       ListOf(<<d>> \o uris, o) = <<Task(d, o)>> \o ListOf(uris, o)
<1>1. ASSUME NEW o PROVE ListOf(<<>>, o) = <<>>
  BY DEF ListOf
<1>2. ASSUME NEW uris \in Seq(Docs), NEW d \in Docs, NEW o \in BOOLEAN
      PROVE  ListOf(<<d>> \o uris, o) = <<Task(d, o)>> \o ListOf(uris, o)
  <2> DEFINE n == Len(uris)
             t == <<d>> \o uris
             tail == ListOf(uris, o)
             x == Task(d, o)
             s == <<x>> \o tail
  <2>1. /\ t \in Seq(Docs) /\ n \in Nat /\ Len(t) = n + 1 /\ t[1] = d
        /\ \A k \in 2..(n + 1) : t[k] = uris[k - 1] /\ k - 1 \in 1..n
    OBVIOUS
  <2>2. tail \in Seq(Tasks) /\ Len(tail) = n /\ \A k \in 1..n : tail[k] = Task(uris[k], o)
    BY ListOfType
  <2>3. x \in Tasks
    BY DEF Tasks, Task
  <2> HIDE DEF x, tail, n
  <2>4. s \in Seq(Tasks) /\ Len(s) = n + 1 /\ s[1] = x /\ \A k \in 2..(n + 1) : s[k] = tail[k - 1]
    BY <2>1, <2>2, <2>3
  <2> HIDE DEF t, s
  <2>5. /\ ListOf(t, o) \in Seq(Tasks) /\ Len(ListOf(t, o)) = n + 1
        /\ \A k \in 1..(n + 1) : ListOf(t, o)[k] = Task(t[k], o)
    BY <2>1, ListOfType
  <2>6. ASSUME NEW k \in 1..(n + 1) PROVE ListOf(t, o)[k] = s[k]
    <3>1. CASE k = 1
      <4>1. ListOf(t, o)[1] = Task(t[1], o)
        BY <2>5, <3>1
      <4> QED BY <2>1, <2>4, <3>1, <4>1 DEF x
    <3>2. CASE k # 1
      <4>1. k \in 2..(n + 1) /\ k - 1 \in 1..n
        BY <2>1, <3>2
      <4>2. ListOf(t, o)[k] = Task(uris[k - 1], o) /\ s[k] = Task(uris[k - 1], o)
        BY <2>1, <2>2, <2>4, <2>5, <4>1
      <4> QED BY <4>2
    <3> QED BY <3>1, <3>2
  <2>7. ListOf(t, o) = s
    BY <2>4, <2>5, <2>6, SeqEqual
  <2> QED BY <2>7 DEF t, s, x, tail
<1> QED BY <1>1, <1>2

\* A handler has documents to name.
LEMMA PendingInType ==
  ASSUME NEW f \in NotedFrames
  PROVE  /\ PendingIn(f) \in Seq(Tasks)
         /\ PendingIn(f) = ListOf(NamedFrom(ItemsOf(f), IF f.waits THEN f.i + 1 ELSE f.i), f.reader = "dir")
         /\ NamedFrom(ItemsOf(f), IF f.waits THEN f.i + 1 ELSE f.i) \in Seq(Docs)
<1> DEFINE uris == NamedFrom(ItemsOf(f), IF f.waits THEN f.i + 1 ELSE f.i)
<1>1. f \in Frames /\ f.doc \in Docs /\ f.i \in Nat \ {0} /\ f.waits \in BOOLEAN
  BY DEF NotedFrames, Frames
<1>2. ItemsOf(f) \in Lines
  BY <1>1, DocumentLines DEF ItemsOf
<1>3. f.i <= Len(ItemsOf(f)) + 1 /\ (f.waits = TRUE => f.i \in 1..Len(ItemsOf(f)))
  <2>1. ItemsOf(f) \in Seq(Items)
    BY <1>2 DEF Lines
  <2> QED BY <1>1, <2>1 DEF NotedFrames, ItemsOf
<1>4. uris \in Seq(Docs)
  <2>1. Len(ItemsOf(f)) \in Nat
    BY <1>2, NamedFromNext
  <2>2. (IF f.waits THEN f.i + 1 ELSE f.i) \in 1..(Len(ItemsOf(f)) + 1)
    BY <1>1, <1>3, <2>1
  <2> QED BY <1>2, <2>2, NamedFromNext
<1>5. PendingIn(f) = ListOf(uris, f.reader = "dir")
  BY DEF PendingIn, ListOf
<1>6. (f.reader = "dir") \in BOOLEAN
  OBVIOUS
<1> HIDE DEF uris
<1>7. PendingIn(f) \in Seq(Tasks)
  BY <1>4, <1>5, <1>6, ListOfType
<1> QED BY <1>4, <1>5, <1>7 DEF uris

\* h goes through what the first handlers have to name, innermost first.
PendingRun(h, frames) ==
  /\ h \in [0..Len(frames) -> Seq(Tasks)]
  /\ h[0] = <<>>
  /\ \A k \in 1..Len(frames) : h[k] = PendingIn(frames[k]) \o h[k - 1]

\* Pending is where it ends.
LEMMA PendingIsRun ==
  ASSUME NEW s \in Seq(NotedFrames)
  PROVE  (\E h : PendingRun(h, s)) /\ \A h : PendingRun(h, s) => Pending(s) = h[Len(s)]
<1> DEFINE n == Len(s)
           V == Seq(Tasks)
           By(o, k) == PendingIn(s[k]) \o o
           step == [p \in (1..n) \X V |-> By(p[2], p[1])]
<1>1. n \in Nat /\ <<>> \in V
  OBVIOUS
<1>2. \A i \in 1..n : \A o \in V : By(o, i) \in V
  <2> SUFFICES ASSUME NEW i \in 1..n, NEW o \in V PROVE By(o, i) \in V
    OBVIOUS
  <2>1. s[i] \in NotedFrames
    OBVIOUS
  <2> QED BY <2>1, PendingInType, ConcatProperties
<1> HIDE DEF V, By
<1>3. step \in [(1..n) \X V -> V] /\ \A i \in 1..n : \A o \in V : step[<<i, o>>] = By(o, i)
  BY <1>2
<1> HIDE DEF n, step
<1>4. PICK f \in Runs(n, V, <<>>, step) : TRUE
  BY <1>1, <1>3, RunExists
<1>5. /\ f \in [0..n -> V] /\ f[0] = <<>>
      /\ \A i \in 1..n : f[i] = step[<<i, f[i - 1]>>]
  BY <1>4 DEF Runs
<1>6. ASSUME NEW i \in 1..n PROVE f[i] = By(f[i - 1], i)
  <2>1. i - 1 \in 0..n /\ f[i - 1] \in V
    BY <1>1, <1>5
  <2> QED BY <1>3, <1>5, <2>1
<1>7. f = [i \in 0..n |-> IF i = 0 THEN <<>> ELSE By(f[i - 1], i)]
  <2> DEFINE g == [i \in 0..n |-> IF i = 0 THEN <<>> ELSE By(f[i - 1], i)]
  <2>1. ASSUME NEW i \in 0..n PROVE f[i] = g[i]
    <3>1. CASE i = 0
      BY <1>5, <3>1
    <3>2. CASE i # 0
      BY <1>1, <1>6, <3>2
    <3> QED BY <3>1, <3>2
  <2> QED BY <1>5, <2>1
<1> DEFINE tasks == CHOOSE g : g = [i \in 0..n |-> IF i = 0 THEN <<>> ELSE By(g[i - 1], i)]
<1>8. tasks = [i \in 0..n |-> IF i = 0 THEN <<>> ELSE By(tasks[i - 1], i)]
  BY <1>7
<1>9. Pending(s) = tasks[n]
  BY DEF Pending, n, By
<1> HIDE DEF tasks
<1>10. tasks[0] = <<>> /\ \A i \in 1..n : tasks[i] = By(tasks[i - 1], i)
  <2> DEFINE g == [i \in 0..n |-> IF i = 0 THEN <<>> ELSE By(tasks[i - 1], i)]
  <2>1. g[0] = <<>>
    BY <1>1
  <2>2. \A i \in 1..n : g[i] = By(tasks[i - 1], i)
    BY <1>1
  <2>3. tasks = g
    BY <1>8
  <2> HIDE DEF g
  <2> QED BY <2>1, <2>2, <2>3
<1>11. ASSUME NEW h, PendingRun(h, s) PROVE Pending(s) = h[n]
  <2>1. h[0] = <<>> /\ (\A i \in 1..n : h[i] = By(h[i - 1], i))
    BY <1>11 DEF PendingRun, n, By
  <2>2. tasks[0] = h[0] /\ (\A i \in 1..n : tasks[i] = By(tasks[i - 1], i))
    BY <1>10, <2>1
  <2> DEFINE S == {i \in 0..n : tasks[i] = h[i]}
  <2>3. 0 \in S
    BY <1>1, <2>2
  <2>4. \A i \in 1..n : i - 1 \in S => i \in S
    BY <1>1, <2>1, <2>2
  <2> HIDE DEF S
  <2>5. \A i \in 0..n : i \in S
    BY ONLY <1>1, <2>3, <2>4, UpTo
  <2>6. n \in S
    BY <1>1, <2>5
  <2> QED BY <1>9, <2>6 DEF S
<1>12. PendingRun(f, s)
  BY <1>5, <1>6 DEF PendingRun, n, V, By
<1> QED BY <1>11, <1>12 DEF n

\* The innermost handler comes first.
LEMMA PendingAppend ==
  /\ Pending(<<>>) = <<>>
  /\ \A s \in Seq(NotedFrames) : \A f \in NotedFrames :
       Pending(s) \in Seq(Tasks) /\ Pending(Append(s, f)) = PendingIn(f) \o Pending(s)
<1>1. Pending(<<>>) = <<>>
  <2>1. <<>> \in Seq(NotedFrames) /\ Len(<<>>) = 0
    OBVIOUS
  <2>2. PICK h : PendingRun(h, <<>>)
    BY <2>1, PendingIsRun
  <2> QED BY <2>1, <2>2, PendingIsRun DEF PendingRun
<1>2. ASSUME NEW s \in Seq(NotedFrames), NEW f \in NotedFrames
      PROVE  Pending(s) \in Seq(Tasks) /\ Pending(Append(s, f)) = PendingIn(f) \o Pending(s)
  <2> DEFINE t == Append(s, f)
             n == Len(s)
  <2>1. /\ t \in Seq(NotedFrames) /\ n \in Nat /\ Len(t) = n + 1 /\ t[n + 1] = f
        /\ \A i \in 1..n : t[i] = s[i]
    OBVIOUS
  <2> HIDE DEF t, n
  <2>2. PICK h : PendingRun(h, t)
    BY <2>1, PendingIsRun
  <2>3. /\ h \in [0..(n + 1) -> Seq(Tasks)] /\ h[0] = <<>>
        /\ \A i \in 1..(n + 1) : h[i] = PendingIn(t[i]) \o h[i - 1]
    BY <2>1, <2>2 DEF PendingRun
  <2> DEFINE g == [i \in 0..n |-> h[i]]
  <2>4. g \in [0..n -> Seq(Tasks)] /\ g[0] = <<>> /\ g[n] = h[n]
    BY <2>1, <2>3
  <2>5. \A i \in 1..n : g[i] = PendingIn(s[i]) \o g[i - 1]
    <3> SUFFICES ASSUME NEW i \in 1..n PROVE g[i] = PendingIn(s[i]) \o g[i - 1]
      OBVIOUS
    <3>1. g[i] = h[i] /\ g[i - 1] = h[i - 1] /\ i \in 1..(n + 1) /\ t[i] = s[i]
      BY <2>1
    <3> HIDE DEF g
    <3> QED BY <2>3, <3>1
  <2> HIDE DEF g
  <2>6. PendingRun(g, s)
    BY <2>4, <2>5 DEF PendingRun, n
  <2>7. Pending(s) = h[n]
    BY <2>4, <2>6, PendingIsRun DEF n
  <2>8. Pending(t) = h[n + 1]
    BY <2>1, <2>2, PendingIsRun
  <2>9. n \in 0..(n + 1) /\ h[n + 1] = PendingIn(f) \o h[n]
    <3>1. n + 1 \in 1..(n + 1) /\ (n + 1) - 1 = n /\ n \in 0..(n + 1)
      BY <2>1
    <3>2. h[n + 1] = PendingIn(t[n + 1]) \o h[(n + 1) - 1]
      BY <2>3, <3>1
    <3> QED BY <2>1, <3>1, <3>2
  <2> QED BY <2>3, <2>7, <2>8, <2>9 DEF t
<1> QED BY <1>1, <1>2

---------------------------------------------------------------------------
\* What parse_internal makes of a document that it does not open

\* With a type, nothing is a success yet.
LEMMA TypeVerdictIs ==
  ASSUME NEW d, NEW t, NEW b, NEW r, r # SUCCESS, NEW o, NEW l, NEW lists,
         NEW v, v = TypeVerdict(d, t, b, r, o, l, lists)
  PROVE  /\ v.do \in {"return", "leak", "tail", "handle"}
         /\ v.do \in {"return", "tail"} => v.ret # SUCCESS
<1> DEFINE s == IF b THEN t ELSE SniffedType(d)
           func == IF s = NONE THEN DualFunc[t] ELSE get_function_for_mimetype(s)
<1>1. \A x : Return(x).do = "return" /\ Return(x).ret = x /\ Verdict("leak", x).do = "leak"
  BY DEF Return, Verdict
<1>2. \A x, y : NoHandler(x, y).do = "tail" /\ NoHandler(x, y).ret = x
  BY DEF NoHandler, Verdict
<1>3. \A x, y, z : Handle(x, y, z).do = "handle"
  BY DEF Handle
<1>4. IGNORED # SUCCESS /\ UNHANDLED # SUCCESS
  BY DEF IGNORED, UNHANDLED, SUCCESS
<1>5. \/ v \in {Return(IGNORED), NoHandler(r, t), Verdict("leak", IGNORED)}
      \/ v = Handle(SpecialFunc[t], t, b)
      \/ v = DualVerdict(d, t, b)
  BY DEF TypeVerdict
<1>6. DualVerdict(d, t, b) \in {Handle(func, s, Buffered(d)), NoHandler(IGNORED, NONE),
                                NoHandler(UNHANDLED, NONE)}
  BY DEF DualVerdict
<1> HIDE DEF s, func
<1> QED BY <1>1, <1>2, <1>3, <1>4, <1>5, <1>6

\* Only an empty file is a success at once.
LEMMA MimeVerdictIs ==
  ASSUME NEW d, NEW r, r # SUCCESS, NEW o, NEW l, NEW lists,
         NEW v, v = MimeVerdict(d, r, o, l, lists)
  PROVE  /\ v.do \in {"return", "leak", "tail", "handle"}
         /\ v.do = "tail" => v.ret # SUCCESS
         /\ v.do = "return" /\ v.ret = SUCCESS => "empty" \in {d.guess, d.data}
<1> DEFINE t == ResolvedType(d, o.force)
           data == ResolvedData(d, o.force)
           again == t = "mpeg" /\ l = 0 /\ ~data
           t2 == IF again /\ SniffedType(d) # NONE THEN SniffedType(d) ELSE t
           b2 == IF again THEN Buffered(d) ELSE data
<1>1. \A x : Return(x).do = "return" /\ Return(x).ret = x
  BY DEF Return, Verdict
<1>2. UNHANDLED # SUCCESS
  BY DEF UNHANDLED, SUCCESS
<1>3. t = "empty" => "empty" \in {d.guess, d.data}
  BY DEF ResolvedType, NamedType, SniffedType, NONE
<1>4. \/ v = Return(UNHANDLED)
      \/ t = "empty" /\ v = Return(SUCCESS)
      \/ v = TypeVerdict(d, t2, b2, r, o, l, lists)
  BY DEF MimeVerdict
<1>5. ASSUME v = TypeVerdict(d, t2, b2, r, o, l, lists)
      PROVE  /\ v.do \in {"return", "leak", "tail", "handle"}
             /\ v.do \in {"return", "tail"} => v.ret # SUCCESS
  <2> HIDE DEF t, data, again, t2, b2
  <2> QED BY <1>5, TypeVerdictIs
<1> HIDE DEF t, data, again, t2, b2
<1> QED BY <1>1, <1>2, <1>3, <1>4, <1>5

\* A document of a podcast scheme is returned at once or read from its feed;
\* another is a success at once only as a video site or an empty file.
LEMMA DecisionIs ==
  ASSUME NEW d, NEW o, NEW l, NEW max, NEW lists,
         NEW v, v = parse_internal(d, o, l, max, lists)
  PROVE  /\ v.do = "direct" => d.feed # NONE
         /\ v.do \notin {"direct", "return"} => d.scheme \notin {"feed", "zune", "itms"}
         /\ v.do = "tail" => v.ret # SUCCESS
         /\ v.do = "return" /\ v.ret = SUCCESS =>
              "empty" \in {d.guess, d.data} /\ d.scheme \notin {"feed", "zune", "itms"}
<1> DEFINE r == IF d.scheme = "http" /\ o.recurse /\ d.site THEN d.siteRet ELSE UNHANDLED
<1>1. \A x : Return(x).do = "return" /\ Return(x).ret = x
  BY DEF Return, Verdict
<1>2. Verdict("direct", SUCCESS).do = "direct" /\ Verdict("site", SUCCESS).do = "site"
  BY DEF Verdict
<1>3. IGNORED # SUCCESS /\ UNHANDLED # SUCCESS /\ ERROR # SUCCESS
  BY DEF IGNORED, UNHANDLED, ERROR, SUCCESS
<1>4. \/ \E x \in {UNHANDLED, ERROR, IGNORED} : v = Return(x)
      \/ d.feed # NONE /\ v = Verdict("direct", SUCCESS)
      \/ /\ d.scheme \notin {"feed", "zune", "itms"}
         /\ \/ v = Verdict("site", SUCCESS)
            \/ r # SUCCESS /\ v = MimeVerdict(d, r, o, l, lists)
  BY <1>3 DEF parse_internal, FeedVerdict, WebVerdict
<1>5. ASSUME r # SUCCESS, v = MimeVerdict(d, r, o, l, lists)
      PROVE  /\ v.do \in {"return", "leak", "tail", "handle"}
             /\ v.do = "tail" => v.ret # SUCCESS
             /\ v.do = "return" /\ v.ret = SUCCESS => "empty" \in {d.guess, d.data}
  <2> HIDE DEF r
  <2> QED BY <1>5, MimeVerdictIs
<1> HIDE DEF r
<1> QED BY <1>1, <1>2, <1>3, <1>4, <1>5

\* A document without an item has no entry.
LEMMA NoEntries ==
  ASSUME NEW d \in Documents, NEW uri, NEW recurse, d.items = <<>>,
         d.form \in {"zero", "smil", "qtsmil"}
  PROVE  OneGoLog(uri, d, recurse) = <<>>
<1>1. <<>> \in Seq(Items) /\ Len(<<>>) = 0 /\ DOMAIN <<>> = {}
  OBVIOUS
<1>2. Readable(d.items) = <<>>
  BY <1>1 DEF Readable
<1>3. EntriesOf(<<>>, d.form, recurse) = <<>>
  BY <1>1, EntriesOfType
<1>4. ~Opens(d.form, d.items) /\ ~Closes(d.form) /\ d.form \notin {"rssbare", "opmlbare"}
  BY DEF Opens, Closes
<1>5. <<>> \o <<>> \o <<>> = <<>>
  BY <1>1, ConcatEmptySeq
<1> QED BY <1>2, <1>3, <1>4, <1>5 DEF OneGoLog

\* An empty file yields nothing.
LEMMA ZeroYields ==
  ASSUME NEW d \in Docs, World[d].form = "zero", World[d].feed = NONE
  PROVE  d \in Yielding /\ <<>> \in FoundIn(d)
<1>1. World[d] \in Documents /\ World[d].items = <<>> /\ SourceOf(d) = d
  BY WorldAssumption DEF SourceOf
<1>2. OneGoLog(d, World[d], TRUE) = <<>>
  BY <1>1, NoEntries
<1>3. Reports(OneGoLog(SourceOf(d), World[SourceOf(d)], TRUE)) = <<>>
  BY <1>1, <1>2, ReportsAppend
<1> QED BY <1>1, <1>3 DEF Yielding, FoundIn

\* The ways a document is read in one go: it is reported itself, or replaced by
\* the entries found in it, or not read.
ReadAs(uri, out) ==
  \/ out.ret = SUCCESS /\ Reports(out.log) = <<uri>>
  \/ out.ret = SUCCESS /\ uri \in Yielding /\ Reports(out.log) \in FoundIn(uri)
  \/ out.ret # SUCCESS /\ Reports(out.log) = <<>>

\* What ParseCall decides about a document is one of the readings of it.
LEMMA OutcomeIsRead ==
  ASSUME NoPla, NEW func, NEW uri \in Docs, World[uri].feed = NONE, NEW b,
         NEW recurse \in BOOLEAN
  PROVE  ReadAs(uri, Outcome(func, uri, World[uri], b, recurse))
<1> DEFINE d == World[uri]
           out == Outcome(func, uri, d, b, recurse)
           entry == <<Entry(uri, NONE)>>
           whole == OneGoLog(uri, d, recurse)
<1> SUFFICES ReadAs(uri, out)
  OBVIOUS
<1>1. d \in Documents /\ SourceOf(uri) = uri /\ d.form # "pla"
  BY WorldAssumption DEF SourceOf, NoPla
<1>2. Reports(<<>>) = <<>> /\ Reports(entry) = <<uri>>
  BY ReportsAppend, ReportsOf, SignalTypes
<1>3. IGNORED # SUCCESS /\ UNHANDLED # SUCCESS /\ ERROR # SUCCESS
  BY DEF IGNORED, UNHANDLED, ERROR, SUCCESS
<1> HIDE DEF d, entry
<1>4. \/ out.ret = SUCCESS /\ out.log = entry
      \/ out.ret \in {IGNORED, UNHANDLED, ERROR} /\ out.log = <<>>
      \/ /\ func \in DOMAIN ReadInOneGo /\ d.form \in ReadInOneGo[func]
         /\ out.ret = OneGoResult(d) /\ out.log = whole
      \/ out.ret = Foreign(func, d.form) /\ out.log = <<>>
  BY DEF Outcome, entry
<1>5. Foreign(func, d.form) = SUCCESS => d.form = "zero"
  BY <1>3 DEF Foreign
<1>6. OneGoResult(d) = SUCCESS \/ (OneGoResult(d) # SUCCESS /\ d.form \in {"smil", "qtsmil"} /\ d.items = <<>>)
  BY <1>1 DEF OneGoResult
<1> HIDE DEF out, whole
<1>7. CASE out.ret = SUCCESS /\ out.log = entry
  BY <1>2, <1>7 DEF ReadAs
<1>8. CASE out.ret \in {IGNORED, UNHANDLED, ERROR} /\ out.log = <<>>
  BY <1>2, <1>3, <1>8 DEF ReadAs
<1>9. CASE /\ func \in DOMAIN ReadInOneGo /\ d.form \in ReadInOneGo[func]
           /\ out.ret = OneGoResult(d) /\ out.log = whole
  <2>1. CASE OneGoResult(d) = SUCCESS
    <3>1. d.form \in OneGoForms
      BY <1>9 DEF OneGoForms
    <3>2. uri \in Yielding
      BY <1>1, <3>1 DEF Yielding, d
    <3>3. Reports(whole) \in FoundIn(uri)
      BY <1>1 DEF FoundIn, whole, d
    <3> QED BY <1>9, <2>1, <3>2, <3>3 DEF ReadAs
  <2>2. CASE OneGoResult(d) # SUCCESS
    <3>1. whole = <<>>
      BY <1>1, <1>6, <2>2, NoEntries DEF whole
    <3> QED BY <1>2, <1>9, <2>2, <3>1 DEF ReadAs
  <2> QED BY <2>1, <2>2
<1>10. CASE out.ret = Foreign(func, d.form) /\ out.log = <<>>
  <2>1. CASE out.ret = SUCCESS
    <3>1. uri \in Yielding /\ <<>> \in FoundIn(uri)
      BY <1>5, <1>10, <2>1, ZeroYields DEF d
    <3> QED BY <1>2, <1>10, <2>1, <3>1 DEF ReadAs
  <2>2. CASE out.ret # SUCCESS
    BY <1>2, <1>10, <2>2 DEF ReadAs
  <2> QED BY <2>1, <2>2
<1> QED BY <1>4, <1>7, <1>8, <1>9, <1>10

\* A podcast link is replaced by what its feed yields, or not read.
LEMMA FeedIsRead ==
  ASSUME NEW uri \in Docs, NEW feed \in Docs, World[uri].feed = feed, NEW recurse \in BOOLEAN,
         NEW out, out = Outcome("rss", feed, World[feed], FALSE, recurse)
  PROVE  \/ out.ret = SUCCESS /\ uri \in Yielding /\ Reports(out.log) \in FoundIn(uri)
         \/ out.ret # SUCCESS /\ Reports(out.log) = <<>>
<1> DEFINE d == World[feed]
<1>1. feed # NONE
  BY WorldAssumption
<1>2. SourceOf(uri) = feed
  BY <1>1 DEF SourceOf
<1>3. Reports(<<>>) = <<>>
  BY ReportsAppend
<1>4. ReadInOneGo["rss"] = {"rss", "rssbare"} /\ "rss" \in DOMAIN ReadInOneGo
  BY DEF ReadInOneGo
<1>5. ERROR # SUCCESS
  BY DEF ERROR, SUCCESS
<1> HIDE DEF d
<1>6. \/ out.ret = ERROR /\ out.log = <<>>
      \/ /\ d.form \in {"rss", "rssbare"}
         /\ out.ret = OneGoResult(d) /\ out.log = OneGoLog(feed, d, recurse)
  BY <1>4 DEF Outcome, IsMedia, Foreign, d
<1>7. CASE out.ret = ERROR /\ out.log = <<>>
  BY <1>3, <1>5, <1>7
<1>8. CASE /\ d.form \in {"rss", "rssbare"}
           /\ out.ret = OneGoResult(d) /\ out.log = OneGoLog(feed, d, recurse)
  <2>1. out.ret = SUCCESS
    BY <1>8 DEF OneGoResult
  <2>2. d.form \in OneGoForms
    BY <1>4, <1>8 DEF OneGoForms
  <2>3. uri \in Yielding
    BY <1>2, <2>2 DEF Yielding, d
  <2>4. Reports(out.log) \in FoundIn(uri)
    BY <1>2, <1>8 DEF FoundIn, d
  <2> QED BY <2>1, <2>3, <2>4
<1> QED BY <1>6, <1>7, <1>8

---------------------------------------------------------------------------
\* The handlers are linked: each reads a document of its own kind, and waits at
\* the item that names the document above it.
WaitsFor(f, d) ==
  f.i \in 1..Len(ItemsOf(f)) /\ ItemsOf(f)[f.i].op \in Naming /\ ItemsOf(f)[f.i].to = d
Calls(frames, d) == frames # <<>> => WaitsFor(frames[Len(frames)], d)
Suits(f) ==
  /\ f.reader = "dir" <=> World[f.doc].form = "dir"
  /\ ~IsBlank(f) => f.doc \in Playlists
Linked(frames) ==
  /\ \A k \in 1..Len(frames) : Suits(frames[k])
  /\ \A k \in 1..(Len(frames) - 1) : WaitsFor(frames[k], frames[k + 1].doc)
LinkInv ==
  /\ Linked(stack)
  /\ pc = "call" => Calls(stack, arg)
  /\ pc = "idle" => arg = root

\* A reader is started only on a document of its kind.
LEMMA ReaderFits ==
  ASSUME NEW func, NEW d \in Docs, NEW b, NEW reader,
         reader = ReaderFor(func, World[d], b), reader # NONE
  PROVE  /\ reader = "dir" <=> World[d].form = "dir"
         /\ reader \in {"m3u", "ram"} => World[d].form \in {"m3u", "urilist", "other"}
         /\ reader \notin {"m3u", "ram"} => World[d].form \in {"pls", "asx", "dir", "desktop"}
<1> DEFINE rules == Applicable(func, World[d], b)
<1>1. \A r \in ReaderRules :
        /\ r.reader = "dir" <=> r.form = "dir"
        /\ r.reader \in {"m3u", "ram"} => r.form \in {"m3u", "urilist", "other"}
        /\ r.reader \notin {"m3u", "ram"} => r.form \in {"pls", "asx", "dir", "desktop"}
  BY DEF ReaderRules, Rule
<1>2. \A r \in rules : r \in ReaderRules /\ r.form = World[d].form
  BY DEF Applicable
<1>3. rules # {} /\ reader = (CHOOSE r \in rules : TRUE).reader
  BY DEF ReaderFor
<1> HIDE DEF rules
<1>4. PICK r \in rules : reader = r.reader
  BY <1>3
<1> QED BY <1>1, <1>2, <1>4

\* A handler just opened suits its document.
LEMMA OpenedSuits ==
  ASSUME NEW func, NEW d \in Docs, NEW b, NEW f, f.doc = d,
         f.reader = ReaderFor(func, World[d], b), f.reader # NONE
  PROVE  Suits(f)
<1>1. /\ f.reader = "dir" <=> World[d].form = "dir"
      /\ f.reader \in {"m3u", "ram"} => World[d].form \in {"m3u", "urilist", "other"}
      /\ f.reader \notin {"m3u", "ram"} => World[d].form \in {"pls", "asx", "dir", "desktop"}
  BY ReaderFits
<1> QED BY <1>1 DEF Suits, IsBlank, ItemsOf, Playlists

\* One more handler, and one less.
LEMMA LinkedAppend ==
  ASSUME NEW s \in Seq(Frames), Linked(s), NEW f \in Frames, Suits(f), Calls(s, f.doc)
  PROVE  Linked(Append(s, f))
<1> DEFINE t == Append(s, f)
           n == Len(s)
<1>1. /\ n \in Nat /\ Len(t) = n + 1 /\ t[n + 1] = f /\ \A k \in 1..n : t[k] = s[k]
      /\ n # 0 => s # <<>>
  OBVIOUS
<1>2. (\A k \in 1..n : Suits(s[k])) /\ (\A k \in 1..(n - 1) : WaitsFor(s[k], s[k + 1].doc))
  BY DEF Linked
<1>3. n # 0 => WaitsFor(s[n], f.doc)
  BY <1>1 DEF Calls
<1> HIDE DEF t, n
<1>4. ASSUME NEW k \in 1..(n + 1) PROVE Suits(t[k])
  <2>1. CASE k = n + 1
    BY <1>1, <2>1
  <2>2. CASE k # n + 1
    <3>1. k \in 1..n
      BY <1>1, <2>2
    <3> QED BY <1>1, <1>2, <3>1
  <2> QED BY <2>1, <2>2
<1>5. ASSUME NEW k \in 1..n PROVE WaitsFor(t[k], t[k + 1].doc)
  <2>1. t[k] = s[k]
    BY <1>1
  <2>2. CASE k = n
    BY <1>1, <1>3, <2>1, <2>2
  <2>3. CASE k # n
    <3>1. k \in 1..(n - 1) /\ k + 1 \in 1..n
      BY <1>1, <2>3
    <3>2. t[k + 1] = s[k + 1]
      BY <1>1, <3>1
    <3> QED BY <1>2, <2>1, <3>1, <3>2
  <2> QED BY <2>2, <2>3
<1>6. (n + 1) - 1 = n
  BY <1>1
<1>7. Linked(t)
  BY <1>1, <1>4, <1>5, <1>6 DEF Linked
<1> QED BY <1>7 DEF t

\* Handlers stay linked when the innermost one returns.
LEMMA LinkedBelow ==
  ASSUME stack \in Seq(Frames), stack # <<>>, Linked(stack)
  PROVE  Linked(Below) /\ Calls(Below, Top.doc) /\ Suits(Top)
<1> DEFINE n == Len(stack)
<1>1. n \in Nat \ {0} /\ Top = stack[n]
  BY DEF Top
<1>2. Below \in Seq(Frames) /\ Len(Below) = n - 1 /\ \A k \in 1..(n - 1) : Below[k] = stack[k]
  BY <1>1, PrefixType DEF Below
<1>3. (\A k \in 1..n : Suits(stack[k])) /\ (\A k \in 1..(n - 1) : WaitsFor(stack[k], stack[k + 1].doc))
  BY DEF Linked
<1>4. Below # <<>> => n - 1 \in 1..(n - 1)
  <2>1. Below # <<>> => Len(Below) # 0
    BY <1>2
  <2> HIDE DEF n
  <2> QED BY <1>1, <1>2, <2>1
<1> HIDE DEF n
<1>5. Linked(Below)
  <2>1. \A k \in 1..(n - 1) : Suits(Below[k])
    BY <1>1, <1>2, <1>3
  <2>2. ASSUME NEW k \in 1..((n - 1) - 1) PROVE WaitsFor(Below[k], Below[k + 1].doc)
    <3>1. k \in 1..(n - 1) /\ k + 1 \in 1..(n - 1)
      BY <1>1
    <3>2. Below[k] = stack[k] /\ Below[k + 1] = stack[k + 1]
      BY <1>2, <3>1
    <3> QED BY <1>3, <3>1, <3>2
  <2> QED BY <1>2, <2>1, <2>2 DEF Linked
<1>6. Calls(Below, Top.doc)
  <2> SUFFICES ASSUME Below # <<>> PROVE WaitsFor(Below[Len(Below)], Top.doc)
    BY DEF Calls
  <2>1. n - 1 \in 1..(n - 1) /\ (n - 1) + 1 = n
    BY <1>1, <1>4
  <2>2. WaitsFor(stack[n - 1], stack[(n - 1) + 1].doc)
    BY <1>3, <2>1
  <2> QED BY <1>1, <1>2, <2>1, <2>2
<1>7. Suits(Top)
  BY <1>1, <1>3
<1> QED BY <1>5, <1>6, <1>7

\* What replaces the innermost handler comes on top of those below it.
LEMMA ReplacedIs ==
  ASSUME stack \in Seq(Frames), stack # <<>>, NEW f \in Frames, Replace(f)
  PROVE  /\ stack' = Append(Below, f) /\ Below \in Seq(Frames)
         /\ stack' # <<>> /\ stack'[Len(stack')] = f
<1> DEFINE n == Len(stack)
<1>1. n \in Nat \ {0}
  OBVIOUS
<1>2. stack' = [stack EXCEPT ![n] = f]
  BY DEF Replace
<1>3. /\ stack' \in Seq(Frames) /\ Len(stack') = n /\ stack'[n] = f
      /\ \A k \in 1..(n - 1) : stack'[k] = stack[k]
  BY <1>1, <1>2
<1>4. Below \in Seq(Frames) /\ Len(Below) = n - 1 /\ \A k \in 1..(n - 1) : Below[k] = stack[k]
  BY <1>1, PrefixType DEF Below
<1>5. stack' # <<>>
  BY <1>1, <1>3
<1> HIDE DEF n
<1>6. Append(Below, f) \in Seq(Frames) /\ Len(Append(Below, f)) = n
  BY <1>1, <1>4
<1>7. \A k \in 1..n : Append(Below, f)[k] = stack'[k]
  BY <1>1, <1>3, <1>4
<1>8. stack' = Append(Below, f)
  BY <1>3, <1>6, <1>7, SeqEqual
<1> QED BY <1>3, <1>4, <1>5, <1>8

\* A handler that goes on reads the same document.
LEMMA ReplacedLinks ==
  ASSUME stack \in Seq(Frames), stack # <<>>, Linked(stack), NEW f \in Frames,
         f.doc = Top.doc, f.reader = Top.reader, Replace(f)
  PROVE  Linked(stack')
<1>1. stack' = Append(Below, f) /\ Below \in Seq(Frames)
  BY ReplacedIs
<1>2. Linked(Below) /\ Calls(Below, f.doc) /\ Suits(Top)
  BY LinkedBelow
<1>3. Suits(f)
  BY <1>2 DEF Suits, IsBlank, ItemsOf
<1> QED BY <1>1, <1>2, <1>3, LinkedAppend

\* The answers of parse_internal keep the links.
LEMMA DispatchKeepsLink ==
  ASSUME IInv, IInv', LinkInv, Dispatch
  PROVE  LinkInv'
<1>1. PICK v \in {Decision} :
        \/ ReturnAtOnce(v) \/ ReturnVideoSite(v) \/ ReadFeedScheme(v)
        \/ ReturnUnsafe(v) \/ GiveUp(v) \/ ReadWhole(v) \/ Open(v)
  BY DEF Dispatch
<1>2. stack \in Seq(Frames) /\ arg \in Docs /\ pc = "call" /\ Linked(stack) /\ Calls(stack, arg)
  BY DEF Dispatch, IInv, ControlTypes, LinkInv
<1>3. CASE Open(v)
  <2> DEFINE reader == ReaderFor(v.func, World[arg], v.data)
             f == [doc |-> arg, reader |-> reader, type |-> v.type, i |-> 1,
                   waits |-> FALSE, saved |-> FALSE, note |-> NoNote]
  <2>1. stack' = Append(stack, f) /\ reader # NONE /\ pc' = "run"
    BY <1>3 DEF Open
  <2> HIDE DEF reader
  <2>2. f.doc = arg /\ f.reader = reader
    OBVIOUS
  <2> HIDE DEF f
  <2>3. f \in Frames
    <3>1. stack'[Len(stack) + 1] = f /\ Len(stack') = Len(stack) + 1 /\ stack' \in Seq(Frames)
      BY <1>2, <2>1 DEF IInv, ControlTypes
    <3> QED BY <1>2, <3>1
  <2>4. Suits(f)
    BY <1>2, <2>1, <2>2, OpenedSuits DEF reader
  <2>5. Linked(stack')
    BY <1>2, <2>1, <2>2, <2>3, <2>4, LinkedAppend
  <2> QED BY <2>1, <2>5 DEF LinkInv
<1>4. CASE ~Open(v)
  <2>1. UNCHANGED stack /\ Back
    BY <1>1, <1>4 DEF ReturnAtOnce, ReturnVideoSite, ReadFeedScheme, ReturnUnsafe, GiveUp, ReadWhole
  <2> QED BY <1>2, <2>1 DEF Back, LinkInv
<1> QED BY <1>3, <1>4

\* So do the loops of the handlers.
LEMMA LoopKeepsLink ==
  ASSUME IInv, IInv', NotesAreFirst, LinkInv, Loop
  PROVE  LinkInv'
<1> USE DEF At, Running
<1>1. /\ stack \in Seq(Frames) /\ fallback \in BOOLEAN /\ Linked(stack)
      /\ pc \in {"run", "back"} => stack # <<>> /\ Top \in Frames
  <2>1. pc \in {"run", "back"} => stack # <<>> /\ Top \in Frames
    BY TopIsNoted DEF IInv, HandlersWait
  <2> QED BY <2>1 DEF IInv, ControlTypes, LinkInv
<1>2. Top \in Frames => /\ Advanced(Top) \in Frames /\ Advanced(Top).doc = Top.doc
                        /\ Advanced(Top).reader = Top.reader
  <2>1. Top \in Frames => Advanced(Top) \in Frames
    BY AdvancedType, NoNoteType
  <2> QED BY <2>1 DEF Advanced, Frames
\* The handler goes on.
<1>3. ASSUME pc \in {"run", "back"}, pc' = "run", NEW f \in Frames, Replace(f), f.doc = Top.doc,
             f.reader = Top.reader
      PROVE  LinkInv'
  <2>1. Linked(stack')
    BY <1>1, <1>3, ReplacedLinks
  <2> QED BY <1>3, <2>1 DEF LinkInv
\* The handler calls parse_internal.
<1>4. ASSUME pc = "run", ~AtEnd(Top), It.op \in Naming,
             NEW f \in {Top, [Top EXCEPT !.saved = fallback]}, Call(f)
      PROVE  LinkInv'
  <2> DEFINE g == [f EXCEPT !.waits = TRUE]
  <2>1. g \in Frames /\ g.doc = Top.doc /\ g.reader = Top.reader /\ g.i = Top.i
    BY <1>1, <1>4 DEF Frames
  <2>2. Replace(g) /\ pc' = "call" /\ arg' = It.to
    BY <1>4 DEF Call
  <2> HIDE DEF g
  <2>3. Linked(stack') /\ stack' # <<>> /\ stack'[Len(stack')] = g
    BY <1>1, <1>4, <2>1, <2>2, ReplacedLinks, ReplacedIs
  <2>4. g.i \in 1..Len(ItemsOf(g))
    <3>1. World[Top.doc].items \in Seq(Items) /\ Top.i \in DOMAIN World[Top.doc].items
      BY <1>1, <1>4, ItemAt
    <3> QED BY <2>1, <3>1 DEF ItemsOf
  <2>5. ItemsOf(g)[g.i] = It
    BY <2>1 DEF ItemsOf, It
  <2>6. Calls(stack', arg')
    BY <1>4, <2>2, <2>3, <2>4, <2>5 DEF Calls, WaitsFor
  <2> QED BY <2>2, <2>3, <2>6 DEF LinkInv
<1>5. CASE M3uNote
  <2> DEFINE note == IF It.op = "note" /\ ~Top.note.set
                       THEN [set |-> TRUE, live |-> It.live, title |-> It.title]
                       ELSE Top.note
             f == [Top EXCEPT !.i = @ + 1,
                     !.note = IF It.op = "note" /\ ~@.set
                                THEN [set |-> TRUE, live |-> It.live, title |-> It.title]
                                ELSE @]
  <2>1. pc = "run" /\ pc' = pc /\ ~AtEnd(Top) /\ Replace(f)
    BY <1>5 DEF M3uNote
  <2>2. It \in Items
    BY <1>1, <2>1, ItemType DEF It
  <2>3. note \in Notes
    BY <1>1, <2>1, <2>2 DEF Items, Notes, Frames
  <2>4. f = [Top EXCEPT !.i = @ + 1, !.note = note]
    OBVIOUS
  <2> HIDE DEF note, f
  <2>5. f \in Frames /\ f.doc = Top.doc /\ f.reader = Top.reader
    BY <1>1, <2>1, <2>3, <2>4, NoteTakenType DEF Frames
  <2> QED BY <1>3, <2>1, <2>5
<1>6. CASE M3uAdd \/ PlsAdd \/ DesktopAdd \/ AsxTitle \/ AsxEnd \/ Skip
  <2>1. pc = "run" /\ pc' = pc /\ Replace(Advanced(Top))
    BY <1>6 DEF M3uAdd, PlsAdd, DesktopAdd, AsxTitle, AsxEnd, Skip, Emit, Pass
  <2> QED BY <1>1, <1>2, <1>3, <2>1
<1>7. CASE M3uFollow \/ Follow \/ DesktopFollow \/ PlsFollow
  BY <1>4, <1>7 DEF M3uFollow, Follow, DesktopFollow, PlsFollow, Naming
<1>8. CASE RamStop
  <2> DEFINE f == [Top EXCEPT !.i = Len(ItemsOf(Top)) + 1]
  <2>1. pc = "run" /\ pc' = pc /\ ~AtEnd(Top) /\ Replace(f)
    BY <1>8 DEF RamStop
  <2>2. Len(ItemsOf(Top)) \in Nat
    BY <1>1, <2>1, ItemAt DEF ItemsOf
  <2>3. f \in Frames /\ f.doc = Top.doc /\ f.reader = Top.reader
    BY <1>1, <2>1, <2>2 DEF Frames
  <2> HIDE DEF f
  <2> QED BY <1>3, <2>1, <2>3
<1>9. CASE ChildReturned
  <2> DEFINE f == [Advanced(Top) EXCEPT !.waits = FALSE, !.saved = FALSE]
  <2>1. pc = "back" /\ pc' = "run" /\ Replace(f)
    BY <1>9 DEF ChildReturned
  <2>2. f \in Frames /\ f.doc = Top.doc /\ f.reader = Top.reader
    BY <1>1, <1>2, <2>1 DEF Frames
  <2> HIDE DEF f
  <2> QED BY <1>3, <2>1, <2>2
<1>10. CASE Leave
  <2>1. stack # <<>> /\ stack' = Below /\ pc' \in {"done", "back"}
    BY <1>1, <1>10 DEF Leave
  <2>2. Linked(Below)
    BY <1>1, <2>1, LinkedBelow
  <2> QED BY <2>1, <2>2 DEF LinkInv
<1> QED BY <1>5, <1>6, <1>7, <1>8, <1>9, <1>10 DEF Loop

\* Every step does.
LEMMA NextKeepsLink ==
  IInv /\ IInv' /\ NotesAreFirst /\ LinkInv /\ [Next]_vars => LinkInv'
<1> SUFFICES ASSUME IInv, IInv', NotesAreFirst, LinkInv, [Next]_vars PROVE LinkInv'
  OBVIOUS
<1>1. CASE Dispatch
  BY <1>1, DispatchKeepsLink
<1>2. CASE Loop
  BY <1>2, LoopKeepsLink
<1>3. CASE Parse
  <2>1. stack = <<>> /\ stack' = stack /\ pc' \in {"done", "call"} /\ Linked(stack)
    BY <1>3 DEF Parse, IInv, HandlersWait, LinkInv
  <2> QED BY <2>1 DEF LinkInv, Calls
<1>4. CASE Application \/ UNCHANGED vars
  <2>1. UNCHANGED <<stack, pc, arg, root>>
    BY <1>4 DEF Application, SetProperty, AddIgnored, vars
  <2> QED BY <2>1 DEF LinkInv
<1> QED BY <1>1, <1>2, <1>3, <1>4 DEF Next, Step, Over

\* No handler runs at first, so that none is out of its chain.
LEMMA InitLinks == Init => LinkInv
<1>1. Linked(<<>>)
  <2>1. Len(<<>>) = 0
    OBVIOUS
  <2> QED BY <2>1 DEF Linked
<1> QED BY <1>1 DEF Init, LinkInv

---------------------------------------------------------------------------
\* Accounting for the documents

Todo == InHand \o Pending(stack)
Seen == Reports(log)

\* One step of the account: nothing, or what Worklist does with the first task.
Accounts(t, s, t2, s2) ==
  \/ t2 = t /\ s2 = s
  \/ \E x \in Tasks : \E rest \in Seq(Tasks) :
       /\ t = <<x>> \o rest
       /\ \/ t2 = rest /\ s2 = Append(s, x.doc)
          \/ t2 = rest /\ x.doc \in Yielding /\ \E found \in FoundIn(x.doc) : s2 = s \o found
          \/ t2 = rest /\ x.optional /\ s2 = s
          \/ /\ x.doc \in Playlists /\ s2 = s
             /\ t2 = ListOf(NamedFrom(World[x.doc].items, 1), x.doc \in Directories) \o rest

\* The first task of a list.
LEMMA FirstTask ==
  ASSUME NEW x \in Tasks, NEW rest \in Seq(Tasks)
  PROVE  <<x>> \o rest # <<>> /\ Head(<<x>> \o rest) = x /\ Tail(<<x>> \o rest) = rest
<1> DEFINE t == <<x>> \o rest
           n == Len(rest)
<1>1. /\ t \in Seq(Tasks) /\ n \in Nat /\ Len(t) = n + 1 /\ t[1] = x
      /\ \A k \in 1..n : t[k + 1] = rest[k]
  OBVIOUS
<1> HIDE DEF t
<1>2. t # <<>> /\ Head(t) = x
  BY <1>1
<1>3. Tail(t) \in Seq(Tasks) /\ Len(Tail(t)) = n /\ \A k \in 1..n : Tail(t)[k] = rest[k]
  BY <1>1, <1>2
<1>4. Tail(t) = rest
  BY <1>3, SeqEqual
<1> QED BY <1>2, <1>4 DEF t

\* Such a step is one of the specification that promises it.
LEMMA AccountsIsPromised ==
  Accounts(Todo, Seen, Todo', Seen') => [Promise!Next]_(Promise!vars)
<1> SUFFICES ASSUME Accounts(Todo, Seen, Todo', Seen') PROVE [Promise!Next]_(Promise!vars)
  OBVIOUS
<1>1. CASE Todo' = Todo /\ Seen' = Seen
  BY <1>1 DEF Promise!vars, Todo, Seen
<1>2. CASE \E x \in Tasks : \E rest \in Seq(Tasks) :
             /\ Todo = <<x>> \o rest
             /\ \/ Todo' = rest /\ Seen' = Append(Seen, x.doc)
                \/ Todo' = rest /\ x.doc \in Yielding /\ \E found \in FoundIn(x.doc) : Seen' = Seen \o found
                \/ Todo' = rest /\ x.optional /\ Seen' = Seen
                \/ /\ x.doc \in Playlists /\ Seen' = Seen
                   /\ Todo' = ListOf(NamedFrom(World[x.doc].items, 1), x.doc \in Directories) \o rest
  <2>1. PICK x \in Tasks, rest \in Seq(Tasks) :
             /\ Todo = <<x>> \o rest
             /\ \/ Todo' = rest /\ Seen' = Append(Seen, x.doc)
                \/ Todo' = rest /\ x.doc \in Yielding /\ \E found \in FoundIn(x.doc) : Seen' = Seen \o found
                \/ Todo' = rest /\ x.optional /\ Seen' = Seen
                \/ /\ x.doc \in Playlists /\ Seen' = Seen
                   /\ Todo' = ListOf(NamedFrom(World[x.doc].items, 1), x.doc \in Directories) \o rest
    BY <1>2
  <2>2. Todo # <<>> /\ Head(Todo) = x /\ Tail(Todo) = rest
    BY <2>1, FirstTask
  <2>3. CASE Todo' = rest /\ Seen' = Append(Seen, x.doc)
    <3>1. Promise!Report
      BY <2>2, <2>3 DEF Promise!Report, Todo, Seen
    <3> QED BY <3>1 DEF Promise!Next
  <2>4. CASE Todo' = rest /\ x.doc \in Yielding /\ \E found \in FoundIn(x.doc) : Seen' = Seen \o found
    <3>1. x.doc \in DOMAIN FoundBy /\ FoundBy[x.doc] = FoundIn(x.doc)
      BY <2>4 DEF FoundBy
    <3>2. Promise!Deliver
      BY <2>2, <2>4, <3>1 DEF Promise!Deliver, Todo, Seen
    <3> QED BY <3>2 DEF Promise!Next
  <2>5. CASE Todo' = rest /\ x.optional /\ Seen' = Seen
    <3>1. Promise!Drop
      BY <2>2, <2>5 DEF Promise!Drop, Todo, Seen
    <3> QED BY <3>1 DEF Promise!Next
  <2>6. CASE /\ x.doc \in Playlists /\ Seen' = Seen
             /\ Todo' = ListOf(NamedFrom(World[x.doc].items, 1), x.doc \in Directories) \o rest
    <3>1. x.doc \in DOMAIN NamedBy /\ NamedBy[x.doc] = NamedFrom(World[x.doc].items, 1)
      BY <2>6 DEF NamedBy
    <3>2. Promise!TasksOf(x.doc) = ListOf(NamedBy[x.doc], x.doc \in Directories)
      BY DEF Promise!TasksOf, Promise!Task, ListOf, Task
    <3>3. Promise!Expand
      BY <2>2, <2>6, <3>1, <3>2 DEF Promise!Expand, Todo, Seen
    <3> QED BY <3>3 DEF Promise!Next
  <2> QED BY <2>1, <2>3, <2>4, <2>5, <2>6
<1> QED BY <1>1, <1>2 DEF Accounts

\* A document that may be dropped or not makes a task.
LEMMA TaskType ==
  ASSUME NEW d \in Docs, NEW callers
  PROVE  /\ Task(d, MayDrop(callers)) \in Tasks /\ Task(d, MayDrop(callers)).doc = d
         /\ Task(d, MayDrop(callers)).optional = MayDrop(callers)
         /\ Task(d, TRUE) \in Tasks /\ Task(d, TRUE).doc = d /\ Task(d, TRUE).optional = TRUE
<1>1. MayDrop(callers) \in BOOLEAN
  BY DEF MayDrop
<1> HIDE DEF MayDrop
<1> QED BY <1>1 DEF Task, Tasks

\* The calls of parse_internal that are over: the document was reported or
\* replaced, or the caller reports it still or may drop it.
LEMMA AnswerAccounts ==
  ASSUME NEW doc \in Docs, stack' \in Seq(NotedFrames), Calls(stack', doc),
         pc' = IF stack' = <<>> THEN "done" ELSE "back",
         Todo = <<Task(doc, MayDrop(stack'))>> \o Pending(stack'),
         \/ ret' = SUCCESS /\ Seen' = Append(Seen, doc)
         \/ ret' = SUCCESS /\ doc \in Yielding /\ \E found \in FoundIn(doc) : Seen' = Seen \o found
         \/ ret' # SUCCESS /\ Seen' = Seen
  PROVE  Accounts(Todo, Seen, Todo', Seen')
<1> DEFINE x == Task(doc, MayDrop(stack'))
           rest == Pending(stack')
<1>1. x \in Tasks /\ x.doc = doc /\ x.optional = MayDrop(stack')
  BY TaskType
<1>2. rest \in Seq(Tasks)
  <2>1. CASE stack' = <<>>
    <3>1. rest = <<>>
      BY <2>1, PendingAppend
    <3> QED BY <3>1
  <2>2. CASE stack' # <<>>
    <3>1. stack'[Len(stack')] \in NotedFrames
      BY <2>2
    <3> QED BY <3>1, PendingAppend
  <2> QED BY <2>1, <2>2
<1>3. Todo' = InHand' \o rest
  BY DEF Todo
<1>4. stack' # <<>> => It.to' = doc
  BY DEF Calls, WaitsFor, It, Top
<1>5. \/ InHand' = <<>> /\ (ret' = SUCCESS \/ MayDrop(stack'))
      \/ InHand' = <<x>> /\ ret' # SUCCESS
  <2>1. CASE stack' = <<>>
    <3>1. pc' = "done"
      BY <2>1
    <3> QED BY <2>1, <3>1 DEF InHand, MayDrop
  <2>2. CASE stack' # <<>>
    <3>1. pc' = "back"
      BY <2>2
    <3>2. InHand' = IF Reported(Top.reader)' THEN <<x>> ELSE <<>>
      BY <1>4, <2>2, <3>1 DEF InHand
    <3>3. Reported(Top.reader)' => ret' # SUCCESS
      BY DEF Reported, SUCCESS, UNHANDLED
    <3>4. ~Reported(Top.reader)' => ret' = SUCCESS \/ MayDrop(stack')
      BY DEF Reported, MayDrop, Top
    <3> QED BY <3>2, <3>3, <3>4
  <2> QED BY <2>1, <2>2
<1>6. <<>> \o rest = rest
  BY <1>2, ConcatEmptySeq
<1>7. Todo = <<x>> \o rest
  OBVIOUS
<1> HIDE DEF x, rest
<1>8. CASE InHand' = <<>>
  <2>1. Todo' = rest
    BY <1>3, <1>6, <1>8
  <2>2. ret' # SUCCESS => x.optional
    <3>1. <<>> # <<x>>
      OBVIOUS
    <3> QED BY <1>1, <1>5, <1>8, <3>1
  <2>3. \/ Seen' = Append(Seen, x.doc)
        \/ x.doc \in Yielding /\ \E found \in FoundIn(x.doc) : Seen' = Seen \o found
        \/ x.optional /\ Seen' = Seen
    BY <1>1, <2>2
  <2> QED BY <1>1, <1>2, <1>7, <2>1, <2>3 DEF Accounts
<1>9. CASE InHand' = <<x>>
  <2>1. Todo' = Todo
    BY <1>3, <1>7, <1>9
  <2>2. ret' # SUCCESS
    <3>1. <<>> # <<x>>
      OBVIOUS
    <3> QED BY <1>5, <1>9, <3>1
  <2>3. Seen' = Seen
    BY <2>2
  <2> QED BY <2>1, <2>3 DEF Accounts
<1> QED BY <1>5, <1>8, <1>9

\* What the tail reports after a handler, and what it returns.
LEMMA TailAccounts ==
  ASSUME LogTypes, NEW doc \in Docs, NEW r, NEW type, NEW emitted \in Seq(Events),
         ThroughTail(doc, r, type, emitted)
  PROVE  /\ Seen \in Seq(Docs) /\ Reports(emitted) \in Seq(Docs)
         /\ r = SUCCESS => ret' = SUCCESS /\ Seen' = Seen \o Reports(emitted)
         /\ r # SUCCESS => \/ ret' = SUCCESS /\ Seen' = Append(Seen \o Reports(emitted), doc)
                           \/ ret' # SUCCESS /\ Seen' = Seen \o Reports(emitted)
<1> DEFINE tail == TailEntry(doc, r, type)
<1>1. log \in Seq(Events) /\ log' = (log \o emitted) \o tail
  BY TailIsTyped DEF LogTypes
<1>2. tail \in Seq(Events)
  BY SignalTypes DEF TailEntry
<1>3. ret' = TailResult(r, type, fallback)
  BY DEF ThroughTail
<1>4. Seen \in Seq(Docs) /\ Reports(emitted) \in Seq(Docs)
  <2>1. Started(doc) \in Events
    BY SignalTypes
  <2> QED BY <1>1, <2>1, ReportsAppend DEF Seen
<1>5. IGNORED # SUCCESS
  BY DEF IGNORED, SUCCESS
<1>6. /\ r = SUCCESS => tail = <<>> /\ ret' = SUCCESS
      /\ r # SUCCESS => \/ ret' = SUCCESS /\ tail = <<Entry(doc, NONE)>>
                        \/ ret' # SUCCESS /\ tail = <<>>
  BY <1>3, <1>5 DEF TailEntry, TailResult, AddsItself
<1>7. Reports(<<>>) = <<>> /\ Reports(<<Entry(doc, NONE)>>) = <<doc>>
  BY ReportsAppend, ReportsOf, SignalTypes
<1> HIDE DEF tail
<1>8. log \o emitted \in Seq(Events)
  BY <1>1, ConcatProperties
<1>9. Reports(log') = (Seen \o Reports(emitted)) \o Reports(tail)
  BY <1>1, <1>2, <1>8, ReportsConcat DEF Seen
<1> DEFINE y == Seen \o Reports(emitted)
<1>10. y \in Seq(Docs)
  BY <1>4, ConcatProperties
<1>11. Seen' = Reports(log')
  BY DEF Seen
<1> HIDE DEF y
<1>12. y \o <<>> = y /\ y \o <<doc>> = Append(y, doc)
  BY <1>10, ConcatEmptySeq, AppendIsConcat
<1>13. Seen' = y \o Reports(tail)
  BY <1>9, <1>11 DEF y
<1> QED BY <1>4, <1>6, <1>7, <1>12, <1>13 DEF y

\* The answers of parse_internal account for the document it was called on.
LEMMA DispatchAccounts ==
  ASSUME NoPla, IInv, IInv', NotesAreFirst, NotesAreFirst', LogTypes, LinkInv, Dispatch
  PROVE  Accounts(Todo, Seen, Todo', Seen')
<1>1. PICK v \in {Decision} :
        \/ ReturnAtOnce(v) \/ ReturnVideoSite(v) \/ ReadFeedScheme(v)
        \/ ReturnUnsafe(v) \/ GiveUp(v) \/ ReadWhole(v) \/ Open(v)
  BY DEF Dispatch
<1>2. /\ arg \in Docs /\ World[arg] \in Documents /\ priv.recurse \in BOOLEAN /\ pc = "call"
      /\ log \in Seq(Events) /\ stack \in Seq(NotedFrames) /\ Calls(stack, arg)
      /\ stack \in Seq(Frames)
  BY WorldAssumption DEF Dispatch, IInv, ControlTypes, LogTypes, NotesAreFirst, LinkInv, Options
<1>3. v = parse_internal(World[arg], opts, level, RECURSE_LEVEL_MAX, ignored)
  BY <1>1 DEF Decision
<1>4. /\ v.do = "direct" => World[arg].feed # NONE
      /\ v.do \notin {"direct", "return"} => World[arg].scheme \notin {"feed", "zune", "itms"}
      /\ v.do = "tail" => v.ret # SUCCESS
      /\ v.do = "return" /\ v.ret = SUCCESS =>
           /\ "empty" \in {World[arg].guess, World[arg].data}
           /\ World[arg].scheme \notin {"feed", "zune", "itms"}
  BY <1>3, DecisionIs
<1>5. World[arg].scheme \notin {"feed", "zune", "itms"} => World[arg].feed = NONE
  BY <1>2, WorldAssumption
<1>6. Todo = <<Task(arg, MayDrop(stack))>> \o Pending(stack)
  BY <1>2 DEF Todo, InHand
<1>7. Seen \in Seq(Docs)
  <2>1. Started(arg) \in Events
    BY <1>2, SignalTypes
  <2> QED BY <1>2, <2>1, ReportsAppend DEF Seen
<1>8. Seen \o <<>> = Seen /\ Append(Seen, arg) = Seen \o <<arg>>
  BY <1>2, <1>7, ConcatEmptySeq, AppendIsConcat
\* The document was accounted for.
<1>9. ASSUME UNCHANGED stack, Back,
             \/ ret' = SUCCESS /\ Seen' = Append(Seen, arg)
             \/ ret' = SUCCESS /\ arg \in Yielding /\ \E found \in FoundIn(arg) : Seen' = Seen \o found
             \/ ret' # SUCCESS /\ Seen' = Seen
      PROVE  Accounts(Todo, Seen, Todo', Seen')
  <2>1. stack' \in Seq(NotedFrames) /\ Calls(stack', arg)
        /\ Todo = <<Task(arg, MayDrop(stack'))>> \o Pending(stack')
    BY <1>2, <1>6, <1>9
  <2>2. pc' = IF stack' = <<>> THEN "done" ELSE "back"
    BY <1>9 DEF Back
  <2> QED BY <1>2, <1>9, <2>1, <2>2, AnswerAccounts
<1>10. CASE ReturnAtOnce(v)
  <2>1. v.do = "return" /\ ret' = v.ret /\ Back /\ UNCHANGED <<stack, log>>
    BY <1>10 DEF ReturnAtOnce
  <2>2. Seen' = Seen
    BY <2>1 DEF Seen
  <2>3. CASE v.ret = SUCCESS
    <3>1. World[arg].feed = NONE /\ World[arg].form = "zero"
      BY <1>2, <1>4, <1>5, <2>1, <2>3, WorldAssumption
    <3>2. arg \in Yielding /\ <<>> \in FoundIn(arg)
      BY <1>2, <3>1, ZeroYields
    <3> QED BY <1>8, <1>9, <2>1, <2>2, <2>3, <3>2
  <2>4. CASE v.ret # SUCCESS
    BY <1>9, <2>1, <2>2, <2>4
  <2> QED BY <2>3, <2>4
<1>11. CASE ReturnVideoSite(v)
  <2>1. log' = Append(log, Entry(arg, NONE)) /\ ret' = SUCCESS /\ Back /\ UNCHANGED stack
    BY <1>11 DEF ReturnVideoSite
  <2>2. Seen' = Append(Seen, arg)
    <3>1. /\ Entry(arg, NONE) \in Events /\ Entry(arg, NONE).sig = "entry-parsed"
          /\ Entry(arg, NONE).uri = arg
      BY <1>2, SignalTypes DEF Entry, Event, EntryEvents
    <3>2. Reports(Append(log, Entry(arg, NONE))) = WithReport(Reports(log), Entry(arg, NONE))
      BY <1>2, <3>1, ReportsAppend
    <3> QED BY <2>1, <3>1, <3>2 DEF Seen, WithReport
  <2> QED BY <1>9, <2>1, <2>2
<1>12. CASE ReadFeedScheme(v)
  <2> DEFINE feed == World[arg].feed
             out == Outcome("rss", feed, World[feed], FALSE, priv.recurse)
  <2>1. /\ v.do = "direct" /\ log' = log \o out.log /\ ret' = out.ret /\ Back /\ UNCHANGED stack
    BY <1>12 DEF ReadFeedScheme
  <2>2. feed \in Docs
    BY <1>2, <1>4, <2>1 DEF Documents
  <2>3. out.log \in Seq(Events)
    BY <2>2, EmittedTypes, WorldAssumption
  <2>4. \/ out.ret = SUCCESS /\ arg \in Yielding /\ Reports(out.log) \in FoundIn(arg)
        \/ out.ret # SUCCESS /\ Reports(out.log) = <<>>
    BY <1>2, <2>2, FeedIsRead
  <2> HIDE DEF out, feed
  <2>5. Seen' = Seen \o Reports(out.log)
    BY <1>2, <2>1, <2>3, ReportsConcat DEF Seen
  <2> QED BY <1>8, <1>9, <2>1, <2>4, <2>5
<1>13. CASE ReturnUnsafe(v)
  <2>1. ret' = IGNORED /\ Back /\ UNCHANGED <<stack, log>>
    BY <1>13 DEF ReturnUnsafe
  <2>2. Seen' = Seen /\ ret' # SUCCESS
    BY <2>1 DEF Seen, IGNORED, SUCCESS
  <2> QED BY <1>9, <2>1, <2>2
<1>14. CASE GiveUp(v)
  <2>1. v.do = "tail" /\ ThroughTail(arg, v.ret, v.type, <<>>) /\ Back /\ UNCHANGED stack
    BY <1>14 DEF GiveUp
  <2>2. v.ret # SUCCESS /\ <<>> \in Seq(Events) /\ Reports(<<>>) = <<>>
    BY <1>4, <2>1, ReportsAppend
  <2>3. \/ ret' = SUCCESS /\ Seen' = Append(Seen \o Reports(<<>>), arg)
        \/ ret' # SUCCESS /\ Seen' = Seen \o Reports(<<>>)
    BY <1>2, <2>1, <2>2, TailAccounts
  <2> QED BY <1>8, <1>9, <2>1, <2>2, <2>3
<1>15. CASE ReadWhole(v)
  <2> DEFINE out == Outcome(v.func, arg, World[arg], v.data, priv.recurse)
  <2>1. v.do = "handle" /\ ThroughTail(arg, out.ret, v.type, out.log) /\ Back /\ UNCHANGED stack
    BY <1>15 DEF ReadWhole
  <2>2. World[arg].feed = NONE
    BY <1>4, <1>5, <2>1
  <2>3. ReadAs(arg, out)
    BY <1>2, <2>2, OutcomeIsRead
  <2>4. out.log \in Seq(Events)
    BY <1>2, EmittedTypes
  <2> HIDE DEF out
  <2>5. /\ out.ret = SUCCESS => ret' = SUCCESS /\ Seen' = Seen \o Reports(out.log)
        /\ out.ret # SUCCESS => \/ ret' = SUCCESS /\ Seen' = Append(Seen \o Reports(out.log), arg)
                                \/ ret' # SUCCESS /\ Seen' = Seen \o Reports(out.log)
    BY <1>2, <2>1, <2>4, TailAccounts
  <2>6. CASE out.ret = SUCCESS /\ Reports(out.log) = <<arg>>
    BY <1>8, <1>9, <2>1, <2>5, <2>6
  <2>7. CASE out.ret = SUCCESS /\ arg \in Yielding /\ Reports(out.log) \in FoundIn(arg)
    BY <1>9, <2>1, <2>5, <2>7
  <2>8. CASE out.ret # SUCCESS /\ Reports(out.log) = <<>>
    BY <1>8, <1>9, <2>1, <2>5, <2>8
  <2> QED BY <2>3, <2>6, <2>7, <2>8 DEF ReadAs
<1>16. CASE Open(v)
  <2> DEFINE reader == ReaderFor(v.func, World[arg], v.data)
             f == [doc |-> arg, reader |-> reader, type |-> v.type, i |-> 1,
                   waits |-> FALSE, saved |-> FALSE, note |-> NoNote]
             items == World[arg].items
  <2>1. /\ stack' = Append(stack, f) /\ log' = log \o Opening(reader, arg) /\ reader # NONE
        /\ pc' = "run"
    BY <1>16 DEF Open
  <2> HIDE DEF reader
  <2>2. f.doc = arg /\ f.reader = reader /\ f.i = 1 /\ f.waits = FALSE
    OBVIOUS
  <2> HIDE DEF f
  <2>3. f \in NotedFrames /\ f \in Frames /\ Top' = f /\ Below' = stack
    <3>1. stack' \in Seq(NotedFrames) /\ stack'[Len(stack) + 1] = f /\ Len(stack') = Len(stack) + 1
      BY <1>2, <2>1 DEF NotesAreFirst
    <3>2. f \in NotedFrames
      BY <1>2, <3>1
    <3>3. SubSeq(stack', 1, Len(stack)) = stack
      <4> DEFINE s == SubSeq(stack', 1, Len(stack))
      <4>1. s \in Seq(NotedFrames) /\ Len(s) = Len(stack) /\ \A k \in 1..Len(stack) : s[k] = stack[k]
        BY <1>2, <2>1, <3>1
      <4> QED BY <1>2, <4>1, SeqEqual
    <3>4. Len(stack') - 1 = Len(stack)
      BY <1>2, <3>1
    <3> QED BY <3>1, <3>2, <3>3, <3>4 DEF NotedFrames, Top, Below
  <2>4. Pending(stack) \in Seq(Tasks) /\ Pending(stack') = PendingIn(f) \o Pending(stack)
    BY <1>2, <2>1, <2>3, PendingAppend
  <2>5. Seen' = Seen
    <3>1. Opening(reader, arg) \in Seq(Events) /\ Reports(Opening(reader, arg)) = <<>>
      BY <1>2, EmittedTypes, ReportsOf
    <3>2. Reports(log') = Reports(log) \o <<>>
      BY <1>2, <2>1, <3>1, ReportsConcat
    <3> QED BY <1>8, <3>2 DEF Seen
  <2>6. Suits(f)
    BY <1>2, <2>1, <2>2, OpenedSuits DEF reader
  <2>7. PendingIn(f) = ListOf(NamedFrom(items, 1), f.reader = "dir") /\ PendingIn(f) \in Seq(Tasks)
    BY <2>2, <2>3, PendingInType DEF ItemsOf
  <2>8. InHand' = IF IsBlank(f) THEN <<Task(arg, MayDrop(stack))>> ELSE <<>>
    BY <2>1, <2>2, <2>3 DEF InHand
  <2>9. Todo' = InHand' \o Pending(stack')
    BY DEF Todo
  <2> DEFINE x == Task(arg, MayDrop(stack))
             rest == Pending(stack)
  <2>10. x \in Tasks /\ x.doc = arg
    BY <1>2, TaskType
  <2>11. CASE IsBlank(f)
    <3>1. items = <<>>
      BY <2>2, <2>11 DEF IsBlank, ItemsOf
    <3>2. <<>> \in Lines /\ Len(<<>>) + 1 = 1
      BY <1>2, <3>1, DocumentLines
    <3>3. NamedFrom(items, 1) = <<>>
      BY <3>1, <3>2, NamedFromNext
    <3>4. PendingIn(f) = <<>>
      BY <2>7, <3>3, ListOfNext
    <3>5. Pending(stack') = Pending(stack)
      BY <2>4, <3>4, ConcatEmptySeq
    <3>6. Todo' = Todo
      BY <1>6, <2>8, <2>9, <2>11, <3>5
    <3> QED BY <2>5, <3>6 DEF Accounts
  <2>12. CASE ~IsBlank(f)
    <3>1. arg \in Playlists
      BY <2>2, <2>6, <2>12 DEF Suits
    <3>2. (f.reader = "dir") = (arg \in Directories)
      BY <1>2, <2>2, <2>6 DEF Suits, Directories
    <3>3. Todo' = PendingIn(f) \o rest
      <4>1. PendingIn(f) \o rest \in Seq(Tasks)
        BY <2>4, <2>7, ConcatProperties
      <4>2. <<>> \o (PendingIn(f) \o rest) = PendingIn(f) \o rest
        BY <4>1, ConcatEmptySeq
      <4> QED BY <2>4, <2>8, <2>9, <2>12, <4>2
    <3>4. Todo' = ListOf(NamedFrom(World[x.doc].items, 1), x.doc \in Directories) \o rest
      BY <2>7, <2>10, <3>2, <3>3
    <3>5. Todo = <<x>> \o rest
      BY <1>6
    <3> HIDE DEF x, rest
    <3>6. x.doc \in Playlists /\ rest \in Seq(Tasks)
      BY <2>4, <2>10, <3>1 DEF rest
    <3> QED BY <2>5, <2>10, <3>4, <3>5, <3>6 DEF Accounts
  <2> QED BY <2>11, <2>12
<1> QED BY <1>1, <1>10, <1>11, <1>12, <1>13, <1>14, <1>15, <1>16

\* What a handler names from the item it is at: the item's document, when it
\* names one, and what it names after it.
LEMMA PendingAtItem ==
  ASSUME NEW f \in NotedFrames, NEW g \in NotedFrames, ~AtEnd(f), f.waits = FALSE,
         g.doc = f.doc, g.reader = f.reader, (IF g.waits THEN g.i + 1 ELSE g.i) = f.i + 1
  PROVE  /\ ItemsOf(f)[f.i].op \notin Naming \cup {"stop"} => PendingIn(g) = PendingIn(f)
         /\ ItemsOf(f)[f.i].op \in Naming =>
              PendingIn(f) = <<Task(ItemsOf(f)[f.i].to, f.reader = "dir")>> \o PendingIn(g)
         /\ ItemsOf(f)[f.i].op = "stop" => PendingIn(f) = <<>>
<1> DEFINE items == ItemsOf(f)
           it == items[f.i]
           rest == NamedFrom(items, f.i + 1)
           loose == f.reader = "dir"
<1>1. f \in Frames /\ f.doc \in Docs /\ f.i \in Nat \ {0} /\ f.i \in 1..Len(items) /\ items \in Lines
  <2>1. f \in Frames
    BY DEF NotedFrames
  <2>2. f.doc \in Docs /\ f.i \in Nat \ {0} /\ World[f.doc].items \in Seq(Items) /\ f.i \in DOMAIN World[f.doc].items
    BY <2>1, ItemAt
  <2> QED BY <2>1, <2>2, DocumentLines DEF ItemsOf
<1>2. NamedFrom(items, f.i) = NamedThen(it, rest)
  BY <1>1, NamedFromNext
<1>3. rest \in Seq(Docs)
  <2>1. Len(items) \in Nat
    BY <1>1, NamedFromNext
  <2>2. f.i + 1 \in 1..(Len(items) + 1)
    BY <1>1, <2>1
  <2> QED BY <1>1, <2>2, NamedFromNext
<1>4. PendingIn(g) = ListOf(rest, loose)
  <2>1. ItemsOf(g) = items
    BY DEF ItemsOf
  <2> QED BY <2>1, PendingInType
<1>5. PendingIn(f) = ListOf(NamedThen(it, rest), loose)
  BY <1>2, PendingInType
<1>6. it.op \in Naming => it.to \in Docs
  BY <1>1 DEF Lines
<1>7. loose \in BOOLEAN
  OBVIOUS
<1>8. "stop" \notin Naming
  BY DEF Naming
<1> HIDE DEF rest, it, items, loose
<1>9. it.op \notin Naming \cup {"stop"} => PendingIn(g) = PendingIn(f)
  BY <1>4, <1>5 DEF NamedThen
<1>10. it.op \in Naming => PendingIn(f) = <<Task(it.to, loose)>> \o PendingIn(g)
  <2> SUFFICES ASSUME it.op \in Naming PROVE PendingIn(f) = <<Task(it.to, loose)>> \o PendingIn(g)
    OBVIOUS
  <2>1. NamedThen(it, rest) = <<it.to>> \o rest
    BY <1>8 DEF NamedThen
  <2>2. ListOf(<<it.to>> \o rest, loose) = <<Task(it.to, loose)>> \o ListOf(rest, loose)
    BY <1>3, <1>6, <1>7, ListOfNext
  <2> QED BY <1>4, <1>5, <2>1, <2>2
<1>11. it.op = "stop" => PendingIn(f) = <<>>
  BY <1>5, ListOfNext DEF NamedThen
<1> QED BY <1>9, <1>10, <1>11 DEF it, items, loose

\* Past its last item a handler names nothing.
LEMMA PendingAtEnd ==
  ASSUME NEW f \in NotedFrames, f.waits = FALSE, f.i = Len(ItemsOf(f)) + 1
  PROVE  PendingIn(f) = <<>>
<1>1. ItemsOf(f) \in Lines
  BY DocumentLines DEF ItemsOf, NotedFrames, Frames
<1>2. NamedFrom(ItemsOf(f), f.i) = <<>>
  BY <1>1, NamedFromNext
<1>3. PendingIn(f) = ListOf(<<>>, f.reader = "dir")
  BY <1>2, PendingInType
<1> QED BY <1>3, ListOfNext

\* What the innermost handler and those below it have to name.
LEMMA PendingTop ==
  ASSUME NotesAreFirst, stack # <<>>
  PROVE  /\ Top \in NotedFrames /\ Top \in Frames /\ Below \in Seq(NotedFrames)
         /\ PendingIn(Top) \in Seq(Tasks) /\ Pending(Below) \in Seq(Tasks)
         /\ Pending(stack) = PendingIn(Top) \o Pending(Below)
<1>1. stack \in Seq(NotedFrames) /\ Top \in NotedFrames /\ Top \in Frames
  BY TopIsNoted DEF NotesAreFirst
<1> DEFINE n == Len(stack)
<1>2. n \in Nat \ {0} /\ Top = stack[n]
  BY <1>1 DEF Top
<1>3. Below \in Seq(NotedFrames) /\ Len(Below) = n - 1 /\ \A k \in 1..(n - 1) : Below[k] = stack[k]
  BY <1>1, <1>2, PrefixType DEF Below
<1> HIDE DEF n
<1>4. Append(Below, Top) \in Seq(NotedFrames) /\ Len(Append(Below, Top)) = n
  BY <1>1, <1>2, <1>3
<1>5. \A k \in 1..n : Append(Below, Top)[k] = stack[k]
  BY <1>1, <1>2, <1>3
<1>6. stack = Append(Below, Top)
  BY <1>1, <1>4, <1>5, SeqEqual DEF n
<1> QED BY <1>1, <1>3, <1>6, PendingAppend, PendingInType

\* The innermost handler goes on.
LEMMA GoesOn ==
  ASSUME NotesAreFirst, NotesAreFirst', stack # <<>>, NEW g \in Frames, Replace(g),
         g.doc = Top.doc, g.reader = Top.reader, ~AtEnd(Top)
  PROVE  /\ g \in NotedFrames /\ Pending(stack') = PendingIn(g) \o Pending(Below)
         /\ PendingIn(g) \in Seq(Tasks)
         /\ pc = "run" => Todo = PendingIn(Top) \o Pending(Below)
         /\ pc' = "run" => Todo' = PendingIn(g) \o Pending(Below)
         /\ pc' = "call" => Todo' = <<Task(arg', g.reader = "dir")>> \o (PendingIn(g) \o Pending(Below))
<1>1. /\ Top \in NotedFrames /\ Top \in Frames /\ Below \in Seq(NotedFrames)
      /\ PendingIn(Top) \in Seq(Tasks) /\ Pending(Below) \in Seq(Tasks)
      /\ Pending(stack) = PendingIn(Top) \o Pending(Below)
  BY PendingTop
<1>2. stack \in Seq(Frames)
  BY DEF NotesAreFirst, NotedFrames
<1>3. stack' = Append(Below, g) /\ stack' # <<>> /\ stack'[Len(stack')] = g
  BY <1>2, ReplacedIs
<1>4. g \in NotedFrames
  BY <1>3 DEF NotesAreFirst
<1>5. PendingIn(g) \in Seq(Tasks) /\ Pending(stack') = PendingIn(g) \o Pending(Below)
  BY <1>1, <1>3, <1>4, PendingAppend, PendingInType
<1>6. ItemsOf(Top) # <<>> /\ ItemsOf(g) # <<>>
  <2>1. World[Top.doc].items \in Seq(Items) /\ Top.i \in DOMAIN World[Top.doc].items
    BY <1>1, ItemAt
  <2>2. World[Top.doc].items # <<>>
    BY <2>1
  <2> QED BY <2>2 DEF ItemsOf
<1>7. Top' = g
  BY <1>3 DEF Top
<1>8. pc = "run" => InHand = <<>>
  BY <1>6 DEF InHand, IsBlank
<1>9. pc' = "run" => InHand' = <<>>
  BY <1>6, <1>7 DEF InHand, IsBlank
<1>10. pc' = "call" => InHand' = <<Task(arg', g.reader = "dir")>>
  BY <1>3 DEF InHand, MayDrop
<1> DEFINE before == PendingIn(Top) \o Pending(Below)
           after == PendingIn(g) \o Pending(Below)
<1>11. before \in Seq(Tasks) /\ after \in Seq(Tasks)
  BY <1>1, <1>5, ConcatProperties
<1>12. <<>> \o before = before /\ <<>> \o after = after
  BY <1>11, ConcatEmptySeq
<1>13. Todo = InHand \o before /\ Todo' = InHand' \o after
  BY <1>1, <1>5 DEF Todo
<1> HIDE DEF before, after
<1>14. /\ pc = "run" => Todo = before
       /\ pc' = "run" => Todo' = after
       /\ pc' = "call" => Todo' = <<Task(arg', g.reader = "dir")>> \o after
  BY <1>8, <1>9, <1>10, <1>12, <1>13
<1> QED BY <1>4, <1>5, <1>14 DEF before, after

\* An item that names nothing is passed by.
LEMMA PassAccounts ==
  ASSUME NotesAreFirst, NotesAreFirst', stack # <<>>, NEW g \in Frames, Replace(g),
         pc = "run", pc' = "run", ~AtEnd(Top), g.doc = Top.doc, g.reader = Top.reader,
         PendingIn(g) = PendingIn(Top), Seen' = Seen
  PROVE  Accounts(Todo, Seen, Todo', Seen')
<1>1. Todo = PendingIn(Top) \o Pending(Below) /\ Todo' = PendingIn(g) \o Pending(Below)
  BY GoesOn
<1> QED BY <1>1 DEF Accounts

\* An item that is handed to parse_internal is in hand.
LEMMA CallAccounts ==
  ASSUME NotesAreFirst, NotesAreFirst', stack # <<>>, NEW g \in Frames, Replace(g),
         pc = "run", pc' = "call", ~AtEnd(Top), g.doc = Top.doc, g.reader = Top.reader,
         arg' \in Docs, PendingIn(Top) = <<Task(arg', Top.reader = "dir")>> \o PendingIn(g), Seen' = Seen
  PROVE  Accounts(Todo, Seen, Todo', Seen')
<1> DEFINE x == Task(arg', Top.reader = "dir")
<1>1. /\ Todo = PendingIn(Top) \o Pending(Below) /\ PendingIn(g) \in Seq(Tasks)
      /\ Todo' = <<x>> \o (PendingIn(g) \o Pending(Below))
  BY GoesOn
<1>2. x \in Tasks
  BY DEF Task, Tasks
<1>3. Pending(Below) \in Seq(Tasks)
  BY PendingTop
<1>4. PendingIn(Top) = <<x>> \o PendingIn(g)
  OBVIOUS
<1> HIDE DEF x
<1>5. <<x>> \in Seq(Tasks)
  BY <1>2
<1>6. (<<x>> \o PendingIn(g)) \o Pending(Below) = <<x>> \o (PendingIn(g) \o Pending(Below))
  BY <1>1, <1>3, <1>5, ConcatAssociative
<1>7. Todo' = Todo
  BY <1>1, <1>4, <1>6
<1> QED BY <1>7 DEF Accounts

\* The first task is reported.
LEMMA ReportAccounts ==
  ASSUME NEW x \in Tasks, NEW a \in Seq(Tasks), NEW b \in Seq(Tasks), LogTypes,
         Todo = <<x>> \o (a \o b), Todo' = a \o b,
         NEW title \in Titles, log' = Append(log, Entry(x.doc, title))
  PROVE  Accounts(Todo, Seen, Todo', Seen')
<1>1. x.doc \in Docs
  BY DEF Tasks
<1>2. /\ Entry(x.doc, title) \in Events /\ Entry(x.doc, title).sig = "entry-parsed"
      /\ Entry(x.doc, title).uri = x.doc
  BY <1>1, SignalTypes DEF Entry, Event, EntryEvents
<1>3. Reports(Append(log, Entry(x.doc, title))) = WithReport(Reports(log), Entry(x.doc, title))
  BY <1>2, ReportsAppend DEF LogTypes
<1>4. Seen' = Append(Seen, x.doc)
  BY <1>2, <1>3 DEF Seen, WithReport
<1>5. a \o b \in Seq(Tasks)
  BY ConcatProperties
<1> QED BY <1>4, <1>5 DEF Accounts

\* An item the handler adds itself is reported.
LEMMA AddAccounts ==
  ASSUME IInv, NotesAreFirst, NotesAreFirst', LogTypes, pc = "run", ~AtEnd(Top), It.op \in Naming,
         NEW title \in Titles, Emit(Entry(It.to, title))
  PROVE  Accounts(Todo, Seen, Todo', Seen')
<1> DEFINE g == Advanced(Top)
           x == Task(It.to, Top.reader = "dir")
<1>1. stack # <<>> /\ Top \in NotedFrames /\ Top \in Frames /\ Top.waits = FALSE
  BY TopIsNoted DEF IInv, HandlersWait, Top
<1>2. /\ Replace(g) /\ log' = Append(log, Entry(It.to, title)) /\ pc' = "run"
  BY DEF Emit
<1>3. g \in Frames /\ g.doc = Top.doc /\ g.reader = Top.reader /\ g.i = Top.i + 1 /\ g.waits = FALSE
  <2>1. g \in Frames
    BY <1>1, AdvancedType, NoNoteType
  <2> QED BY <1>1, <2>1 DEF Advanced, Frames
<1> HIDE DEF g
<1>4. /\ g \in NotedFrames /\ PendingIn(g) \in Seq(Tasks)
      /\ Todo = PendingIn(Top) \o Pending(Below) /\ Todo' = PendingIn(g) \o Pending(Below)
  BY <1>1, <1>2, <1>3, GoesOn
<1>5. PendingIn(Top) = <<x>> \o PendingIn(g)
  BY <1>1, <1>3, <1>4, PendingAtItem DEF It
<1>6. It.to \in Docs
  <2>1. /\ ItemsOf(Top)[Top.i] \in Items
        /\ ItemsOf(Top)[Top.i].op \in {"link", "device", "add"} => ItemsOf(Top)[Top.i].to \in Docs
    BY <1>1, ItemNames
  <2> QED BY <2>1 DEF It, Naming
<1>7. x \in Tasks /\ x.doc = It.to
  BY <1>6 DEF Task, Tasks
<1>8. Pending(Below) \in Seq(Tasks)
  BY <1>1, PendingTop
<1> HIDE DEF x
<1>9. <<x>> \in Seq(Tasks)
  BY <1>7
<1>10. Todo = <<x>> \o (PendingIn(g) \o Pending(Below))
  BY <1>4, <1>5, <1>8, <1>9, ConcatAssociative
<1> QED BY <1>2, <1>4, <1>7, <1>8, <1>10, ReportAccounts

\* The handler whose call is over reports the item's document if that is left to
\* it.
LEMMA ReturnAccounts ==
  ASSUME IInv, NotesAreFirst, NotesAreFirst', LogTypes, ChildReturned
  PROVE  Accounts(Todo, Seen, Todo', Seen')
<1> DEFINE g == [Advanced(Top) EXCEPT !.waits = FALSE, !.saved = FALSE]
           x == Task(It.to, MayDrop(stack))
<1>1. /\ stack # <<>> /\ Top \in Frames /\ ~AtEnd(Top) /\ It \in Items /\ It.to \in Docs
      /\ pc = "back" /\ pc' = "run" /\ Replace(g) /\ Top \in NotedFrames
      /\ log' = IF Reported(Top.reader) THEN Append(log, Entry(It.to, TitleOf(Top))) ELSE log
  BY WaitingItem, TopIsNoted DEF ChildReturned
<1>2. Top.waits = TRUE
  BY <1>1 DEF IInv, ControlTypes, HandlersWait, Top
<1>3. g \in Frames /\ g.doc = Top.doc /\ g.reader = Top.reader /\ g.i = Top.i + 1 /\ g.waits = FALSE
  <2>1. Advanced(Top) \in Frames
    BY <1>1, AdvancedType, NoNoteType
  <2> QED BY <1>1, <2>1 DEF Advanced, Frames
<1> HIDE DEF g
<1>4. g \in NotedFrames /\ PendingIn(g) \in Seq(Tasks) /\ Todo' = PendingIn(g) \o Pending(Below)
  BY <1>1, <1>3, GoesOn
<1>5. PendingIn(g) = PendingIn(Top)
  <2>1. ItemsOf(g) = ItemsOf(Top)
    BY <1>3 DEF ItemsOf
  <2> QED BY <1>2, <1>3, <2>1 DEF PendingIn
<1>6. Pending(Below) \in Seq(Tasks) /\ Pending(stack) = PendingIn(Top) \o Pending(Below)
  BY <1>1, PendingTop
<1>7. x \in Tasks /\ x.doc = It.to
  BY <1>1, TaskType
<1>8. Todo = InHand \o (PendingIn(g) \o Pending(Below))
  BY <1>5, <1>6 DEF Todo
<1>9. InHand = IF Reported(Top.reader) THEN <<x>> ELSE <<>>
  BY <1>1 DEF InHand
<1>10. TitleOf(Top) \in Titles
  BY <1>1 DEF TitleOf, Frames, Notes, Items
<1> HIDE DEF x
<1>11. CASE Reported(Top.reader)
  BY <1>1, <1>4, <1>6, <1>7, <1>8, <1>9, <1>10, <1>11, ReportAccounts
<1>12. CASE ~Reported(Top.reader)
  <2> DEFINE rest == PendingIn(g) \o Pending(Below)
  <2>1. rest \in Seq(Tasks)
    BY <1>4, <1>6, ConcatProperties
  <2>2. Todo = <<>> \o rest
    BY <1>8, <1>9, <1>12
  <2> HIDE DEF rest
  <2>3. Todo = rest
    BY <2>1, <2>2, ConcatEmptySeq
  <2>4. Todo' = Todo
    BY <1>4, <2>3 DEF rest
  <2>5. Seen' = Seen
    BY <1>1, <1>12 DEF Seen
  <2> QED BY <2>4, <2>5 DEF Accounts
<1> QED BY <1>11, <1>12

\* A handler that is through has accounted for what its document names; one
\* that met no line is accounted for as a document that was not read.
LEMMA LeaveAccounts ==
  ASSUME IInv, IInv', NotesAreFirst, NotesAreFirst', LogTypes, LinkInv, Leave
  PROVE  Accounts(Todo, Seen, Todo', Seen')
<1> DEFINE u == Top.doc
           r == ReaderResult(Top.reader, ItemsOf(Top))
           closing == Closing(Top.reader, Top.doc)
<1>1. /\ stack # <<>> /\ pc = "run" /\ AtEnd(Top) /\ stack \in Seq(Frames) /\ stack' = Below
      /\ ThroughTail(u, r, Top.type, closing)
      /\ pc' = IF Len(stack) = 1 THEN "done" ELSE "back"
  BY DEF Leave, IInv, HandlersWait, ControlTypes
<1>2. /\ Top \in NotedFrames /\ Top \in Frames /\ Below \in Seq(NotedFrames)
      /\ PendingIn(Top) \in Seq(Tasks) /\ Pending(Below) \in Seq(Tasks)
      /\ Pending(stack) = PendingIn(Top) \o Pending(Below)
  BY <1>1, PendingTop
<1>3. u \in Docs /\ Top.i \in Nat \ {0} /\ Top.waits = FALSE /\ Top.i <= Len(ItemsOf(Top)) + 1
  <2>1. Top.waits = FALSE
    BY <1>1 DEF IInv, HandlersWait, Top
  <2> QED BY <1>2, <2>1 DEF Frames, NotedFrames, ItemsOf
<1>4. PendingIn(Top) = <<>>
  <2>1. ItemsOf(Top) \in Lines
    BY <1>3, DocumentLines DEF ItemsOf
  <2>2. Len(ItemsOf(Top)) \in Nat
    BY <2>1, NamedFromNext
  <2>3. Top.i = Len(ItemsOf(Top)) + 1
    BY <1>1, <1>3, <2>2 DEF AtEnd
  <2> QED BY <1>2, <1>3, <2>3, PendingAtEnd
<1>5. Pending(stack) = Pending(Below)
  BY <1>2, <1>4, ConcatEmptySeq
<1>6. Linked(Below) /\ Calls(Below, u)
  BY <1>1, LinkedBelow DEF LinkInv
<1>7. pc' = IF stack' = <<>> THEN "done" ELSE "back"
  <2>1. Len(Below) = Len(stack) - 1
    <3>1. Len(stack) \in Nat \ {0}
      BY <1>1
    <3> QED BY <1>1, <3>1, PrefixType DEF Below
  <2>2. Below = <<>> <=> Len(Below) = 0
    BY <1>2
  <2>3. Len(stack) \in Nat
    BY <1>1
  <2> QED BY <1>1, <2>1, <2>2, <2>3
<1>8. closing \in Seq(Events) /\ Reports(closing) = <<>>
  BY <1>3, EmittedTypes, ReportsOf
<1>9. r = IF IsBlank(Top) THEN UNHANDLED ELSE SUCCESS
  BY DEF ReaderResult, IsBlank
<1>10. UNHANDLED # SUCCESS
  BY DEF UNHANDLED, SUCCESS
<1> HIDE DEF u, r, closing
<1>11. /\ Seen \in Seq(Docs)
       /\ r = SUCCESS => ret' = SUCCESS /\ Seen' = Seen \o Reports(closing)
       /\ r # SUCCESS => \/ ret' = SUCCESS /\ Seen' = Append(Seen \o Reports(closing), u)
                         \/ ret' # SUCCESS /\ Seen' = Seen \o Reports(closing)
  BY <1>1, <1>3, <1>8, TailAccounts
<1>12. Seen \o Reports(closing) = Seen
  BY <1>8, <1>11, ConcatEmptySeq
<1>13. CASE IsBlank(Top)
  <2>1. InHand = <<Task(u, MayDrop(Below))>>
    BY <1>1, <1>13 DEF InHand, u
  <2>2. Todo = <<Task(u, MayDrop(stack'))>> \o Pending(stack')
    BY <1>1, <1>5, <2>1 DEF Todo
  <2>3. stack' \in Seq(NotedFrames) /\ Calls(stack', u)
    BY <1>1, <1>2, <1>6
  <2> QED BY <1>3, <1>7, <1>9, <1>10, <1>11, <1>12, <1>13, <2>2, <2>3, AnswerAccounts
<1>14. CASE ~IsBlank(Top)
  <2>1. InHand = <<>>
    BY <1>1, <1>14 DEF InHand
  <2>2. ret' = SUCCESS /\ Seen' = Seen
    BY <1>9, <1>11, <1>12, <1>14
  <2>3. InHand' = <<>>
    <3>1. ~Reported(Top.reader)'
      BY <2>2 DEF Reported, SUCCESS, UNHANDLED
    <3> QED BY <1>7, <3>1 DEF InHand
  <2>4. Pending(stack)' = Pending(stack)
    BY <1>1, <1>5
  <2>5. Todo' = Todo
    BY <2>1, <2>3, <2>4 DEF Todo
  <2> QED BY <2>2, <2>5 DEF Accounts
<1> QED BY <1>13, <1>14

\* The loops of the handlers account for the items one by one.
LEMMA LoopAccounts ==
  ASSUME IInv, IInv', NotesAreFirst, NotesAreFirst', LogTypes, LinkInv, Loop
  PROVE  Accounts(Todo, Seen, Todo', Seen')
<1> USE DEF At, Running
<1>1. /\ stack \in Seq(Frames) /\ log \in Seq(Events) /\ fallback \in BOOLEAN
      /\ pc = "run" => /\ stack # <<>> /\ Top \in NotedFrames /\ Top \in Frames
                       /\ Top.doc \in Docs /\ Top.waits = FALSE
  <2>1. pc = "run" => stack # <<>> /\ Top \in NotedFrames /\ Top \in Frames /\ Top.waits = FALSE
    BY TopIsNoted DEF IInv, HandlersWait, Top
  <2> QED BY <2>1 DEF IInv, ControlTypes, LogTypes, Frames
<1>2. pc = "run" /\ ~AtEnd(Top) =>
        /\ It.title \in Titles /\ Top.note.title \in Titles /\ It \in Items
        /\ It.op \in {"link", "device", "add"} => It.to \in Docs
  <2> SUFFICES ASSUME pc = "run", ~AtEnd(Top)
               PROVE  /\ It.title \in Titles /\ Top.note.title \in Titles /\ It \in Items
                      /\ It.op \in {"link", "device", "add"} => It.to \in Docs
    OBVIOUS
  <2>1. /\ ItemsOf(Top)[Top.i] \in Items
        /\ ItemsOf(Top)[Top.i].op \in {"link", "device", "add"} => ItemsOf(Top)[Top.i].to \in Docs
    BY <1>1, ItemNames
  <2>2. It \in Items /\ (It.op \in {"link", "device", "add"} => It.to \in Docs)
    BY <2>1 DEF It
  <2> QED BY <1>1, <2>2 DEF Items, Frames, Notes
<1>3. Top \in Frames => /\ Advanced(Top) \in Frames /\ Advanced(Top).doc = Top.doc
                        /\ Advanced(Top).reader = Top.reader /\ Advanced(Top).i = Top.i + 1
                        /\ Advanced(Top).waits = Top.waits
  <2>1. Top \in Frames => Advanced(Top) \in Frames
    BY AdvancedType, NoNoteType
  <2> QED BY <2>1 DEF Advanced, Frames
\* The handler passes an item that names nothing.
<1>4. ASSUME pc = "run", pc' = pc, ~AtEnd(Top), It.op \notin Naming \cup {"stop"}, Seen' = Seen,
             NEW f \in Frames, Replace(f), f.doc = Top.doc, f.reader = Top.reader,
             f.i = Top.i + 1, f.waits = FALSE
      PROVE  Accounts(Todo, Seen, Todo', Seen')
  <2>1. f \in NotedFrames
    BY <1>1, <1>4, GoesOn
  <2>2. PendingIn(f) = PendingIn(Top)
    BY <1>1, <1>4, <2>1, PendingAtItem DEF It
  <2> QED BY <1>1, <1>4, <2>2, PassAccounts
\* The handler calls parse_internal.
<1>5. ASSUME pc = "run", ~AtEnd(Top), It.op \in {"link", "device"},
             NEW f \in {Top, [Top EXCEPT !.saved = fallback]}, Call(f)
      PROVE  Accounts(Todo, Seen, Todo', Seen')
  <2> DEFINE g == [f EXCEPT !.waits = TRUE]
  <2>1. /\ g \in Frames /\ g.doc = Top.doc /\ g.reader = Top.reader /\ g.i = Top.i
        /\ g.waits = TRUE
    BY <1>1, <1>5 DEF Frames
  <2>2. Replace(g) /\ pc' = "call" /\ arg' = It.to /\ log' = log
    BY <1>5 DEF Call
  <2> HIDE DEF g
  <2>3. g \in NotedFrames
    BY <1>1, <1>5, <2>1, <2>2, GoesOn
  <2>4. PendingIn(Top) = <<Task(It.to, Top.reader = "dir")>> \o PendingIn(g)
    BY <1>1, <1>5, <2>1, <2>3, PendingAtItem DEF It, Naming
  <2>5. Seen' = Seen
    BY <2>2 DEF Seen
  <2> QED BY <1>1, <1>2, <1>5, <2>1, <2>2, <2>4, <2>5, CallAccounts
<1>6. CASE M3uNote
  <2> DEFINE note == IF It.op = "note" /\ ~Top.note.set
                       THEN [set |-> TRUE, live |-> It.live, title |-> It.title]
                       ELSE Top.note
             f == [Top EXCEPT !.i = @ + 1,
                     !.note = IF It.op = "note" /\ ~@.set
                                THEN [set |-> TRUE, live |-> It.live, title |-> It.title]
                                ELSE @]
  <2>1. /\ pc = "run" /\ pc' = pc /\ ~AtEnd(Top) /\ Replace(f) /\ log' = log
        /\ It.op \in {"note", "skip"}
    BY <1>6 DEF M3uNote
  <2>2. note \in Notes
    BY <1>1, <1>2, <2>1 DEF Items, Notes, Frames
  <2>3. f = [Top EXCEPT !.i = @ + 1, !.note = note]
    OBVIOUS
  <2> HIDE DEF note, f
  <2>4. f \in Frames /\ f.reader = Top.reader /\ f.waits = Top.waits
    BY <1>1, <2>1, <2>2, <2>3, NoteTakenType
  <2>5. f.doc = Top.doc /\ f.i = Top.i + 1
    BY <1>1, <2>1, <2>3 DEF Frames
  <2>6. It.op \notin Naming \cup {"stop"} /\ Seen' = Seen
    BY <2>1 DEF Naming, Seen
  <2> QED BY <1>1, <1>4, <2>1, <2>4, <2>5, <2>6
<1>7. CASE M3uAdd
  BY <1>2, <1>7, AddAccounts DEF M3uAdd, Naming
<1>8. CASE PlsAdd
  BY <1>2, <1>8, AddAccounts DEF PlsAdd, Naming
<1>9. CASE DesktopAdd
  BY <1>2, <1>9, AddAccounts DEF DesktopAdd, Naming
<1>10. CASE M3uFollow \/ Follow \/ DesktopFollow \/ PlsFollow
  BY <1>5, <1>10 DEF M3uFollow, Follow, DesktopFollow, PlsFollow
<1>11. CASE Skip \/ AsxTitle \/ AsxEnd
  <2> DEFINE f == Advanced(Top)
  <2>1. /\ pc = "run" /\ pc' = pc /\ ~AtEnd(Top) /\ Replace(f)
        /\ It.op \in {"skip", "partial", "title", "end"}
    BY <1>11 DEF Skip, AsxTitle, AsxEnd, Pass, Emit
  <2>2. \/ log' = log
        \/ log' = Append(log, Started(Top.doc))
        \/ log' = Append(log, Ended(Top.doc))
    BY <1>11 DEF Skip, AsxTitle, AsxEnd, Pass, Emit
  <2>3. Seen' = Seen
    <3>1. /\ Started(Top.doc) \in Events /\ Started(Top.doc).sig = "playlist-started"
          /\ Ended(Top.doc) \in Events /\ Ended(Top.doc).sig = "playlist-ended"
      BY <1>1, <2>1, SignalTypes
    <3>2. \A e \in Events : Reports(Append(log, e)) = WithReport(Reports(log), e)
      BY <1>1, ReportsAppend
    <3>3. \A e \in Events : e.sig # "entry-parsed" => Reports(Append(log, e)) = Reports(log)
      BY <3>2 DEF WithReport
    <3>4. /\ Reports(Append(log, Started(Top.doc))) = Reports(log)
          /\ Reports(Append(log, Ended(Top.doc))) = Reports(log)
      BY <3>1, <3>3
    <3>5. Reports(log') = Reports(log)
      BY <2>2, <3>4
    <3> QED BY <3>5 DEF Seen
  <2>4. f \in Frames /\ f.doc = Top.doc /\ f.reader = Top.reader /\ f.i = Top.i + 1 /\ f.waits = FALSE
    BY <1>1, <1>3, <2>1
  <2>5. It.op \notin Naming \cup {"stop"}
    BY <2>1 DEF Naming
  <2> HIDE DEF f
  <2> QED BY <1>4, <2>1, <2>3, <2>4, <2>5
<1>12. CASE RamStop
  <2> DEFINE f == [Top EXCEPT !.i = Len(ItemsOf(Top)) + 1]
  <2>1. pc = "run" /\ pc' = pc /\ ~AtEnd(Top) /\ It.op = "stop" /\ Replace(f) /\ log' = log
    BY <1>12 DEF RamStop
  <2>2. Len(ItemsOf(Top)) \in Nat
    BY <1>1, <2>1, ItemAt DEF ItemsOf
  <2>3. /\ f \in Frames /\ f.doc = Top.doc /\ f.reader = Top.reader /\ f.waits = FALSE
        /\ f.i = Len(ItemsOf(Top)) + 1
    <3> DEFINE n == Len(ItemsOf(Top)) + 1
    <3>1. n \in Nat \ {0}
      BY <2>2
    <3>2. f = [Top EXCEPT !.i = n]
      OBVIOUS
    <3> HIDE DEF n, f
    <3>3. Top \in Frames
      BY <1>1, <2>1
    <3>4. f \in Frames
      BY <3>1, <3>2, <3>3 DEF Frames
    <3>5. f.doc = Top.doc /\ f.reader = Top.reader /\ f.waits = Top.waits /\ f.i = n
      BY <3>2, <3>3 DEF Frames
    <3>6. f.waits = FALSE
      BY <1>1, <2>1, <3>5
    <3> QED BY <3>4, <3>5, <3>6 DEF n
  <2> HIDE DEF f
  <2>4. f \in NotedFrames
    BY <1>1, <2>1, <2>3, GoesOn
  <2>5. PendingIn(f) = <<>>
    <3>1. ItemsOf(f) = ItemsOf(Top)
      BY <2>3 DEF ItemsOf
    <3> QED BY <2>3, <2>4, <3>1, PendingAtEnd
  <2>6. PendingIn(Top) = <<>>
    <3> DEFINE g == Advanced(Top)
    <3>1. /\ ItemsOf(Top) \in Lines /\ Top.i \in 1..Len(ItemsOf(Top))
      <4>1. World[Top.doc].items \in Seq(Items) /\ Top.i \in DOMAIN World[Top.doc].items
        BY <1>1, <2>1, ItemAt
      <4> QED BY <1>1, <2>1, <4>1, DocumentLines DEF ItemsOf
    <3>2. NamedFrom(ItemsOf(Top), Top.i) = NamedThen(It, NamedFrom(ItemsOf(Top), Top.i + 1))
      BY <3>1, NamedFromNext DEF It
    <3>3. NamedFrom(ItemsOf(Top), Top.i) = <<>>
      BY <2>1, <3>2 DEF NamedThen
    <3>4. PendingIn(Top) = ListOf(<<>>, Top.reader = "dir")
      BY <1>1, <2>1, <3>3, PendingInType
    <3> QED BY <3>4, ListOfNext
  <2>7. Seen' = Seen
    BY <2>1 DEF Seen
  <2> QED BY <1>1, <2>1, <2>3, <2>5, <2>6, <2>7, PassAccounts
<1>13. CASE ChildReturned
  BY <1>13, ReturnAccounts
<1>14. CASE Leave
  BY <1>14, LeaveAccounts
<1> QED BY <1>6, <1>7, <1>8, <1>9, <1>10, <1>11, <1>12, <1>13, <1>14 DEF Loop

\* Every step accounts for the documents.
LEMMA NextAccounts ==
  ASSUME NoPla
  PROVE  IInv /\ IInv' /\ NotesAreFirst /\ NotesAreFirst' /\ LogTypes /\ LinkInv /\ [Next]_vars
           => Accounts(Todo, Seen, Todo', Seen')
<1> SUFFICES ASSUME IInv, IInv', NotesAreFirst, NotesAreFirst', LogTypes, LinkInv, [Next]_vars
             PROVE  Accounts(Todo, Seen, Todo', Seen')
  OBVIOUS
<1>1. CASE Dispatch
  BY <1>1, DispatchAccounts
<1>2. CASE Loop
  BY <1>2, LoopAccounts
<1>3. CASE Parse
  <2> DEFINE x == Task(root, TRUE)
             rest == <<>>
  <2>1. /\ stack = <<>> /\ stack' = <<>> /\ arg' = root /\ arg = root /\ pc = "idle"
        /\ pc' \in {"done", "call"} /\ log' = log /\ root' = root
    BY <1>3 DEF Parse, IInv, HandlersWait, LinkInv
  <2>2. Pending(<<>>) = <<>> /\ rest \in Seq(Tasks)
    BY PendingAppend
  <2>3. x \in Tasks /\ x.optional
    BY EngineAssumption, TaskType DEF LogTypes
  <2>4. InHand = <<x>> /\ (pc' = "done" => InHand' = <<>>)
    BY <2>1 DEF InHand
  <2>5. pc' = "call" => InHand' = <<x>>
    <3>1. MayDrop(stack') = TRUE
      BY <2>1 DEF MayDrop
    <3> QED BY <2>1, <3>1 DEF InHand
  <2>6. Todo = <<x>> \o rest /\ Todo' = InHand' \o rest /\ Seen' = Seen
    BY <2>1, <2>2, <2>4 DEF Todo, Seen
  <2> HIDE DEF x, rest
  <2>7. <<>> \o rest = rest
    BY <2>2, ConcatEmptySeq
  <2>8. CASE pc' = "done"
    <3>1. Todo' = rest
      BY <2>4, <2>6, <2>7, <2>8
    <3> QED BY <2>2, <2>3, <2>6, <3>1 DEF Accounts
  <2>9. CASE pc' = "call"
    BY <2>5, <2>6, <2>9 DEF Accounts
  <2> QED BY <2>1, <2>8, <2>9
<1>4. CASE Application \/ UNCHANGED vars
  <2>1. UNCHANGED <<stack, pc, arg, root, ret, log>>
    BY <1>4 DEF Application, SetProperty, AddIgnored, vars
  <2>2. Todo' = Todo /\ Seen' = Seen
    BY <2>1 DEF Todo, Seen, InHand, Top, Below, It, Reported
  <2> QED BY <2>2 DEF Accounts
<1> QED BY <1>1, <1>2, <1>3, <1>4 DEF Next, Step, Over

\* Every document a playlist names is accounted for exactly once, depth first
\* and in the order of the documents that name them, whatever the formats and
\* however deep they are nested: each is reported, opened in its place, or
\* replaced by the entries found in it; only what the application asked for and
\* the children of a directory may be left out.
THEOREM PromiseIsKept ==
  ASSUME NoPla
  PROVE  Spec => KeepsPromise
<1>1. Init => Promise!Init
  <2> SUFFICES ASSUME Init PROVE Promise!Init
    OBVIOUS
  <2>1. root \in Docs
    BY EngineAssumption DEF Init
  <2>2. InHand \o Pending(stack) = <<Task(root, TRUE)>>
    <3>1. InHand = <<Task(root, TRUE)>> /\ Pending(stack) = <<>>
      BY PendingAppend DEF Init, InHand
    <3> DEFINE t == Task(root, TRUE)
    <3>2. t \in Tasks
      BY <2>1, TaskType
    <3> SUFFICES InHand \o Pending(stack) = <<t>>
      OBVIOUS
    <3>3. InHand = <<t>> /\ Pending(stack) = <<>>
      BY <3>1
    <3> HIDE DEF t
    <3>4. <<t>> \in Seq(Tasks)
      BY <3>2
    <3> QED BY <3>3, <3>4, ConcatEmptySeq
  <2>3. Reports(log) = <<>>
    BY ReportsAppend DEF Init
  <2> QED BY <2>1, <2>2, <2>3 DEF Promise!Init, Promise!Task, Task
<1>2. IInv /\ IInv' /\ NotesAreFirst /\ NotesAreFirst' /\ LogTypes /\ LinkInv /\ [Next]_vars
        => [Promise!Next]_(Promise!vars)
  BY NextAccounts, AccountsIsPromised
<1> QED BY InitKeepsIInv, NextKeepsIInv, NextKeepsNotes, InitLogTypes, NextKeepsLogTypes,
           InitLinks, NextKeepsLink, <1>1, <1>2, PTL DEF Spec, KeepsPromise, Promise!Spec
=============================================================================
