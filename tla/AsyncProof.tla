------------------------------ MODULE AsyncProof ------------------------------
(* For any parses, kinds and numbers of signals: a parse is answered after   *)
(* all its signals, as ParseService has it, and the parser lives while it is *)
(* used.                                                                     *)
EXTENDS AsyncProperties, FiniteSetTheorems, SequenceTheorems, TLAPS

\* The types of the state but for the count of references.
Types ==
  /\ phase \in [Parses -> Phases]
  /\ sent \in [Parses -> Nat]
  /\ queue \in Seq(Sources)
  /\ running \in Seq(Parses)
  /\ outcome \in [Parses -> {"none", "result", "cancelled"}]
  /\ cancelled \subseteq Parses
  /\ heard \in [Parses -> Seq(Nat)]
  /\ answer \in [Parses -> {"none", "result", "cancelled"}]
  /\ held \in BOOLEAN

\* How far a parse is, what its task will return and what was heard of it.
Stage(p) ==
  /\ sent[p] <= Size[p]
  /\ p \in cancelled => Kind[p] = "async"
  /\ phase[p] \in {"new", "pooled"} => sent[p] = 0
  /\ outcome[p] = "result" => sent[p] = Size[p]
  /\ outcome[p] = "cancelled" => sent[p] = 0 /\ p \in cancelled
  /\ Kind[p] = "async" => (outcome[p] = "none" <=> phase[p] \notin {"returned", "left"})
  /\ Kind[p] = "sync" =>
       /\ phase[p] \in {"new", "parsing", "left"}
       /\ outcome[p] = "none"
       /\ Len(heard[p]) = sent[p]
       /\ answer[p] # "none" => sent[p] = Size[p]
  /\ answer[p] # "none" => phase[p] \in {"returned", "left"}
  /\ Len(heard[p]) <= sent[p]
  /\ answer[p] # "none" => Len(heard[p]) = sent[p]

Stages == \A p \in Parses : Stage(p)

\* What a source of the main loop says of its parse.
Waits(s) ==
  /\ Kind[s.parse] = "async"
  /\ answer[s.parse] = "none"
  /\ s.priority = 0
  /\ s.what = "task" => phase[s.parse] \in {"returned", "left"}
  /\ s.what = "signal" => s.n > Len(heard[s.parse]) /\ s.n <= sent[s.parse]

\* A source before another of the same parse is a signal, and an earlier one.
Before(s, t) ==
  s.parse = t.parse => s.what = "signal" /\ (t.what = "signal" => s.n < t.n)

Queued ==
  /\ \A i \in DOMAIN queue : Waits(queue[i])
  /\ \A i \in DOMAIN queue, j \in DOMAIN queue : i < j => Before(queue[i], queue[j])

\* The signals that were sent and not heard are in the queue.
IsSignal(s, p, n) == s.what = "signal" /\ s.parse = p /\ s.n = n

NoneLost ==
  \A p \in Parses, n \in Nat :
    Len(heard[p]) < n /\ n <= sent[p] => \E i \in DOMAIN queue : IsSignal(queue[i], p, n)

\* The calls on the main thread are those of the synchronous parses, each once,
\* and the application holds the parser in all of them.
OnMain ==
  /\ \A i \in DOMAIN running : Kind[running[i]] = "sync" /\ phase[running[i]] = "parsing"
  /\ \A i \in DOMAIN running, j \in DOMAIN running : running[i] = running[j] => i = j
  /\ \A p \in Parses :
       Kind[p] = "sync" /\ phase[p] = "parsing" => \E i \in DOMAIN running : running[i] = p
  /\ running # <<>> => held = TRUE

\* What holds the parser besides the application: the tasks until both their
\* thread and their callback are done with them, and the signals' data.
TaskHolds(p) ==
  Kind[p] = "async" /\ phase[p] # "new" /\ ~(phase[p] = "left" /\ answer[p] # "none")

Holds(w, p, n) ==
  IF w = "task" THEN n = 0 /\ TaskHolds(p) ELSE Len(heard[p]) < n /\ n <= sent[p]

Holders == {h \in {"task", "signal"} \X Parses \X Nat : Holds(h[1], h[2], h[3])}

\* Every reference has one holder.
Counted ==
  /\ IsFiniteSet(Holders)
  /\ refs = Cardinality(Holders) + (IF held = TRUE THEN 1 ELSE 0)

IInv == Types /\ Stages /\ Queued /\ NoneLost /\ OnMain /\ Counted

---------------------------------------------------------------------------
\* Lemmas about the holders

\* A new holder is one reference more.
LEMMA OneMore ==
  ASSUME Counted, NEW x, x \notin Holders, Holders' = Holders \cup {x},
         refs' = refs + 1, held' = held
  PROVE  Counted'
<1>1. IsFiniteSet(Holders') /\ Cardinality(Holders') = Cardinality(Holders) + 1
  BY FS_AddElement DEF Counted
<1>2. Cardinality(Holders) \in Nat
  BY FS_CardinalityType DEF Counted
<1>. QED BY <1>1, <1>2 DEF Counted

\* A holder that lets the parser go is one less.
LEMMA OneLess ==
  ASSUME Counted, NEW x, x \in Holders, Holders' = Holders \ {x},
         refs' = refs - 1, held' = held
  PROVE  Counted'
<1>1. IsFiniteSet(Holders') /\ Cardinality(Holders') = Cardinality(Holders) - 1
  BY FS_RemoveElement DEF Counted
<1>2. Cardinality(Holders) \in Nat
  BY FS_CardinalityType DEF Counted
<1>. QED BY <1>1, <1>2 DEF Counted

\* Nothing changes as long as no task and no signal comes or goes.
LEMMA SameHolders ==
  ASSUME \A p \in Parses : TaskHolds(p)' <=> TaskHolds(p),
         \A p \in Parses, n \in Nat :
           (Len(heard[p]) < n /\ n <= sent[p])' <=> Len(heard[p]) < n /\ n <= sent[p]
  PROVE  Holders' = Holders
BY DEF Holders, Holds

\* One holder comes.
LEMMA HolderComes ==
  ASSUME NEW w \in {"task", "signal"}, NEW p \in Parses, NEW n \in Nat,
         \A v \in {"task", "signal"}, q \in Parses, m \in Nat :
           Holds(v, q, m)' <=> Holds(v, q, m) \/ (v = w /\ q = p /\ m = n)
  PROVE  Holders' = Holders \cup {<<w, p, n>>}
BY DEF Holders

\* One holder goes.
LEMMA HolderGoes ==
  ASSUME NEW w \in {"task", "signal"}, NEW p \in Parses, NEW n \in Nat,
         \A v \in {"task", "signal"}, q \in Parses, m \in Nat :
           Holds(v, q, m)' <=> Holds(v, q, m) /\ ~(v = w /\ q = p /\ m = n)
  PROVE  Holders' = Holders \ {<<w, p, n>>}
BY DEF Holders

LEMMA IsHolder ==
  ASSUME NEW w \in {"task", "signal"}, NEW p \in Parses, NEW n \in Nat
  PROVE  <<w, p, n>> \in Holders <=> Holds(w, p, n)
BY DEF Holders

---------------------------------------------------------------------------
\* Lemmas about the queue

\* The main loop takes its oldest source, as all have the same priority.
LEMMA OldestIsNext ==
  ASSUME IInv, NEW i \in DOMAIN queue, IsNext(i)
  PROVE  i = 1 /\ queue # <<>>
<1>1. queue \in Seq(Sources) /\ DOMAIN queue = 1..Len(queue) /\ 1 \in DOMAIN queue
  BY DEF IInv, Types
<1>2. queue[1].priority = 0 /\ queue[i].priority = 0
  BY <1>1 DEF IInv, Queued, Waits
<1>. QED BY <1>1, <1>2 DEF IsNext

\* What is left when it is taken.
LEMMA TakeOldest ==
  ASSUME NEW q \in Seq(Sources), q # <<>>
  PROVE  /\ RemoveAt(q, 1) \in Seq(Sources)
         /\ Len(RemoveAt(q, 1)) = Len(q) - 1
         /\ \A i \in 1..(Len(q) - 1) : RemoveAt(q, 1)[i] = q[i + 1]
<1>1. /\ Tail(q) \in Seq(Sources)
      /\ Len(Tail(q)) = Len(q) - 1
      /\ \A i \in 1..Len(Tail(q)) : Tail(q)[i] = q[i + 1]
  BY HeadTailProperties
<1>2. SubSeq(q, 1, 1 - 1) = <<>> /\ SubSeq(q, 1 + 1, Len(q)) = Tail(q)
  BY TailIsSubSeq, SubSeqEmpty
<1>3. RemoveAt(q, 1) = <<>> \o Tail(q)
  BY <1>2 DEF RemoveAt
<1>4. <<>> \o Tail(q) = Tail(q)
  BY <1>1
<1>. QED BY <1>1, <1>3, <1>4

\* A source that is due is of an asynchronous parse; it is a task once the
\* thread is done with the parse, and before that an unheard signal.
LEMMA Due ==
  ASSUME Types, Queued, NEW i \in DOMAIN queue
  PROVE  /\ queue[i] \in Sources
         /\ queue[i].parse \in Parses /\ queue[i].what \in {"signal", "task"} /\ queue[i].n \in Nat
         /\ Waits(queue[i])
         /\ sent[queue[i].parse] \in Nat /\ Len(heard[queue[i].parse]) \in Nat
<1>1. queue[i] \in Sources
  BY DEF Types
<1>2. queue[i].parse \in Parses /\ queue[i].what \in {"signal", "task"} /\ queue[i].n \in Nat
  BY <1>1 DEF Sources
<1>. QED BY <1>1, <1>2 DEF Types, Queued

\* Nothing joins or leaves it.
LEMMA StillQueued ==
  ASSUME Types, Queued, queue' = queue, \A t \in Sources : Waits(t) => Waits(t)'
  PROVE  Queued'
<1>1. ASSUME NEW i \in DOMAIN queue PROVE Waits(queue[i])'
  <2>1. PICK t \in Sources : t = queue[i] /\ Waits(t)
    BY Due
  <2>2. queue'[i] = t /\ Waits(t)'
    BY <2>1
  <2>. QED BY <2>2 DEF Waits
<1>. QED BY <1>1 DEF Queued, Before

\* A signal or a task joins the queue's end.
LEMMA JoinsQueue ==
  ASSUME Types, Queued, NEW s \in Sources, queue' = Append(queue, s),
         Waits(s)', \A t \in Sources : Waits(t) => Waits(t)',
         \A i \in DOMAIN queue : queue[i].parse = s.parse =>
           queue[i].what = "signal" /\ (s.what = "signal" => queue[i].n < s.n)
  PROVE  queue' \in Seq(Sources) /\ Queued'
<1>1. queue \in Seq(Sources) /\ \A i \in DOMAIN queue : Before(queue[i], s)
  BY DEF Types, Before
<1>2. /\ queue' \in Seq(Sources)
      /\ DOMAIN queue' = 1..(Len(queue) + 1)
      /\ queue'[Len(queue) + 1] = s
      /\ \A i \in DOMAIN queue : queue'[i] = queue[i]
  BY <1>1
<1>3. \A i \in DOMAIN queue' : i \in DOMAIN queue \/ i = Len(queue) + 1
  BY <1>1, <1>2
<1>4. ASSUME NEW i \in DOMAIN queue' PROVE Waits(queue[i])'
  <2>1. CASE i = Len(queue) + 1
    BY <2>1, <1>2 DEF Waits
  <2>2. CASE i \in DOMAIN queue
    <3>1. PICK t \in Sources : t = queue[i] /\ Waits(t)
      BY <2>2, Due
    <3>2. queue'[i] = t /\ Waits(t)'
      BY <3>1, <2>2, <1>2
    <3>. QED BY <3>2 DEF Waits
  <2>. QED BY <1>3, <2>1, <2>2
<1>5. ASSUME NEW i \in DOMAIN queue', NEW j \in DOMAIN queue', i < j
      PROVE  Before(queue'[i], queue'[j])
  <2>1. i \in DOMAIN queue /\ queue'[i] = queue[i]
    BY <1>1, <1>2, <1>5
  <2>2. CASE j = Len(queue) + 1
    BY <2>1, <2>2, <1>1, <1>2
  <2>3. CASE j \in DOMAIN queue
    <3>1. Before(queue[i], queue[j])
      BY <2>1, <2>3, <1>5 DEF Queued
    <3>. QED BY <2>1, <2>3, <3>1, <1>2
  <2>. QED BY <1>3, <2>2, <2>3
<1>. QED BY <1>2, <1>4, <1>5 DEF Queued, Before

---------------------------------------------------------------------------
LEMMA InitOK == Init => IInv
<1>. SUFFICES ASSUME Init PROVE IInv
  OBVIOUS
<1>1. Types /\ Stages
  BY ParsesAssumption DEF Init, Types, Phases, Stages, Stage
<1>2. Queued /\ NoneLost /\ OnMain
  BY DEF Init, Queued, NoneLost, OnMain
<1>3. Holders = {}
  BY DEF Init, Holders, Holds, TaskHolds
<1>4. Counted
  BY <1>3, FS_EmptySet DEF Init, Counted
<1>. QED BY <1>1, <1>2, <1>4 DEF IInv

LEMMA ParseAsyncOK ==
  ASSUME IInv, NEW p \in Parses, ParseAsync(p) PROVE IInv'
<1>. USE DEF IInv, ParseAsync
<1>1. Types'
  BY DEF Types, Phases
<1>2. Stages'
  BY DEF Types, Stages, Stage, Phases
<1>3. Queued'
  <2>1. \A s \in Sources : Waits(s) => Waits(s)'
    BY DEF Types, Waits, Sources
  <2>. QED BY <2>1, StillQueued DEF Types
<1>4. NoneLost'
  BY DEF NoneLost, IsSignal
<1>5. OnMain'
  BY DEF OnMain, Types
<1>6. Holders' = Holders \cup {<<"task", p, 0>>}
  <2>1. \A v \in {"task", "signal"}, q \in Parses, m \in Nat :
          Holds(v, q, m)' <=> Holds(v, q, m) \/ (v = "task" /\ q = p /\ m = 0)
    BY DEF Holds, TaskHolds, Types
  <2>. QED BY <2>1, HolderComes
<1>7. <<"task", p, 0>> \notin Holders
  BY IsHolder DEF Holds, TaskHolds
<1>8. Counted'
  BY <1>6, <1>7, OneMore
<1>. QED BY <1>1, <1>2, <1>3, <1>4, <1>5, <1>8

LEMMA ParseSyncOK ==
  ASSUME IInv, NEW p \in Parses, ParseSync(p) PROVE IInv'
<1>. USE DEF IInv, ParseSync
<1>1. Types'
  BY DEF Types, Phases
<1>2. Stages'
  BY DEF Types, Stages, Stage, Phases
<1>3. Queued'
  <2>1. \A s \in Sources : Waits(s) => Waits(s)'
    BY DEF Types, Waits, Sources
  <2>. QED BY <2>1, StillQueued DEF Types
<1>4. NoneLost'
  BY DEF NoneLost, IsSignal
<1>5. OnMain'
  <2>1. \A i \in DOMAIN running : running[i] # p
    BY DEF OnMain
  <2>2. /\ DOMAIN running = 1..Len(running)
        /\ DOMAIN running' = 1..(Len(running) + 1)
        /\ running'[Len(running) + 1] = p
        /\ \A i \in DOMAIN running : running'[i] = running[i]
    BY DEF Types
  <2>3. Len(running) \in Nat /\ phase' \in [Parses -> Phases] /\ phase'[p] = "parsing"
        /\ \A q \in Parses \ {p} : phase'[q] = phase[q]
    BY <1>1 DEF Types
  <2>4. \A i \in DOMAIN running' : i \in DOMAIN running \/ i = Len(running) + 1
    BY <2>2, <2>3
  <2>5. \A i \in DOMAIN running' : Kind[running'[i]] = "sync" /\ phase'[running'[i]] = "parsing"
    BY <2>1, <2>2, <2>3, <2>4 DEF OnMain, Types
  <2>6. \A i \in DOMAIN running', j \in DOMAIN running' : running'[i] = running'[j] => i = j
    BY <2>1, <2>2, <2>4 DEF OnMain
  <2>7. ASSUME NEW q \in Parses, Kind[q] = "sync", phase'[q] = "parsing"
        PROVE  \E i \in DOMAIN running' : running'[i] = q
    <3>1. CASE q = p
      BY <3>1, <2>2, <2>3
    <3>2. CASE q # p
      <4>1. PICK i \in DOMAIN running : running[i] = q
        BY <3>2, <2>7, <2>3 DEF OnMain
      <4>. QED BY <4>1, <2>2, <2>3
    <3>. QED BY <3>1, <3>2
  <2>8. held' = TRUE
    BY DEF Types
  <2>. QED BY <2>5, <2>6, <2>7, <2>8 DEF OnMain
<1>6. Holders' = Holders
  BY SameHolders DEF TaskHolds, Types
<1>7. Counted'
  BY <1>6 DEF Counted
<1>. QED BY <1>1, <1>2, <1>3, <1>4, <1>5, <1>7

LEMMA CancelOK ==
  ASSUME IInv, NEW p \in Parses, Cancel(p) PROVE IInv'
BY DEF IInv, Cancel, Types, Stages, Stage, Queued, Waits, Before, NoneLost, IsSignal, OnMain,
       Counted, Holders, Holds, TaskHolds

LEMMA UnrefOK ==
  ASSUME IInv, Unref PROVE IInv'
<1>. USE DEF IInv, Unref
<1>1. Types'
  BY DEF Types
<1>6. Stages'
  BY DEF Stages, Stage
<1>7. Queued'
  BY DEF Queued, Waits, Before
<1>8. NoneLost'
  BY DEF NoneLost, IsSignal
<1>2. OnMain'
  BY DEF OnMain
<1>3. Holders' = Holders
  BY SameHolders DEF TaskHolds
<1>4. Cardinality(Holders) \in Nat
  BY FS_CardinalityType DEF Counted
<1>5. Counted'
  BY <1>3, <1>4 DEF Counted, Types
<1>. QED BY <1>1, <1>2, <1>5, <1>6, <1>7, <1>8

---------------------------------------------------------------------------
\* A worker thread

\* The task of a parse that no source is of joins the queue.
LEMMA TaskJoins ==
  ASSUME Types, Queued, NEW p \in Parses,
         queue' = Append(queue, Source(p, "task", 0, G_PRIORITY_DEFAULT)),
         Kind[p] = "async", answer[p] = "none", phase[p] \in {"pooled", "parsing"},
         phase' = [phase EXCEPT ![p] = "returned"],
         UNCHANGED <<sent, answer, heard>>
  PROVE  queue' \in Seq(Sources) /\ Queued'
<1>1. PICK s \in Sources :
        s = Source(p, "task", 0, G_PRIORITY_DEFAULT) /\ s.parse = p /\ s.what = "task" /\ s.priority = 0
  BY DEF Source, Sources, G_PRIORITY_DEFAULT
<1>2. phase'[p] = "returned" /\ \A q \in Parses \ {p} : phase'[q] = phase[q]
  BY DEF Types
<1>3. Waits(s)'
  BY <1>1, <1>2 DEF Waits
<1>4. ASSUME NEW t \in Sources, Waits(t) PROVE Waits(t)'
  <2>1. t.parse \in Parses
    BY DEF Sources
  <2>. QED BY <2>1, <1>2, <1>4 DEF Waits
<1>5. ASSUME NEW i \in DOMAIN queue, queue[i].parse = p PROVE queue[i].what = "signal"
  BY <1>5, Due DEF Waits
<1>. QED BY <1>1, <1>3, <1>4, <1>5, JoinsQueue

\* What was pending still is, and is not lost.
LEMMA StillPending ==
  ASSUME Types, NoneLost, NEW s, queue' = Append(queue, s), UNCHANGED <<sent, heard>>
  PROVE  NoneLost'
<1>1. \A i \in DOMAIN queue : i \in DOMAIN queue' /\ queue'[i] = queue[i]
  BY DEF Types
<1>. QED BY <1>1 DEF NoneLost, IsSignal

LEMMA RefuseCancelledOK ==
  ASSUME IInv, NEW p \in Parses, RefuseCancelled(p) PROVE IInv'
<1>. USE DEF IInv, RefuseCancelled
<1>1. Kind[p] = "async" /\ answer[p] = "none" /\ sent[p] = 0
  BY ParsesAssumption DEF Stages, Stage
<1>2. queue' \in Seq(Sources) /\ Queued'
  BY <1>1, TaskJoins
<1>3. Types'
  BY <1>2 DEF Types, Phases
<1>4. Stages'
  BY <1>1 DEF Types, Stages, Stage, Phases
<1>5. NoneLost'
  BY StillPending
<1>6. OnMain'
  BY <1>1 DEF OnMain, Types
<1>7. Holders' = Holders
  BY SameHolders DEF TaskHolds, Types
<1>8. Counted'
  BY <1>7 DEF Counted
<1>. QED BY <1>2, <1>3, <1>4, <1>5, <1>6, <1>8

LEMMA BeginParseOK ==
  ASSUME IInv, NEW p \in Parses, BeginParse(p) PROVE IInv'
<1>. USE DEF IInv, BeginParse
<1>1. Kind[p] = "async"
  BY ParsesAssumption DEF Stages, Stage
<1>2. Types'
  BY DEF Types, Phases
<1>3. Stages'
  BY <1>1 DEF Types, Stages, Stage, Phases
<1>4. Queued'
  <2>1. \A s \in Sources : Waits(s) => Waits(s)'
    BY DEF Types, Waits, Sources
  <2>. QED BY <2>1, StillQueued
<1>5. NoneLost'
  BY DEF NoneLost, IsSignal
<1>6. OnMain'
  BY <1>1 DEF OnMain, Types
<1>7. Holders' = Holders
  BY SameHolders DEF TaskHolds, Types
<1>8. Counted'
  BY <1>7 DEF Counted
<1>. QED BY <1>2, <1>3, <1>4, <1>5, <1>6, <1>8

LEMMA ReturnFromThreadOK ==
  ASSUME IInv, NEW p \in Parses, ReturnFromThread(p) PROVE IInv'
<1>. USE DEF IInv, ReturnFromThread
<1>1. answer[p] = "none"
  BY DEF Stages, Stage
<1>2. queue' \in Seq(Sources) /\ Queued'
  BY <1>1, TaskJoins
<1>3. Types'
  BY <1>2 DEF Types, Phases
<1>4. Stages'
  BY <1>1 DEF Types, Stages, Stage, Phases
<1>5. NoneLost'
  BY StillPending
<1>6. OnMain'
  BY DEF OnMain, Types
<1>7. Holders' = Holders
  BY SameHolders DEF TaskHolds, Types
<1>8. Counted'
  BY <1>7 DEF Counted
<1>. QED BY <1>2, <1>3, <1>4, <1>5, <1>6, <1>8

LEMMA LeaveThreadOK ==
  ASSUME IInv, NEW p \in Parses, LeaveThread(p) PROVE IInv'
<1>. USE DEF IInv, LeaveThread
<1>1. Kind[p] = "async"
  BY ParsesAssumption DEF Stages, Stage
<1>2. Types'
  BY DEF Types, Phases
<1>3. Stages'
  BY <1>1 DEF Types, Stages, Stage, Phases
<1>4. Queued'
  <2>1. \A s \in Sources : Waits(s) => Waits(s)'
    BY DEF Types, Waits, Sources
  <2>. QED BY <2>1, StillQueued
<1>5. NoneLost'
  BY DEF NoneLost, IsSignal
<1>6. OnMain'
  BY <1>1 DEF OnMain, Types
<1>7. CASE answer[p] = "none"
  <2>1. Holders' = Holders
    BY <1>7, SameHolders DEF TaskHolds, Types
  <2>2. Counted'
    BY <1>7, <2>1 DEF Counted
  <2>. QED BY <1>2, <1>3, <1>4, <1>5, <1>6, <2>2
<1>8. CASE answer[p] # "none"
  <2>1. Holders' = Holders \ {<<"task", p, 0>>}
    <3>1. \A v \in {"task", "signal"}, q \in Parses, m \in Nat :
            Holds(v, q, m)' <=> Holds(v, q, m) /\ ~(v = "task" /\ q = p /\ m = 0)
      BY <1>8 DEF Holds, TaskHolds, Types
    <3>. QED BY <3>1, HolderGoes
  <2>2. <<"task", p, 0>> \in Holders
    BY <1>1, IsHolder DEF Holds, TaskHolds
  <2>3. Counted'
    BY <1>8, <2>1, <2>2, OneLess
  <2>. QED BY <1>2, <1>3, <1>4, <1>5, <1>6, <2>3
<1>. QED BY <1>7, <1>8

\* The signal joins the queue, one of a number that was not sent before.
LEMMA EmitLaterOK ==
  ASSUME IInv, NEW p \in Parses, EmitLater(p) PROVE IInv'
<1>. USE DEF IInv, EmitLater
<1>1. answer[p] = "none" /\ outcome[p] = "none"
  BY DEF Stages, Stage
<1>2. sent[p] \in Nat /\ Len(heard[p]) \in Nat
  BY DEF Types
<1>3. sent'[p] = sent[p] + 1 /\ \A q \in Parses \ {p} : sent'[q] = sent[q]
  BY DEF Types
<1>4. Len(heard[p]) <= sent[p]
  BY DEF Stages, Stage
<1>5. PICK s \in Sources :
        /\ s = Source(p, "signal", sent[p] + 1, SignalPriority)
        /\ s.parse = p /\ s.what = "signal" /\ s.n = sent[p] + 1 /\ s.priority = 0
  BY <1>2 DEF Source, Sources, SignalPriority, G_PRIORITY_DEFAULT
<1>6. queue' \in Seq(Sources) /\ Queued'
  <2>1. Waits(s)'
    BY <1>1, <1>2, <1>3, <1>4, <1>5 DEF Waits
  <2>2. ASSUME NEW t \in Sources, Waits(t) PROVE Waits(t)'
    <3>1. t.parse \in Parses /\ t.n \in Nat /\ sent[t.parse] \in Nat
      BY DEF Sources, Types
    <3>2. t.what = "signal" => t.n <= sent'[t.parse]
      BY <3>1, <2>2, <1>3 DEF Waits
    <3>. QED BY <3>2, <2>2 DEF Waits
  <2>3. ASSUME NEW i \in DOMAIN queue, queue[i].parse = p
        PROVE  queue[i].what = "signal" /\ queue[i].n < s.n
    BY <2>3, <1>2, <1>5, Due DEF Waits
  <2>. QED BY <1>5, <2>1, <2>2, <2>3, JoinsQueue
<1>7. Types'
  BY <1>6 DEF Types
<1>8. Stages'
  <2>1. sent'[p] <= Size[p]
    BY <1>2, <1>3, ParsesAssumption
  <2>. QED BY <1>1, <1>3, <2>1 DEF Types, Stages, Stage
<1>9. NoneLost'
  <2>1. /\ \A i \in DOMAIN queue : i \in DOMAIN queue' /\ queue'[i] = queue[i]
        /\ Len(queue) + 1 \in DOMAIN queue' /\ queue'[Len(queue) + 1] = s
    BY <1>5 DEF Types
  <2>2. ASSUME NEW q \in Parses, NEW n \in Nat, Len(heard[q]) < n, n <= sent'[q]
        PROVE  \E i \in DOMAIN queue' : IsSignal(queue'[i], q, n)
    <3>1. CASE q = p /\ n = sent[p] + 1
      BY <3>1, <2>1, <1>5 DEF IsSignal
    <3>2. CASE ~(q = p /\ n = sent[p] + 1)
      <4>1. n <= sent[q]
        BY <3>2, <2>2, <1>2, <1>3
      <4>2. PICK i \in DOMAIN queue : IsSignal(queue[i], q, n)
        BY <4>1, <2>2 DEF NoneLost
      <4>. QED BY <4>2, <2>1
    <3>. QED BY <3>1, <3>2
  <2>. QED BY <2>2 DEF NoneLost
<1>10. OnMain'
  BY DEF OnMain
<1>11. Holders' = Holders \cup {<<"signal", p, sent[p] + 1>>}
  <2>1. ASSUME NEW q \in Parses, NEW m \in Nat
        PROVE  (Len(heard[q]) < m /\ m <= sent'[q])
                 <=> (Len(heard[q]) < m /\ m <= sent[q]) \/ (q = p /\ m = sent[p] + 1)
    BY <1>2, <1>3, <1>4
  <2>2. \A v \in {"task", "signal"}, q \in Parses, m \in Nat :
          Holds(v, q, m)' <=> Holds(v, q, m) \/ (v = "signal" /\ q = p /\ m = sent[p] + 1)
    BY <2>1 DEF Holds, TaskHolds
  <2>3. PICK n \in Nat : n = sent[p] + 1
    BY <1>2
  <2>. QED BY <2>2, <2>3, HolderComes
<1>12. <<"signal", p, sent[p] + 1>> \notin Holders
  BY <1>2, IsHolder DEF Holds
<1>13. Counted'
  BY <1>11, <1>12, OneMore
<1>. QED BY <1>6, <1>7, <1>8, <1>9, <1>10, <1>13

---------------------------------------------------------------------------
\* The main thread

\* The rest of the queue when its oldest source is taken.
LEMMA RestIsQueued ==
  ASSUME Types, Queued, queue # <<>>, queue' = RemoveAt(queue, 1),
         \A t \in Sources : Waits(t) /\ Before(queue[1], t) => Waits(t)'
  PROVE  /\ queue' \in Seq(Sources)
         /\ Queued'
         /\ \A i \in DOMAIN queue : i = 1 \/ (i - 1 \in DOMAIN queue' /\ queue'[i - 1] = queue[i])
<1>1. queue \in Seq(Sources)
  BY DEF Types
<1>2. /\ queue' \in Seq(Sources)
      /\ Len(queue') = Len(queue) - 1
      /\ \A i \in 1..(Len(queue) - 1) : queue'[i] = queue[i + 1]
  BY <1>1, TakeOldest
<1>3. /\ DOMAIN queue = 1..Len(queue) /\ Len(queue) \in Nat
      /\ DOMAIN queue' = 1..(Len(queue) - 1)
  BY <1>1, <1>2
<1>4. \A i \in DOMAIN queue' : i + 1 \in DOMAIN queue /\ 1 < i + 1 /\ queue'[i] = queue[i + 1]
  BY <1>2, <1>3
<1>5. 1 \in DOMAIN queue
  BY <1>1
<1>6. ASSUME NEW i \in DOMAIN queue' PROVE Waits(queue[i])'
  <2>1. PICK t \in Sources : t = queue[i + 1] /\ Waits(t)
    BY <1>4, Due
  <2>2. Before(queue[1], t)
    BY <1>3, <1>4, <1>5, <2>1 DEF Queued
  <2>3. queue'[i] = t /\ Waits(t)'
    BY <1>4, <2>1, <2>2
  <2>. QED BY <2>3 DEF Waits
<1>7. ASSUME NEW i \in DOMAIN queue', NEW j \in DOMAIN queue', i < j
      PROVE  Before(queue'[i], queue'[j])
  <2>1. i + 1 < j + 1
    BY <1>3, <1>7
  <2>2. Before(queue[i + 1], queue[j + 1])
    BY <2>1, <1>4 DEF Queued
  <2>. QED BY <2>2, <1>4
<1>8. \A i \in DOMAIN queue : i = 1 \/ (i - 1 \in DOMAIN queue' /\ queue'[i - 1] = queue[i])
  BY <1>2, <1>3
<1>. QED BY <1>2, <1>6, <1>7, <1>8 DEF Queued, Before

\* The signal that is due is the next of its parse: an earlier one would be in
\* the queue before it.
LEMMA NextOfParse ==
  ASSUME IInv, queue # <<>>, queue[1].what = "signal"
  PROVE  /\ queue[1] \in Sources /\ queue[1].parse \in Parses
         /\ queue[1].n = Len(heard[queue[1].parse]) + 1
         /\ queue[1].n <= sent[queue[1].parse]
<1>. DEFINE p == queue[1].parse
<1>. DEFINE n == Len(heard[p]) + 1
<1>1. 1 \in DOMAIN queue /\ \A i \in DOMAIN queue : i \in Nat /\ (i = 1 \/ 1 < i)
  BY DEF IInv, Types
<1>2. /\ queue[1] \in Sources /\ p \in Parses /\ queue[1].n \in Nat
      /\ sent[p] \in Nat /\ Len(heard[p]) \in Nat
      /\ queue[1].n > Len(heard[p]) /\ queue[1].n <= sent[p]
  BY <1>1, Due DEF IInv, Waits
<1>3. n \in Nat /\ Len(heard[p]) < n /\ n <= sent[p]
  BY <1>2
<1>4. PICK i \in DOMAIN queue : IsSignal(queue[i], p, n)
  BY <1>2, <1>3 DEF IInv, NoneLost
<1>5. CASE i = 1
  BY <1>2, <1>4, <1>5 DEF IsSignal
<1>6. CASE 1 < i
  <2>1. Before(queue[1], queue[i])
    BY <1>1, <1>6 DEF IInv, Queued
  <2>2. queue[1].n < n
    BY <2>1, <1>4 DEF IsSignal, Before
  <2>. QED BY <2>2, <1>2
<1>. QED BY <1>1, <1>5, <1>6

LEMMA DispatchSignalOK ==
  ASSUME IInv, queue # <<>>, DispatchSignal(1) PROVE IInv'
<1>. USE DEF IInv
<1>1. PICK p \in Parses, n \in Nat :
        /\ queue[1].parse = p /\ queue[1].n = n
        /\ n = Len(heard[p]) + 1 /\ n <= sent[p]
  <2>1. queue[1].n \in Nat
    BY NextOfParse DEF DispatchSignal, Sources
  <2>. QED BY <2>1, NextOfParse DEF DispatchSignal
<1>2. /\ queue[1].what = "signal"
      /\ heard' = [heard EXCEPT ![p] = Append(@, n)]
      /\ refs' = refs - 1
      /\ queue' = RemoveAt(queue, 1)
      /\ UNCHANGED <<phase, sent, running, outcome, cancelled, answer, held>>
  BY <1>1 DEF DispatchSignal
<1>3. /\ heard' \in [Parses -> Seq(Nat)]
      /\ Len(heard'[p]) = Len(heard[p]) + 1
      /\ \A q \in Parses \ {p} : heard'[q] = heard[q]
      /\ \A q \in Parses : Len(heard[q]) \in Nat /\ sent[q] \in Nat
  BY <1>2 DEF Types
<1>4. Kind[p] = "async" /\ answer[p] = "none"
  <2>1. 1 \in DOMAIN queue
    BY DEF Types
  <2>. QED BY <1>1, <2>1, Due DEF Waits
<1>5. /\ queue' \in Seq(Sources)
      /\ Queued'
      /\ \A i \in DOMAIN queue : i = 1 \/ (i - 1 \in DOMAIN queue' /\ queue'[i - 1] = queue[i])
  <2>1. ASSUME NEW t \in Sources, Waits(t), Before(queue[1], t) PROVE Waits(t)'
    <3>1. t.parse \in Parses /\ t.n \in Nat
      BY DEF Sources
    <3>2. t.what = "signal" => t.n > Len(heard'[t.parse])
      <4>1. CASE t.parse = p
        BY <4>1, <2>1, <3>1, <1>1, <1>2, <1>3 DEF Before
      <4>2. CASE t.parse # p
        BY <4>2, <2>1, <3>1, <1>3 DEF Waits
      <4>. QED BY <4>1, <4>2
    <3>. QED BY <3>2, <2>1, <1>2 DEF Waits
  <2>. QED BY <2>1, <1>2, RestIsQueued
<1>6. Types'
  BY <1>2, <1>3, <1>5 DEF Types
<1>7. Stages'
  BY <1>1, <1>2, <1>3, <1>4 DEF Stages, Stage
<1>8. NoneLost'
  <2>1. ASSUME NEW q \in Parses, NEW m \in Nat, Len(heard'[q]) < m, m <= sent[q]
        PROVE  \E i \in DOMAIN queue' : IsSignal(queue'[i], q, m)
    <3>1. Len(heard[q]) < m /\ (q = p => m # n)
      BY <2>1, <1>1, <1>3
    <3>2. PICK i \in DOMAIN queue : IsSignal(queue[i], q, m)
      BY <3>1, <2>1 DEF NoneLost
    <3>3. i # 1
      BY <3>1, <3>2, <1>1 DEF IsSignal
    <3>. QED BY <3>2, <3>3, <1>5
  <2>. QED BY <2>1, <1>2 DEF NoneLost
<1>9. OnMain'
  BY <1>2 DEF OnMain
<1>10. Holders' = Holders \ {<<"signal", p, n>>}
  <2>1. ASSUME NEW q \in Parses, NEW m \in Nat
        PROVE  (Len(heard'[q]) < m /\ m <= sent[q])
                 <=> (Len(heard[q]) < m /\ m <= sent[q]) /\ ~(q = p /\ m = n)
    BY <1>1, <1>3
  <2>2. \A v \in {"task", "signal"}, q \in Parses, m \in Nat :
          Holds(v, q, m)' <=> Holds(v, q, m) /\ ~(v = "signal" /\ q = p /\ m = n)
    BY <2>1, <1>2 DEF Holds, TaskHolds
  <2>. QED BY <2>2, HolderGoes
<1>11. <<"signal", p, n>> \in Holders
  BY <1>1, <1>3, IsHolder DEF Holds
<1>12. Counted'
  BY <1>2, <1>10, <1>11, OneLess
<1>. QED BY <1>5, <1>6, <1>7, <1>8, <1>9, <1>12

\* No source of the parse is left, so that all its signals were heard.
LEMMA DispatchCallbackOK ==
  ASSUME IInv, queue # <<>>, DispatchCallback(1) PROVE IInv'
<1>. USE DEF IInv
<1>1. 1 \in DOMAIN queue /\ \A i \in DOMAIN queue : i \in Nat /\ (i = 1 \/ 1 < i)
  BY DEF Types
<1>2. PICK p \in Parses : queue[1].parse = p
  BY <1>1, Due
<1>3. /\ queue[1].what = "task"
      /\ answer' = [answer EXCEPT ![p] = IF p \in cancelled THEN "cancelled" ELSE outcome[p]]
      /\ refs' = IF phase[p] = "left" THEN refs - 1 ELSE refs
      /\ queue' = RemoveAt(queue, 1)
      /\ UNCHANGED <<phase, sent, running, outcome, cancelled, heard, held>>
  BY <1>2 DEF DispatchCallback
<1>4. Kind[p] = "async" /\ answer[p] = "none" /\ phase[p] \in {"returned", "left"}
  BY <1>1, <1>2, <1>3, Due DEF Waits
<1>5. /\ answer' \in [Parses -> {"none", "result", "cancelled"}]
      /\ answer'[p] # "none"
      /\ \A q \in Parses \ {p} : answer'[q] = answer[q]
  BY <1>3, <1>4 DEF Types, Stages, Stage
<1>6. \A i \in DOMAIN queue : i # 1 => queue[i].parse # p
  BY <1>1, <1>2, <1>3 DEF Queued, Before
<1>7. /\ queue' \in Seq(Sources)
      /\ Queued'
      /\ \A i \in DOMAIN queue : i = 1 \/ (i - 1 \in DOMAIN queue' /\ queue'[i - 1] = queue[i])
  <2>1. ASSUME NEW t \in Sources, Waits(t), Before(queue[1], t) PROVE Waits(t)'
    <3>1. t.parse \in Parses /\ t.parse # p
      BY <2>1, <1>2, <1>3 DEF Sources, Before
    <3>. QED BY <3>1, <2>1, <1>3, <1>5 DEF Waits
  <2>. QED BY <2>1, <1>3, RestIsQueued
<1>8. Types'
  BY <1>3, <1>5, <1>7 DEF Types
<1>9. Len(heard[p]) = sent[p]
  <2>1. Len(heard[p]) \in Nat /\ sent[p] \in Nat /\ Len(heard[p]) <= sent[p]
    BY DEF Types, Stages, Stage
  <2>2. ASSUME Len(heard[p]) < sent[p] PROVE FALSE
    <3>1. PICK n \in Nat : Len(heard[p]) < n /\ n <= sent[p]
      BY <2>1, <2>2
    <3>2. PICK i \in DOMAIN queue : IsSignal(queue[i], p, n)
      BY <3>1 DEF NoneLost
    <3>. QED BY <3>2, <1>3, <1>6 DEF IsSignal
  <2>. QED BY <2>1, <2>2
<1>10. Stages'
  BY <1>3, <1>4, <1>5, <1>9 DEF Stages, Stage
<1>11. NoneLost'
  <2>1. ASSUME NEW q \in Parses, NEW m \in Nat, Len(heard[q]) < m, m <= sent[q]
        PROVE  \E i \in DOMAIN queue' : IsSignal(queue'[i], q, m)
    <3>1. PICK i \in DOMAIN queue : IsSignal(queue[i], q, m)
      BY <2>1 DEF NoneLost
    <3>2. i # 1
      BY <3>1, <1>3 DEF IsSignal
    <3>. QED BY <3>1, <3>2, <1>7
  <2>. QED BY <2>1, <1>3 DEF NoneLost
<1>12. OnMain'
  BY <1>3 DEF OnMain
<1>13. CASE phase[p] = "left"
  <2>1. \A v \in {"task", "signal"}, q \in Parses, m \in Nat :
          Holds(v, q, m)' <=> Holds(v, q, m) /\ ~(v = "task" /\ q = p /\ m = 0)
    BY <1>3, <1>5, <1>13 DEF Holds, TaskHolds
  <2>2. Holders' = Holders \ {<<"task", p, 0>>}
    BY <2>1, HolderGoes
  <2>3. <<"task", p, 0>> \in Holders
    BY <1>4, <1>13, IsHolder DEF Holds, TaskHolds
  <2>4. Counted'
    BY <1>3, <1>13, <2>2, <2>3, OneLess
  <2>. QED BY <1>7, <1>8, <1>10, <1>11, <1>12, <2>4
<1>14. CASE phase[p] # "left"
  <2>1. Holders' = Holders
    BY <1>3, <1>5, <1>14, SameHolders DEF TaskHolds
  <2>2. Counted'
    BY <1>3, <1>14, <2>1 DEF Counted
  <2>. QED BY <1>7, <1>8, <1>10, <1>11, <1>12, <2>2
<1>. QED BY <1>13, <1>14

LEMMA EmitNowOK ==
  ASSUME IInv, EmitNow PROVE IInv'
<1>. USE DEF IInv
<1>1. PICK p \in Parses :
        /\ Kind[p] = "sync" /\ phase[p] = "parsing"
        /\ sent[p] < Size[p]
        /\ sent' = [sent EXCEPT ![p] = @ + 1]
        /\ heard' = [heard EXCEPT ![p] = Append(@, sent[p] + 1)]
  <2>1. Len(running) \in DOMAIN running /\ running[Len(running)] \in Parses
    BY DEF Types, EmitNow
  <2>. QED BY <2>1 DEF EmitNow, Last, OnMain
<1>2. UNCHANGED <<phase, queue, running, outcome, cancelled, answer, held, refs>>
  BY DEF EmitNow
<1>3. /\ sent' \in [Parses -> Nat] /\ heard' \in [Parses -> Seq(Nat)]
      /\ sent'[p] = sent[p] + 1 /\ Len(heard'[p]) = Len(heard[p]) + 1
      /\ \A q \in Parses \ {p} : sent'[q] = sent[q] /\ heard'[q] = heard[q]
      /\ \A q \in Parses : Len(heard[q]) \in Nat /\ sent[q] \in Nat
  BY <1>1 DEF Types
<1>4. answer[p] = "none" /\ outcome[p] = "none" /\ Len(heard[p]) = sent[p]
  BY <1>1 DEF Stages, Stage
<1>5. Types'
  BY <1>2, <1>3 DEF Types
<1>6. Stages'
  <2>1. sent'[p] <= Size[p]
    BY <1>1, <1>3, ParsesAssumption
  <2>. QED BY <1>1, <1>2, <1>3, <1>4, <2>1 DEF Stages, Stage
<1>7. Queued'
  <2>1. ASSUME NEW t \in Sources, Waits(t) PROVE Waits(t)'
    <3>1. t.parse \in Parses /\ t.parse # p
      BY <2>1, <1>1 DEF Sources, Waits
    <3>. QED BY <3>1, <2>1, <1>2, <1>3 DEF Waits
  <2>. QED BY <2>1, <1>2, StillQueued
<1>8. ASSUME NEW q \in Parses, NEW n \in Nat
      PROVE  (Len(heard'[q]) < n /\ n <= sent'[q]) <=> (Len(heard[q]) < n /\ n <= sent[q])
  <2>1. CASE q = p
    BY <2>1, <1>3, <1>4
  <2>2. CASE q # p
    BY <2>2, <1>3
  <2>. QED BY <2>1, <2>2
<1>9. NoneLost'
  BY <1>2, <1>8 DEF NoneLost, IsSignal
<1>10. OnMain'
  BY <1>2 DEF OnMain
<1>11. Holders' = Holders
  BY <1>2, <1>8, SameHolders DEF TaskHolds
<1>12. Counted'
  BY <1>2, <1>11 DEF Counted
<1>. QED BY <1>5, <1>6, <1>7, <1>9, <1>10, <1>12

LEMMA ReturnSyncOK ==
  ASSUME IInv, ReturnSync PROVE IInv'
<1>. USE DEF IInv
<1>1. Len(running) \in DOMAIN running /\ running[Len(running)] \in Parses
  BY DEF Types, ReturnSync
<1>2. PICK p \in Parses :
        /\ running[Len(running)] = p
        /\ Kind[p] = "sync" /\ phase[p] = "parsing"
        /\ sent[p] = Size[p]
        /\ phase' = [phase EXCEPT ![p] = "left"]
        /\ answer' = [answer EXCEPT ![p] = "result"]
  BY <1>1 DEF ReturnSync, Last, OnMain
<1>3. UNCHANGED <<sent, queue, outcome, cancelled, heard, held, refs>>
  BY DEF ReturnSync
<1>4. /\ phase' \in [Parses -> Phases] /\ answer' \in [Parses -> {"none", "result", "cancelled"}]
      /\ phase'[p] = "left" /\ answer'[p] = "result"
      /\ \A q \in Parses \ {p} : phase'[q] = phase[q] /\ answer'[q] = answer[q]
  BY <1>2 DEF Types, Phases
<1>5. /\ running' \in Seq(Parses)
      /\ Len(running') = Len(running) - 1
      /\ \A i \in 1..(Len(running) - 1) : running'[i] = running[i]
  <2>1. /\ Len(running) \in Nat /\ Len(running) # 0
        /\ \A i \in 1..(Len(running) - 1) : running[i] \in Parses
    BY <1>1 DEF Types
  <2>2. running' = SubSeq(running, 1, Len(running) - 1)
    BY DEF ReturnSync, Front
  <2>3. /\ running' \in Seq(Parses)
        /\ Len(running') = IF 1 <= Len(running) - 1 THEN Len(running) - 1 - 1 + 1 ELSE 0
        /\ \A i \in 1..(Len(running) - 1 - 1 + 1) : running'[i] = running[1 + i - 1]
    BY <2>1, <2>2, SubSeqProperties
  <2>4. Len(running') = Len(running) - 1
    <3>1. \A k \in Nat : k # 0 => (IF 1 <= k - 1 THEN k - 1 - 1 + 1 ELSE 0) = k - 1
      OBVIOUS
    <3>. QED BY <3>1, <2>1, <2>3
  <2>5. ASSUME NEW i \in 1..(Len(running) - 1) PROVE running'[i] = running[i]
    <3>1. i \in 1..(Len(running) - 1 - 1 + 1) /\ 1 + i - 1 = i
      BY <2>1
    <3>. QED BY <3>1, <2>3
  <2>. QED BY <2>3, <2>4, <2>5
<1>6. Types'
  BY <1>3, <1>4, <1>5 DEF Types
<1>7. Stages'
  BY <1>2, <1>3, <1>4 DEF Stages, Stage
<1>8. Queued'
  <2>1. ASSUME NEW t \in Sources, Waits(t) PROVE Waits(t)'
    <3>1. t.parse \in Parses /\ t.parse # p
      BY <2>1, <1>2 DEF Sources, Waits
    <3>. QED BY <3>1, <2>1, <1>3, <1>4 DEF Waits
  <2>. QED BY <2>1, <1>3, StillQueued
<1>9. NoneLost'
  BY <1>3 DEF NoneLost, IsSignal
<1>10. OnMain'
  <2>1. /\ DOMAIN running = 1..Len(running) /\ Len(running) \in Nat
        /\ DOMAIN running' = 1..(Len(running) - 1)
    BY <1>5 DEF Types
  <2>2. \A i \in DOMAIN running' :
          i \in DOMAIN running /\ i # Len(running) /\ running'[i] = running[i] /\ running[i] \in Parses
    <3>1. ASSUME NEW i \in DOMAIN running'
          PROVE  i \in 1..(Len(running) - 1) /\ i \in 1..Len(running) /\ i # Len(running)
      BY <2>1
    <3>2. \A i \in DOMAIN running : running[i] \in Parses
      BY DEF Types
    <3>. QED BY <3>1, <3>2, <2>1, <1>5
  <2>3. \A i \in DOMAIN running' : running[i] # p
    BY <2>2, <1>1, <1>2 DEF OnMain
  <2>4. \A i \in DOMAIN running' : Kind[running'[i]] = "sync" /\ phase'[running'[i]] = "parsing"
    BY <2>2, <2>3, <1>4 DEF OnMain
  <2>5. \A i \in DOMAIN running', j \in DOMAIN running' : running'[i] = running'[j] => i = j
    BY <2>2 DEF OnMain
  <2>6. ASSUME NEW q \in Parses, Kind[q] = "sync", phase'[q] = "parsing"
        PROVE  \E i \in DOMAIN running' : running'[i] = q
    <3>1. q # p /\ phase[q] = "parsing"
      BY <2>6, <1>4
    <3>2. PICK i \in DOMAIN running : running[i] = q
      BY <2>6, <3>1 DEF OnMain
    <3>3. i # Len(running)
      BY <3>1, <3>2, <1>2
    <3>4. i \in DOMAIN running'
      BY <3>3, <2>1
    <3>. QED BY <3>2, <3>4, <2>2
  <2>7. held' = TRUE
    BY <1>3 DEF OnMain, ReturnSync
  <2>. QED BY <2>4, <2>5, <2>6, <2>7 DEF OnMain
<1>11. Holders' = Holders
  BY <1>2, <1>3, <1>4, SameHolders DEF TaskHolds
<1>12. Counted'
  BY <1>3, <1>11 DEF Counted
<1>. QED BY <1>6, <1>7, <1>8, <1>9, <1>10, <1>12

---------------------------------------------------------------------------
LEMMA StutterOK ==
  ASSUME IInv, UNCHANGED vars PROVE IInv'
BY DEF vars, IInv, Types, Stages, Stage, Queued, Waits, Before, NoneLost, IsSignal, OnMain,
       Counted, Holders, Holds, TaskHolds

LEMMA NextKeepsIInv == IInv /\ [Next]_vars => IInv'
<1>. SUFFICES ASSUME IInv, [Next]_vars PROVE IInv'
  OBVIOUS
<1>1. CASE Application
  BY <1>1, UnrefOK, ParseAsyncOK, ParseSyncOK, CancelOK DEF Application
<1>2. CASE MainLoop
  <2>1. PICK i \in DOMAIN queue : IsNext(i) /\ (DispatchSignal(i) \/ DispatchCallback(i))
    BY <1>2 DEF MainLoop
  <2>2. i = 1 /\ queue # <<>>
    BY <2>1, OldestIsNext
  <2>. QED BY <2>1, <2>2, DispatchSignalOK, DispatchCallbackOK
<1>3. CASE EmitNow \/ ReturnSync
  BY <1>3, EmitNowOK, ReturnSyncOK
<1>4. ASSUME NEW p \in Parses, Worker(p) PROVE IInv'
  BY <1>4, RefuseCancelledOK, BeginParseOK, EmitLaterOK, ReturnFromThreadOK, LeaveThreadOK
     DEF Worker
<1>5. CASE UNCHANGED vars
  BY <1>5, StutterOK
<1>. QED BY <1>1, <1>2, <1>3, <1>4, <1>5 DEF Next, MainThread

LEMMA IInvHolds == Spec => []IInv
<1>. QED BY InitOK, NextKeepsIInv, PTL DEF Spec

LEMMA RefsAreNat ==
  ASSUME IInv PROVE refs \in Nat
<1>1. Cardinality(Holders) \in Nat
  BY FS_CardinalityType DEF IInv, Counted
<1>. QED BY <1>1 DEF IInv, Counted

\* The state keeps its types, the count of references among them.
THEOREM ParsesKeepTypes == Spec => []AsyncTypeOK
<1>1. IInv => AsyncTypeOK
  BY RefsAreNat DEF IInv, Types, AsyncTypeOK
<1>. QED BY <1>1, IInvHolds, PTL

\* The result of a parse is given after all its signals (CALL_ASYNC and
\* g_task_return_int), however many parses, threads and signals there are.
THEOREM ResultsComeLast == Spec => []AnswerIsLast
<1>1. IInv => AnswerIsLast
  BY ParsesAssumption DEF IInv, Types, Stages, Stage, AnswerIsLast
<1>. QED BY <1>1, IInvHolds, PTL

\* The parser is alive while the application holds it, a parse runs or a source
\* of the main loop is to be given it (g_object_ref in CALL_ASYNC, and the task's
\* source object).
THEOREM ParserOutlivesParses == Spec => []AliveWhileUsed
<1>1. ASSUME IInv, InUse PROVE refs > 0
  <2>1. Cardinality(Holders) \in Nat /\ (Holders # {} => Cardinality(Holders) # 0)
    BY <1>1, FS_CardinalityType, FS_EmptySet DEF IInv, Counted
  <2>2. held = TRUE \/ Holders # {} => refs > 0
    BY <1>1, <2>1 DEF IInv, Counted
  <2>3. CASE held \/ running # <<>>
    BY <1>1, <2>2, <2>3 DEF IInv, Types, OnMain
  <2>4. CASE queue # <<>>
    <3>1. 1 \in DOMAIN queue
      BY <1>1, <2>4 DEF IInv, Types
    <3>2. PICK p \in Parses, n \in Nat : queue[1].parse = p /\ queue[1].n = n
      BY <1>1, <3>1, Due DEF IInv
    <3>3. CASE queue[1].what = "task"
      <4>1. Holds("task", p, 0)
        BY <1>1, <3>1, <3>2, <3>3, Due DEF IInv, Waits, Holds, TaskHolds
      <4>2. <<"task", p, 0>> \in Holders
        BY <4>1, IsHolder
      <4>. QED BY <4>2, <2>2
    <3>4. CASE queue[1].what = "signal"
      <4>1. Holds("signal", p, n)
        BY <1>1, <3>1, <3>2, <3>4, Due DEF IInv, Waits, Holds
      <4>2. <<"signal", p, n>> \in Holders
        BY <4>1, IsHolder
      <4>. QED BY <4>2, <2>2
    <3>. QED BY <1>1, <3>1, <3>3, <3>4, Due DEF IInv
  <2>5. ASSUME NEW p \in Parses, phase[p] \in {"pooled", "parsing"} PROVE refs > 0
    <3>1. CASE Kind[p] = "async"
      <4>1. Holds("task", p, 0)
        BY <2>5, <3>1 DEF Holds, TaskHolds
      <4>2. <<"task", p, 0>> \in Holders
        BY <4>1, IsHolder
      <4>. QED BY <4>2, <2>2
    <3>2. CASE Kind[p] = "sync"
      <4>1. phase[p] = "parsing"
        BY <1>1, <2>5, <3>2 DEF IInv, Stages, Stage
      <4>2. PICK i \in DOMAIN running : running[i] = p
        BY <1>1, <3>2, <4>1 DEF IInv, OnMain
      <4>3. running # <<>>
        BY <4>2
      <4>. QED BY <1>1, <4>3, <2>2 DEF IInv, OnMain
    <3>. QED BY <3>1, <3>2, ParsesAssumption
  <2>. QED BY <1>1, <2>3, <2>4, <2>5 DEF InUse
<1>2. IInv => AliveWhileUsed
  BY <1>1 DEF AliveWhileUsed
<1>. QED BY <1>2, IInvHolds, PTL

---------------------------------------------------------------------------
\* The refinement of ParseService

\* The parses asked for.
Asked == {p \in Parses : phase[p] # "new"}

\* What does not show: neither the parses asked for nor what was heard of them.
LEMMA Hidden ==
  ASSUME Asked' = Asked, UNCHANGED <<cancelled, heard, answer>>
  PROVE  UNCHANGED Service!vars
BY DEF Service!vars, Asked

LEMMA ApplicationShows ==
  ASSUME IInv, Application PROVE [Service!Next]_(Service!vars)
<1>1. CASE Unref
  BY <1>1, Hidden DEF Unref, Asked
<1>2. ASSUME NEW p \in Parses, ParseAsync(p) \/ ParseSync(p) PROVE Service!Next
  <2>1. Asked' = Asked \cup {p}
    BY <1>2 DEF IInv, Types, Phases, Asked, ParseAsync, ParseSync
  <2>2. Service!Ask(p)
    BY <1>2, <2>1 DEF Service!Ask, Asked, ParseAsync, ParseSync
  <2>. QED BY <2>2 DEF Service!Next
<1>3. ASSUME NEW p \in Parses, Cancel(p) PROVE Service!Next
  <2>1. Service!Cancel(p)
    BY <1>3 DEF Service!Cancel, Cancel
  <2>. QED BY <2>1 DEF Service!Next
<1>. QED BY <1>1, <1>2, <1>3 DEF Application

LEMMA WorkerIsHidden ==
  ASSUME IInv, NEW p \in Parses, Worker(p) PROVE UNCHANGED Service!vars
<1>1. UNCHANGED <<cancelled, heard, answer>>
  BY DEF Worker, RefuseCancelled, BeginParse, EmitLater, ReturnFromThread, LeaveThread
<1>2. /\ phase' = phase \/ (phase[p] # "new" /\ \E v \in Phases \ {"new"} : phase' = [phase EXCEPT ![p] = v])
  BY DEF Worker, RefuseCancelled, BeginParse, EmitLater, ReturnFromThread, LeaveThread, Phases
<1>3. Asked' = Asked
  BY <1>2 DEF IInv, Types, Asked
<1>. QED BY <1>1, <1>3, Hidden

LEMMA SignalShows ==
  ASSUME IInv, queue # <<>>, DispatchSignal(1) PROVE Service!Next
<1>1. PICK p \in Parses : queue[1].parse = p
  BY NextOfParse DEF DispatchSignal
<1>2. /\ queue[1].n = Len(heard[p]) + 1 /\ queue[1].n <= sent[p]
      /\ sent[p] \in Nat /\ Len(heard[p]) \in Nat /\ sent[p] <= Size[p] /\ Size[p] \in Nat
  <2>1. queue[1].n = Len(heard[p]) + 1 /\ queue[1].n <= sent[p]
    BY <1>1, NextOfParse DEF DispatchSignal
  <2>2. sent[p] \in Nat /\ Len(heard[p]) \in Nat /\ Size[p] \in Nat
    BY ParsesAssumption DEF IInv, Types
  <2>3. sent[p] <= Size[p]
    BY DEF IInv, Stages, Stage
  <2>. QED BY <2>1, <2>2, <2>3
<1>3. answer[p] = "none" /\ phase[p] # "new"
  <2>1. 1 \in DOMAIN queue
    BY DEF IInv, Types
  <2>2. answer[p] = "none"
    BY <1>1, <2>1, Due DEF Waits, IInv
  <2>3. sent[p] # 0
    BY <1>2
  <2>. QED BY <2>2, <2>3 DEF IInv, Stages, Stage
<1>4. Len(heard[p]) < Size[p]
  BY <1>2
<1>5. heard' = [heard EXCEPT ![p] = Append(@, Len(@) + 1)]
  BY <1>1, <1>2 DEF DispatchSignal
<1>6. Service!Hear(p)
  BY <1>3, <1>4, <1>5 DEF DispatchSignal, Service!Hear, Service!Waiting
<1>. QED BY <1>6 DEF Service!Next

LEMMA CallbackShows ==
  ASSUME IInv, queue # <<>>, DispatchCallback(1) PROVE Service!Next
<1>1. 1 \in DOMAIN queue
  BY DEF IInv, Types
<1>2. PICK p \in Parses : queue[1].parse = p
  BY <1>1, Due DEF IInv
<1>3. /\ answer[p] = "none" /\ phase[p] \in {"returned", "left"} /\ Kind[p] = "async"
      /\ answer' = [answer EXCEPT ![p] = IF p \in cancelled THEN "cancelled" ELSE outcome[p]]
      /\ UNCHANGED <<phase, sent, cancelled, heard>>
  BY <1>1, <1>2, Due DEF DispatchCallback, IInv, Waits
<1>4. Len(heard[p]) = sent[p] /\ outcome[p] \in {"result", "cancelled"}
  <2>1. IInv'
    BY DispatchCallbackOK
  <2>2. outcome[p] \in {"result", "cancelled"}
    BY <1>3 DEF IInv, Types, Stages, Stage
  <2>3. answer'[p] # "none"
    BY <1>3, <2>2 DEF IInv, Types
  <2>4. Len(heard'[p]) = sent'[p]
    BY <2>1, <2>3 DEF IInv, Stages, Stage
  <2>. QED BY <1>3, <2>2, <2>4
<1>5. Service!Waiting(p)
  BY <1>3 DEF Service!Waiting
<1>6. CASE outcome[p] = "result"
  <2>1. Len(heard[p]) = Size[p]
    BY <1>4, <1>6 DEF IInv, Stages, Stage
  <2>2. Service!Answer(p)
    BY <1>3, <1>5, <1>6, <2>1 DEF Service!Answer
  <2>. QED BY <2>2 DEF Service!Next
<1>7. CASE outcome[p] = "cancelled"
  <2>1. p \in cancelled /\ Len(heard[p]) = 0
    BY <1>4, <1>7 DEF IInv, Stages, Stage
  <2>2. heard[p] = <<>>
    BY <2>1 DEF IInv, Types
  <2>3. Service!Refuse(p)
    BY <1>3, <1>5, <2>1, <2>2 DEF Service!Refuse
  <2>. QED BY <2>3 DEF Service!Next
<1>. QED BY <1>4, <1>6, <1>7

LEMMA SyncShows ==
  ASSUME IInv, EmitNow \/ ReturnSync PROVE Service!Next
<1>1. Len(running) \in DOMAIN running /\ running[Len(running)] \in Parses
  BY DEF IInv, Types, EmitNow, ReturnSync
<1>2. PICK p \in Parses : p = running[Len(running)]
  BY <1>1
<1>3. /\ Kind[p] = "sync" /\ phase[p] = "parsing" /\ answer[p] = "none" /\ p \notin cancelled
      /\ Len(heard[p]) = sent[p] /\ sent[p] \in Nat
  BY <1>1, <1>2 DEF IInv, Types, OnMain, Stages, Stage
<1>4. Service!Waiting(p)
  BY <1>3 DEF Service!Waiting
<1>5. CASE EmitNow
  <2>1. Len(heard[p]) < Size[p] /\ heard' = [heard EXCEPT ![p] = Append(@, Len(@) + 1)]
    BY <1>2, <1>3, <1>5 DEF EmitNow, Last
  <2>2. Service!Hear(p)
    BY <1>4, <1>5, <2>1 DEF EmitNow, Service!Hear
  <2>. QED BY <2>2 DEF Service!Next
<1>6. CASE ReturnSync
  <2>1. /\ Len(heard[p]) = Size[p]
        /\ phase' = [phase EXCEPT ![p] = "left"]
        /\ answer' = [answer EXCEPT ![p] = "result"]
    BY <1>2, <1>3, <1>6 DEF ReturnSync, Last
  <2>2. Asked' = Asked
    BY <1>3, <2>1 DEF Asked, IInv, Types
  <2>3. Service!Answer(p)
    BY <1>3, <1>4, <1>6, <2>1, <2>2 DEF ReturnSync, Service!Answer, Asked
  <2>. QED BY <2>3 DEF Service!Next
<1>. QED BY <1>5, <1>6

LEMMA StepsShow == IInv /\ [Next]_vars => [Service!Next]_(Service!vars)
<1>. SUFFICES ASSUME IInv, [Next]_vars PROVE [Service!Next]_(Service!vars)
  OBVIOUS
<1>1. CASE Application
  BY <1>1, ApplicationShows
<1>2. CASE MainLoop
  <2>1. PICK i \in DOMAIN queue : IsNext(i) /\ (DispatchSignal(i) \/ DispatchCallback(i))
    BY <1>2 DEF MainLoop
  <2>2. i = 1 /\ queue # <<>>
    BY <2>1, OldestIsNext
  <2>. QED BY <2>1, <2>2, SignalShows, CallbackShows
<1>3. CASE EmitNow \/ ReturnSync
  BY <1>3, SyncShows
<1>4. ASSUME NEW p \in Parses, Worker(p) PROVE UNCHANGED Service!vars
  BY <1>4, WorkerIsHidden
<1>5. CASE UNCHANGED vars
  BY <1>5, Hidden DEF vars, Asked
<1>. QED BY <1>1, <1>2, <1>3, <1>4, <1>5 DEF Next, MainThread

\* The service the application is given (ParseService): whatever threads, main
\* loop and references do behind it, each parse's signals arrive in their order
\* and then its one result; a parse cancelled before it began has no signals.
THEOREM ServiceIsKept == Spec => KeepsService
<1>1. Init => Service!Init
  BY DEF Init, Service!Init
<1>. QED BY <1>1, StepsShow, IInvHolds, PTL DEF Spec, KeepsService, Service!Spec
===============================================================================
