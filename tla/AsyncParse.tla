----------------------------- MODULE AsyncParse -----------------------------
(* Several parses of one TotemPlParser: the worker threads of                *)
(* totem_pl_parser_parse_async, the main loop that delivers their signals    *)
(* and calls the application back, synchronous parses that run between two   *)
(* turns of the main loop or inside a signal handler, cancellation, and the  *)
(* references that keep the parser alive.  A parse emits a given number of   *)
(* signals (ParseEngine says which); they are numbered here.                 *)
EXTENDS Integers, SequencesExt

CONSTANTS
  Parses,     \* the parses the application may ask for
  Kind,       \* "async" or "sync", for each of them
  Size        \* how many signals each of them emits

ASSUME ParsesAssumption ==
  /\ Kind \in [Parses -> {"async", "sync"}]
  /\ Size \in [Parses -> Nat]

VARIABLES
  phase,      \* how far each parse is
  sent,       \* how many signals it has emitted
  queue,      \* the sources attached to the main loop, oldest first
  running,    \* the synchronous parses on the main thread, innermost last
  outcome,    \* what the task of an asynchronous parse will return
  cancelled,  \* the parses whose cancellable was cancelled
  heard,      \* the signals of each parse the application has received
  answer,     \* the result it was given for it
  held,       \* whether the application holds its reference to the parser
  refs        \* the references to the parser; at 0 it is finalized

vars == <<phase, sent, queue, running, outcome, cancelled, heard, answer, held, refs>>

Phases == {"new", "pooled", "parsing", "returned", "left"}

\* A source of the main loop, dispatched in the order of the priorities and,
\* among equals, of age: a signal of a parse, or the end of its task.
Source(p, what, n, priority) == [parse |-> p, what |-> what, n |-> n, priority |-> priority]
Sources == [parse : Parses, what : {"signal", "task"}, n : Nat, priority : Int]

\* The priority of g_task's completion, and of CALL_ASYNC.
G_PRIORITY_DEFAULT == 0
\* A mistake: the usual priority of idle functions.
SignalPriority_Idle == 200
SignalPriority == G_PRIORITY_DEFAULT

Init ==
  /\ phase = [p \in Parses |-> "new"]
  /\ sent = [p \in Parses |-> 0]
  /\ queue = <<>>
  /\ running = <<>>
  /\ outcome = [p \in Parses |-> "none"]
  /\ cancelled = {}
  /\ heard = [p \in Parses |-> <<>>]
  /\ answer = [p \in Parses |-> "none"]
  /\ held = TRUE
  /\ refs = 1

---------------------------------------------------------------------------
\* The application

\* totem_pl_parser_parse_with_base_async: the task holds the parser.
ParseAsync(p) ==
  /\ held
  /\ Kind[p] = "async"
  /\ phase[p] = "new"
  /\ phase' = [phase EXCEPT ![p] = "pooled"]
  /\ refs' = refs + 1
  /\ UNCHANGED <<sent, queue, running, outcome, cancelled, heard, answer, held>>

\* totem_pl_parser_parse_with_base on the main thread, also inside a signal
\* handler of another synchronous parse.
ParseSync(p) ==
  /\ held
  /\ Kind[p] = "sync"
  /\ phase[p] = "new"
  /\ running # <<>> => heard[Last(running)] # <<>>
  /\ phase' = [phase EXCEPT ![p] = "parsing"]
  /\ running' = Append(running, p)
  /\ UNCHANGED <<sent, queue, outcome, cancelled, heard, answer, held, refs>>

Cancel(p) ==
  /\ Kind[p] = "async"
  /\ p \notin cancelled
  /\ cancelled' = cancelled \cup {p}
  /\ UNCHANGED <<phase, sent, queue, running, outcome, heard, answer, held, refs>>

\* The application drops its reference, whatever is still under way.
Unref ==
  /\ held
  /\ running = <<>>
  /\ held' = FALSE
  /\ refs' = refs - 1
  /\ UNCHANGED <<phase, sent, queue, running, outcome, cancelled, heard, answer>>

---------------------------------------------------------------------------
\* A worker thread

\* A mistake: the task of a cancelled parse is never completed.
RefuseCancelled_Silently(p) ==
  /\ phase[p] = "pooled"
  /\ p \in cancelled
  /\ outcome' = [outcome EXCEPT ![p] = "cancelled"]
  /\ phase' = [phase EXCEPT ![p] = "returned"]
  /\ UNCHANGED <<sent, queue, running, cancelled, heard, answer, held, refs>>

\* A mistake: the task is completed, and parsed all the same.
RefuseCancelled_FallsThrough(p) ==
  /\ phase[p] = "pooled"
  /\ p \in cancelled
  /\ outcome' = [outcome EXCEPT ![p] = "cancelled"]
  /\ queue' = Append(queue, Source(p, "task", 0, G_PRIORITY_DEFAULT))
  /\ phase' = [phase EXCEPT ![p] = "parsing"]
  /\ UNCHANGED <<sent, running, cancelled, heard, answer, held, refs>>

\* parse_thread: a parse cancelled before it began returns at once.
RefuseCancelled(p) ==
  /\ phase[p] = "pooled"
  /\ p \in cancelled
  /\ outcome' = [outcome EXCEPT ![p] = "cancelled"]
  /\ queue' = Append(queue, Source(p, "task", 0, G_PRIORITY_DEFAULT))
  /\ phase' = [phase EXCEPT ![p] = "returned"]
  /\ UNCHANGED <<sent, running, cancelled, heard, answer, held, refs>>

BeginParse(p) ==
  /\ phase[p] = "pooled"
  /\ p \notin cancelled
  /\ phase' = [phase EXCEPT ![p] = "parsing"]
  /\ UNCHANGED <<sent, queue, running, outcome, cancelled, heard, answer, held, refs>>

\* A mistake: the signal's data do not hold the parser.
EmitLater_Unheld(p) ==
  /\ Kind[p] = "async"
  /\ phase[p] = "parsing"
  /\ sent[p] < Size[p]
  /\ sent' = [sent EXCEPT ![p] = @ + 1]
  /\ queue' = Append(queue, Source(p, "signal", sent[p] + 1, SignalPriority))
  /\ UNCHANGED <<phase, running, outcome, cancelled, heard, answer, held, refs>>

\* CALL_ASYNC off the main thread: the signal waits for the main loop, and its
\* data hold the parser.
EmitLater(p) ==
  /\ Kind[p] = "async"
  /\ phase[p] = "parsing"
  /\ sent[p] < Size[p]
  /\ sent' = [sent EXCEPT ![p] = @ + 1]
  /\ queue' = Append(queue, Source(p, "signal", sent[p] + 1, SignalPriority))
  /\ refs' = refs + 1
  /\ UNCHANGED <<phase, running, outcome, cancelled, heard, answer, held>>

\* g_task_return_int: the completion waits for the main loop too.
ReturnFromThread(p) ==
  /\ Kind[p] = "async"
  /\ phase[p] = "parsing"
  /\ sent[p] = Size[p]
  /\ outcome' = [outcome EXCEPT ![p] = "result"]
  /\ queue' = Append(queue, Source(p, "task", 0, G_PRIORITY_DEFAULT))
  /\ phase' = [phase EXCEPT ![p] = "returned"]
  /\ UNCHANGED <<sent, running, cancelled, heard, answer, held, refs>>

\* The thread lets the task go; whoever is last drops the task's reference.
LeaveThread(p) ==
  /\ phase[p] = "returned"
  /\ phase' = [phase EXCEPT ![p] = "left"]
  /\ refs' = IF answer[p] # "none" THEN refs - 1 ELSE refs
  /\ UNCHANGED <<sent, queue, running, outcome, cancelled, heard, answer, held>>

---------------------------------------------------------------------------
\* The main thread

\* The source the main loop dispatches next.
IsNext(i) ==
  \A j \in DOMAIN queue :
    \/ queue[i].priority < queue[j].priority
    \/ queue[i].priority = queue[j].priority /\ i <= j

\* A mistake: the signal's data are freed without their reference.
DispatchSignal_Keeps(i) ==
  LET s == queue[i]
  IN  /\ s.what = "signal"
      /\ heard' = [heard EXCEPT ![s.parse] = Append(@, s.n)]
      /\ queue' = RemoveAt(queue, i)
      /\ UNCHANGED <<phase, sent, running, outcome, cancelled, answer, held, refs>>

\* emit_entry_parsed_signal, emit_playlist_ended_signal from the main loop.
DispatchSignal(i) ==
  LET s == queue[i]
  IN  /\ s.what = "signal"
      /\ heard' = [heard EXCEPT ![s.parse] = Append(@, s.n)]
      /\ refs' = refs - 1
      /\ queue' = RemoveAt(queue, i)
      /\ UNCHANGED <<phase, sent, running, outcome, cancelled, answer, held>>

\* The callback, in which the application calls totem_pl_parser_parse_finish:
\* g_task_propagate_int looks at the cancellable again.
DispatchCallback(i) ==
  LET s == queue[i]
  IN  /\ s.what = "task"
      /\ answer' = [answer EXCEPT ![s.parse] =
                      IF s.parse \in cancelled THEN "cancelled" ELSE outcome[s.parse]]
      /\ refs' = IF phase[s.parse] = "left" THEN refs - 1 ELSE refs
      /\ queue' = RemoveAt(queue, i)
      /\ UNCHANGED <<phase, sent, running, outcome, cancelled, heard, held>>

\* CALL_ASYNC on the main thread: the signal is emitted at once.
EmitNow ==
  /\ running # <<>>
  /\ LET p == Last(running)
     IN  /\ sent[p] < Size[p]
         /\ sent' = [sent EXCEPT ![p] = @ + 1]
         /\ heard' = [heard EXCEPT ![p] = Append(@, sent[p] + 1)]
  /\ UNCHANGED <<phase, queue, running, outcome, cancelled, answer, held, refs>>

ReturnSync ==
  /\ running # <<>>
  /\ LET p == Last(running)
     IN  /\ sent[p] = Size[p]
         /\ phase' = [phase EXCEPT ![p] = "left"]
         /\ answer' = [answer EXCEPT ![p] = "result"]
  /\ running' = Front(running)
  /\ UNCHANGED <<sent, queue, outcome, cancelled, heard, held, refs>>

---------------------------------------------------------------------------
Application ==
  Unref \/ \E p \in Parses : ParseAsync(p) \/ ParseSync(p) \/ Cancel(p)

Worker(p) ==
  RefuseCancelled(p) \/ BeginParse(p) \/ EmitLater(p) \/ ReturnFromThread(p) \/ LeaveThread(p)

MainLoop ==
  /\ running = <<>>
  /\ \E i \in DOMAIN queue : IsNext(i) /\ (DispatchSignal(i) \/ DispatchCallback(i))

MainThread == MainLoop \/ EmitNow \/ ReturnSync

Next == Application \/ MainThread \/ \E p \in Parses : Worker(p)

Spec == Init /\ [][Next]_vars

\* Threads that can run do run: the main loop of the application, and each
\* task's thread once the pool starts it.  The application owes nothing.
FairSpec == Spec /\ WF_vars(MainThread) /\ \A p \in Parses : WF_vars(Worker(p))
=============================================================================
