------------------------------ MODULE SaveProof ------------------------------
(* Theorems about PlaylistSave, for any playlists, formats and schemes.      *)
EXTENDS SaveProperties, FiniteSetTheorems, FunctionTheorems, SequenceTheorems, TLAPS

\* Where the save is with its stream: none before it is opened, one while it
\* writes, and at the end one that savers which return at once still hold.
StreamFollowsSave ==
  /\ pc \in {"idle", "count", "open"} => stream = "none"
  /\ pc = "write" => stream = "open"
  /\ pc = "close" /\ ReturnsAtOnce => stream = "open"

IInv == StreamIsReleased /\ StreamFollowsSave

\* The steps of the thread before the file is open, and the opening.
LEMMA OpeningKeepsIInv ==
  ASSUME IInv, Count \/ Open \/ OpenFails
  PROVE  IInv'
<1>1. CASE Count
  BY <1>1 DEF Count, IInv, StreamIsReleased, StreamFollowsSave, ReturnsAtOnce, call
<1>2. CASE Open
  BY <1>2 DEF Open, IInv, StreamIsReleased, StreamFollowsSave, ReturnsAtOnce, call
<1>3. CASE OpenFails
  BY <1>3 DEF OpenFails, IInv, StreamIsReleased, StreamFollowsSave, ReturnsAtOnce, call
<1> QED BY <1>1, <1>2, <1>3

\* A write that fails lets the stream go, and the savers of PLS and M3U return.
LEMMA WritingKeepsIInv ==
  ASSUME IInv, Write \/ WriteFails \/ NextRow \/ RowFails \/ WriteFooter \/ EndOfRows
  PROVE  IInv'
<1>1. CASE Write
  BY <1>1 DEF Write, IInv, StreamIsReleased, StreamFollowsSave, ReturnsAtOnce, call
<1>2. CASE WriteFails
  <2>1. ReturnsAtOnce => ~GoesOn(Head(todo))
    BY DEF ReturnsAtOnce, GoesOn
  <2> QED BY <1>2, <2>1 DEF WriteFails, IInv, StreamIsReleased, StreamFollowsSave,
                            ReturnsAtOnce, call
<1>3. CASE NextRow
  BY <1>3 DEF NextRow, AtRow, IInv, StreamIsReleased, StreamFollowsSave, ReturnsAtOnce, call
<1>4. CASE RowFails
  BY <1>4 DEF RowFails, AtRow, NoPath, IInv, StreamIsReleased, StreamFollowsSave,
              ReturnsAtOnce, call
<1>5. CASE WriteFooter
  BY <1>5 DEF WriteFooter, IInv, StreamIsReleased, StreamFollowsSave, ReturnsAtOnce, call
<1>6. CASE EndOfRows
  BY <1>6 DEF EndOfRows, IInv, StreamIsReleased, StreamFollowsSave, ReturnsAtOnce, call
<1> QED BY <1>1, <1>2, <1>3, <1>4, <1>5, <1>6

\* The end of the thread, and what the main thread does.
LEMMA EndingKeepsIInv ==
  ASSUME IInv,
         Close \/ CloseAgain \/ Save \/ Cancel \/ Answer
           \/ \E s \in Schemes : AddIgnoredScheme(s)
  PROVE  IInv'
<1>1. CASE Close
  BY <1>1 DEF Close, IInv, StreamIsReleased, StreamFollowsSave, ReturnsAtOnce, call
<1>2. CASE CloseAgain
  BY <1>2 DEF CloseAgain, IInv, StreamIsReleased, StreamFollowsSave, ReturnsAtOnce, call
<1>3. CASE Save
  BY <1>3 DEF Save, IInv, StreamIsReleased, StreamFollowsSave, ReturnsAtOnce, call
<1>4. CASE Cancel
  BY <1>4 DEF Cancel, IInv, StreamIsReleased, StreamFollowsSave, ReturnsAtOnce, call
<1>5. CASE Answer
  BY <1>5 DEF Answer, IInv, StreamIsReleased, StreamFollowsSave, ReturnsAtOnce, call
<1>6. CASE \E s \in Schemes : AddIgnoredScheme(s)
  BY <1>6 DEF AddIgnoredScheme, IInv, StreamIsReleased, StreamFollowsSave, ReturnsAtOnce, call
<1> QED BY <1>1, <1>2, <1>3, <1>4, <1>5, <1>6

\* Every way through a save, failed writes and cancellation included, lets the
\* stream go, and the savers of PLS and M3U let it go once.
THEOREM StreamIsLetGo == Spec => []StreamIsReleased
<1>1. Init => IInv
  BY DEF Init, IInv, StreamIsReleased, StreamFollowsSave
<1>2. IInv /\ [Next]_vars => IInv'
  <2> SUFFICES ASSUME IInv, [Next]_vars PROVE IInv'
    OBVIOUS
  <2>1. CASE Next
    BY <2>1, OpeningKeepsIInv, WritingKeepsIInv, EndingKeepsIInv DEF Next, Thread
  <2>2. CASE UNCHANGED vars
    BY <2>2 DEF vars, IInv, StreamIsReleased, StreamFollowsSave, ReturnsAtOnce
  <2> QED BY <2>1, <2>2
<1>3. IInv => StreamIsReleased
  BY DEF IInv
<1> QED BY <1>1, <1>2, <1>3, PTL DEF Spec

---------------------------------------------------------------------------
(* The types, and where the walks over the playlist are.                     *)

Keys == {"[playlist]", "NumberOfEntries", "#EXTM3U", "file", "title", "/track", "/playlist"}
Lines == [key : Keys, no : Int, value : DOMAIN rows \cup {NULL}]

\* The playlist saved is one of those there may be.
CallIsAllowed == rows \in Playlists /\ format \in Formats

\* The first walk counts the rows it is behind, the second numbers them, and
\* nothing is written before it.
WalksAreInside ==
  /\ ignored \in SUBSET Schemes
  /\ cancelled \in BOOLEAN
  /\ i \in 1..(Len(rows) + 2)
  /\ entries \in 0..Len(rows)
  /\ number \in 0..Len(rows)
  /\ number < i
  /\ pc \in {"idle", "open"} => i = 1
  /\ pc = "idle" => entries = 0
  /\ pc = "count" => i <= Len(rows) /\ entries < i
  /\ pc \in {"idle", "count", "open"} => number = 0

LinesAreOfRows == todo \in Seq(Lines) /\ written \in Seq(Lines)

EndsAreKnown ==
  /\ pc \in {"idle", "count", "open", "write", "close", "returned", "answered", "crashed"}
  /\ stream \in {"none", "open", "finalized"}
  /\ outcome \in Results
  /\ answer \in Results

TypeIInv == CallIsAllowed /\ WalksAreInside /\ LinesAreOfRows /\ EndsAreKnown

\* Each row is a URI's scheme, or none, and whether there is a title.
LEMMA RowsAreRows ==
  ASSUME TypeIInv
  PROVE  /\ rows \in Seq([scheme : Schemes \cup {NULL}, titled : BOOLEAN])
         /\ Len(rows) \in Nat
         /\ DOMAIN rows = 1..Len(rows)
         /\ rows = <<>> <=> Len(rows) = 0
<1>1. rows \in Seq([scheme : Schemes \cup {NULL}, titled : BOOLEAN])
  BY SaveAssumption DEF TypeIInv, CallIsAllowed
<1>2. \A S : rows \in Seq(S) =>
             Len(rows) \in Nat /\ DOMAIN rows = 1..Len(rows) /\ (rows = <<>> <=> Len(rows) = 0)
  OBVIOUS
<1> QED BY <1>1, <1>2

\* A line has a number and is about a row or none.
LEMMA LineIsLine ==
  ASSUME NEW key \in Keys, NEW n \in Int, NEW v \in DOMAIN rows \cup {NULL}
  PROVE  Line(key, n, v) \in Lines
<1> DEFINE V == DOMAIN rows \cup {NULL}
<1>1. v \in V
  OBVIOUS
<1> HIDE DEF V
<1>2. [key |-> key, no |-> n, value |-> v] \in [key : Keys, no : Int, value : V]
  BY <1>1
<1> QED BY <1>2 DEF Line, Lines, V

\* The lines of a row are about that row, the header's and footer's about none.
LEMMA RowLinesAreLines ==
  ASSUME CallIsAllowed, NEW k \in DOMAIN rows, NEW n \in Int
  PROVE  RowLines(k, n) \in Seq(Lines)
<1>1. /\ Line("title", n, k) \in Lines /\ Line("title", 0, k) \in Lines
      /\ Line("file", n, k) \in Lines /\ Line("file", 0, k) \in Lines
      /\ Line("/track", 0, NULL) \in Lines
  <2>1. {"title", "file", "/track"} \subseteq Keys /\ 0 \in Int
    BY DEF Keys
  <2>2. k \in DOMAIN rows \cup {NULL} /\ NULL \in DOMAIN rows \cup {NULL}
    OBVIOUS
  <2> QED BY <2>1, <2>2, LineIsLine, Zenon
<1>2. \A l \in Lines : <<l>> \in Seq(Lines)
  OBVIOUS
<1>3. TitleLine(k, n) \in Seq(Lines) /\ TitleLine(k, 0) \in Seq(Lines)
  <2>1. <<>> \in Seq(Lines)
    OBVIOUS
  <2>2. <<Line("title", n, k)>> \in Seq(Lines) /\ <<Line("title", 0, k)>> \in Seq(Lines)
    BY <1>1, <1>2
  <2> QED BY <2>1, <2>2 DEF TitleLine
<1>4. format \in {"pls", "m3u", "xspf", "pla"}
  BY SaveAssumption DEF CallIsAllowed
<1>5. \A s, t \in Seq(Lines) : s \o t \in Seq(Lines)
  OBVIOUS
<1>6. /\ <<Line("file", n, k)>> \in Seq(Lines)
      /\ <<Line("file", 0, k)>> \in Seq(Lines)
      /\ <<Line("/track", 0, NULL)>> \in Seq(Lines)
  BY <1>1, <1>2
<1>7. CASE format = "pls"
  BY <1>3, <1>5, <1>6, <1>7 DEF RowLines
<1>8. CASE format = "m3u"
  BY <1>3, <1>5, <1>6, <1>8 DEF RowLines
<1>9. CASE format = "xspf"
  BY <1>3, <1>5, <1>6, <1>9 DEF RowLines
<1>10. CASE format = "pla"
  BY <1>6, <1>10 DEF RowLines
<1> QED BY <1>4, <1>7, <1>8, <1>9, <1>10

LEMMA HeaderIsLines ==
  ASSUME TypeIInv
  PROVE  Header \in Seq(Lines) /\ <<Footer>> \in Seq(Lines)
<1>1. entries \in Int /\ Len(rows) \in Int
  BY RowsAreRows DEF TypeIInv, WalksAreInside
<1>2. /\ Line("[playlist]", 0, NULL) \in Lines
      /\ Line("NumberOfEntries", entries, NULL) \in Lines
      /\ Line("NumberOfEntries", Len(rows), NULL) \in Lines
      /\ Line("#EXTM3U", 0, NULL) \in Lines
      /\ Footer \in Lines
  <2>1. {"[playlist]", "NumberOfEntries", "#EXTM3U", "/playlist"} \subseteq Keys /\ 0 \in Int
    BY DEF Keys
  <2>2. NULL \in DOMAIN rows \cup {NULL}
    OBVIOUS
  <2> QED BY <1>1, <2>1, <2>2, LineIsLine, Zenon DEF Footer
<1>3. \A l, m \in Lines : <<l>> \in Seq(Lines) /\ <<l, m>> \in Seq(Lines)
  OBVIOUS
<1>4. ASSUME format = "pls" PROVE Header \in Seq(Lines)
  <2>1. <<Line("[playlist]", 0, NULL), Line("NumberOfEntries", entries, NULL)>> \in Seq(Lines)
    BY <1>2, <1>3
  <2>2. Header = <<Line("[playlist]", 0, NULL), Line("NumberOfEntries", entries, NULL)>>
    BY <1>4 DEF Header
  <2> QED BY <2>1, <2>2
<1>5. ASSUME format # "pls" PROVE Header \in Seq(Lines)
  <2>1. /\ <<Line("NumberOfEntries", Len(rows), NULL)>> \in Seq(Lines)
        /\ <<Line("#EXTM3U", 0, NULL)>> \in Seq(Lines)
    BY <1>2, <1>3
  <2>2. Header \in {<<Line("NumberOfEntries", Len(rows), NULL)>>, <<Line("#EXTM3U", 0, NULL)>>}
    BY <1>5 DEF Header
  <2> QED BY <2>1, <2>2
<1>6. <<Footer>> \in Seq(Lines)
  BY <1>2, <1>3
<1> QED BY <1>4, <1>5, <1>6

\* Actions that leave the lines alone keep the lines.
LEMMA SameLines ==
  ASSUME LinesAreOfRows, UNCHANGED <<rows, todo, written>>
  PROVE  LinesAreOfRows'
BY DEF LinesAreOfRows, Lines

LEMMA OpeningKeepsTypes ==
  ASSUME TypeIInv, Save \/ Count \/ Open \/ OpenFails
  PROVE  TypeIInv'
<1> USE RowsAreRows
<1>1. CASE Save
  <2>1. LinesAreOfRows' /\ CallIsAllowed'
    BY <1>1, SameLines DEF Save, TypeIInv, CallIsAllowed, call
  <2>2. WalksAreInside' /\ EndsAreKnown'
    BY <1>1 DEF Save, TypeIInv, WalksAreInside, EndsAreKnown, call, walk, Results
  <2> QED BY <2>1, <2>2 DEF TypeIInv
<1>2. CASE Count
  <2>1. LinesAreOfRows' /\ CallIsAllowed' /\ EndsAreKnown'
    BY <1>2, SameLines DEF Count, TypeIInv, CallIsAllowed, EndsAreKnown, call
  <2>2. entries' \in {entries, entries + 1}
    BY <1>2 DEF Count, TypeIInv, WalksAreInside
  <2>3. WalksAreInside'
    BY <1>2, <2>2 DEF Count, TypeIInv, WalksAreInside, call
  <2> QED BY <2>1, <2>3 DEF TypeIInv
<1>3. CASE Open
  <2>1. CallIsAllowed' /\ EndsAreKnown' /\ WalksAreInside'
    BY <1>3 DEF Open, TypeIInv, CallIsAllowed, EndsAreKnown, WalksAreInside, call, walk
  <2>2. LinesAreOfRows'
    BY <1>3, HeaderIsLines DEF Open, TypeIInv, LinesAreOfRows, Lines, call
  <2> QED BY <2>1, <2>2 DEF TypeIInv
<1>4. CASE OpenFails
  <2>1. LinesAreOfRows' /\ CallIsAllowed'
    BY <1>4, SameLines DEF OpenFails, TypeIInv, CallIsAllowed, call
  <2>2. WalksAreInside' /\ EndsAreKnown'
    BY <1>4 DEF OpenFails, Failure, TypeIInv, WalksAreInside, EndsAreKnown, call, walk, Results
  <2> QED BY <2>1, <2>2 DEF TypeIInv
<1> QED BY <1>1, <1>2, <1>3, <1>4

LEMMA WritingKeepsTypes ==
  ASSUME TypeIInv, Write \/ WriteFails \/ NextRow \/ RowFails \/ WriteFooter \/ EndOfRows
  PROVE  TypeIInv'
<1> USE RowsAreRows
<1>1. CASE Write
  <2>1. CallIsAllowed' /\ EndsAreKnown' /\ WalksAreInside'
    BY <1>1 DEF Write, TypeIInv, CallIsAllowed, EndsAreKnown, WalksAreInside, call, walk
  <2>2. Head(todo) \in Lines /\ Tail(todo) \in Seq(Lines)
    BY <1>1, HeadTailProperties DEF Write, TypeIInv, LinesAreOfRows
  <2>3. written' \in Seq(Lines) /\ todo' \in Seq(Lines)
    BY <1>1, <2>2 DEF Write, TypeIInv, LinesAreOfRows
  <2>4. LinesAreOfRows'
    BY <1>1, <2>3 DEF Write, LinesAreOfRows, Lines, call
  <2> QED BY <2>1, <2>4 DEF TypeIInv
<1>2. CASE WriteFails
  <2>1. CallIsAllowed' /\ EndsAreKnown' /\ WalksAreInside'
    BY <1>2 DEF WriteFails, Failure, TypeIInv, CallIsAllowed, EndsAreKnown, WalksAreInside,
                call, walk, Results
  <2>2. LinesAreOfRows'
    BY <1>2 DEF WriteFails, TypeIInv, LinesAreOfRows, Lines, call
  <2> QED BY <2>1, <2>2 DEF TypeIInv
<1>3. CASE NextRow
  <2>1. number' \in {number, number + 1} /\ number' \in Int
    BY <1>3 DEF NextRow, TypeIInv, WalksAreInside
  <2>2. CallIsAllowed' /\ EndsAreKnown' /\ WalksAreInside'
    BY <1>3, <2>1 DEF NextRow, AtRow, TypeIInv, CallIsAllowed, EndsAreKnown, WalksAreInside, call
  <2>3. i \in DOMAIN rows
    BY <1>3 DEF NextRow, AtRow, TypeIInv, WalksAreInside
  <2>4. todo' \in Seq(Lines)
    BY <1>3, <2>1, <2>3, RowLinesAreLines DEF NextRow, TypeIInv
  <2>5. LinesAreOfRows'
    BY <1>3, <2>4 DEF NextRow, TypeIInv, LinesAreOfRows, Lines, call
  <2> QED BY <2>2, <2>5 DEF TypeIInv
<1>4. CASE RowFails
  <2>1. LinesAreOfRows' /\ CallIsAllowed'
    BY <1>4, SameLines DEF RowFails, TypeIInv, CallIsAllowed, call
  <2>2. WalksAreInside' /\ EndsAreKnown'
    BY <1>4 DEF RowFails, TypeIInv, WalksAreInside, EndsAreKnown, call, walk, Results
  <2> QED BY <2>1, <2>2 DEF TypeIInv
<1>5. CASE WriteFooter
  <2>1. CallIsAllowed' /\ EndsAreKnown' /\ WalksAreInside'
    BY <1>5 DEF WriteFooter, TypeIInv, CallIsAllowed, EndsAreKnown, WalksAreInside, call
  <2>2. LinesAreOfRows'
    BY <1>5, HeaderIsLines DEF WriteFooter, TypeIInv, LinesAreOfRows, Lines, call
  <2> QED BY <2>1, <2>2 DEF TypeIInv
<1>6. CASE EndOfRows
  <2>1. LinesAreOfRows' /\ CallIsAllowed'
    BY <1>6, SameLines DEF EndOfRows, TypeIInv, CallIsAllowed, call
  <2>2. WalksAreInside' /\ EndsAreKnown'
    BY <1>6 DEF EndOfRows, TypeIInv, WalksAreInside, EndsAreKnown, call, walk
  <2> QED BY <2>1, <2>2 DEF TypeIInv
<1> QED BY <1>1, <1>2, <1>3, <1>4, <1>5, <1>6

LEMMA EndingKeepsTypes ==
  ASSUME TypeIInv,
         Close \/ CloseAgain \/ Cancel \/ Answer \/ \E s \in Schemes : AddIgnoredScheme(s)
  PROVE  TypeIInv'
<1> USE RowsAreRows
<1>1. LinesAreOfRows' /\ CallIsAllowed'
  <2>1. UNCHANGED <<rows, format, todo, written>>
    BY DEF Close, CloseAgain, Cancel, Answer, AddIgnoredScheme, call
  <2> QED BY <2>1, SameLines DEF TypeIInv, CallIsAllowed
<1>2. WalksAreInside'
  <2>1. CASE Close \/ CloseAgain \/ Answer
    BY <2>1 DEF Close, CloseAgain, Answer, TypeIInv, WalksAreInside, call, walk
  <2>2. CASE Cancel
    BY <2>2 DEF Cancel, TypeIInv, WalksAreInside, call, walk
  <2>3. CASE \E s \in Schemes : AddIgnoredScheme(s)
    BY <2>3 DEF AddIgnoredScheme, TypeIInv, WalksAreInside, call, walk
  <2> QED BY <2>1, <2>2, <2>3
<1>3. EndsAreKnown'
  BY DEF Close, CloseAgain, Cancel, Answer, AddIgnoredScheme, TypeIInv, EndsAreKnown, Results
<1> QED BY <1>1, <1>2, <1>3 DEF TypeIInv

LEMMA TypesFromTheStart ==
  ASSUME Init
  PROVE  TypeIInv
<1>1. CallIsAllowed /\ LinesAreOfRows /\ EndsAreKnown
  BY DEF Init, CallIsAllowed, LinesAreOfRows, EndsAreKnown, Results
<1>2. Len(rows) \in Nat
  BY SaveAssumption DEF Init
<1>3. Ignored \subseteq Schemes
  BY SaveAssumption
<1>4. WalksAreInside
  <2>1. i = 1 /\ entries = 0 /\ number = 0 /\ pc = "idle"
    BY DEF Init
  <2>2. ignored \in SUBSET Schemes /\ cancelled \in BOOLEAN
    BY <1>3 DEF Init
  <2> QED BY <1>2, <2>1, <2>2 DEF WalksAreInside
<1> QED BY <1>1, <1>4 DEF TypeIInv

LEMMA StepsKeepTypes ==
  ASSUME TypeIInv, [Next]_vars
  PROVE  TypeIInv'
<1>1. CASE Next
  BY <1>1, OpeningKeepsTypes, WritingKeepsTypes, EndingKeepsTypes DEF Next, Thread
<1>2. CASE UNCHANGED vars
  <2>1. LinesAreOfRows' /\ CallIsAllowed' /\ WalksAreInside' /\ EndsAreKnown'
    BY <1>2, SameLines DEF vars, TypeIInv, CallIsAllowed, WalksAreInside, EndsAreKnown
  <2> QED BY <2>1 DEF TypeIInv
<1> QED BY <1>1, <1>2

\* What is written or about to be is about the rows of the playlist, and no
\* walk or count goes past them.
THEOREM SaveTypesHold == Spec => []SaveTypeOK
<1>1. TypeIInv => SaveTypeOK
  <2> SUFFICES ASSUME TypeIInv PROVE SaveTypeOK
    OBVIOUS
  <2>1. \A l \in Range(todo \o written) : l.value \in DOMAIN rows \cup {NULL}
    <3>1. todo \o written \in Seq(Lines)
      BY DEF TypeIInv, LinesAreOfRows
    <3>2. \A l \in Range(todo \o written) : l \in Lines
      BY <3>1 DEF Range
    <3> QED BY <3>2 DEF Lines
  <2> QED BY <2>1 DEF TypeIInv, WalksAreInside, EndsAreKnown, SaveTypeOK
<1> QED BY <1>1, TypesFromTheStart, StepsKeepTypes, PTL DEF Spec

---------------------------------------------------------------------------
(* The count of a PLS file: the rows counted, those still to be numbered and *)
(* the entries in the file agree at every step.                              *)

\* The rows that the walk has been at, and that it will be at, and that are
\* written as the ignored schemes are now.
Behind == {k \in 1..(i - 1) : Accepted(rows[k])}
Ahead == {k \in i..Len(rows) : Accepted(rows[k])}

\* What was counted is enough for the rows seen, and exact while the ignored
\* schemes are those of the start; later, for the rows numbered and to come.
CountCoversWalk ==
  format = "pls" =>
    /\ pc = "count" =>
         /\ Cardinality(Behind) <= entries
         /\ ignored = Ignored => Cardinality(Behind) = entries
    /\ pc \notin {"idle", "count"} =>
         /\ number + Cardinality(Ahead) <= entries
         /\ ignored = Ignored => number + Cardinality(Ahead) = entries

\* Whether the next line to write is that of an entry: no line after it is.
EntryIsNext == todo # <<>> /\ Counted(todo[1])
NumbersAreWritten ==
  format = "pls" /\ outcome \in {"none", "saved"} =>
    /\ number = Cardinality(Files) + (IF EntryIsNext THEN 1 ELSE 0)
    /\ \A n \in 2..Len(todo) : ~Counted(todo[n])

\* A save that goes well ends behind the last row, with all lines written.
EndIsReached ==
  /\ pc \in {"idle", "count", "open"} => todo = <<>> /\ written = <<>>
  /\ pc \in {"idle", "count", "open", "write"} => outcome = "none"
  /\ (pc = "close" /\ outcome = "none") \/ outcome = "saved" => i > Len(rows) /\ todo = <<>>

CountIInv == CountCoversWalk /\ NumbersAreWritten /\ EndIsReached /\ Ignored \subseteq ignored

\* The sets that are counted are finite.
LEMMA CountedSets ==
  ASSUME TypeIInv
  PROVE  /\ IsFiniteSet(Behind) /\ Cardinality(Behind) \in Nat
         /\ IsFiniteSet(Ahead) /\ Cardinality(Ahead) \in Nat
         /\ IsFiniteSet(Files) /\ Cardinality(Files) \in Nat
<1>1. i \in Int /\ Len(rows) \in Int /\ i - 1 \in Int
  BY RowsAreRows DEF TypeIInv, WalksAreInside
<1>2. Behind \in SUBSET (1..(i - 1)) /\ Ahead \in SUBSET (i..Len(rows))
  BY DEF Behind, Ahead
<1>3. IsFiniteSet(1..(i - 1)) /\ IsFiniteSet(i..Len(rows))
  BY <1>1, FS_Interval
<1>4. Len(written) \in Int /\ Files \in SUBSET (1..Len(written))
  BY DEF TypeIInv, LinesAreOfRows, Files
<1>5. IsFiniteSet(1..Len(written))
  BY <1>4, FS_Interval
<1>6. IsFiniteSet(Behind) /\ IsFiniteSet(Ahead) /\ IsFiniteSet(Files)
  BY <1>2, <1>3, <1>4, <1>5, FS_Subset
<1> QED BY <1>6, FS_CardinalityType

\* A row is accepted or not by the format and the ignored schemes alone.
LEMMA SameAccepted ==
  ASSUME UNCHANGED <<format, ignored>>, NEW r
  PROVE  Accepted(r)' <=> Accepted(r)
BY DEF Accepted, AsksForScheme, HasUri

\* The first walk: a row joins those behind when it is counted.
LEMMA CountKeepsCount ==
  ASSUME TypeIInv, CountIInv, Count
  PROVE  CountIInv'
<1> USE RowsAreRows
<1>1. i \in 1..Len(rows) /\ entries \in Int /\ number = 0
  BY DEF Count, TypeIInv, WalksAreInside
<1> DEFINE Seen == {k \in 1..i : Accepted(rows[k])}
<1>2. Seen = IF Accepted(rows[i]) THEN Behind \cup {i} ELSE Behind
  BY <1>1 DEF Behind
<1>3. i \notin Behind
  BY <1>1 DEF Behind
<1>4. IsFiniteSet(Behind) /\ Cardinality(Behind) \in Nat
  BY CountedSets
<1>5. Cardinality(Seen) = Cardinality(Behind) + (IF Accepted(rows[i]) THEN 1 ELSE 0)
  <2> HIDE DEF Seen
  <2>1. Cardinality(Behind \cup {i}) = Cardinality(Behind) + 1
    BY <1>3, <1>4, FS_AddElement
  <2> QED BY <1>2, <1>4, <2>1
<1>6. \A k \in 1..Len(rows) : Accepted(rows[k])' <=> Accepted(rows[k])
  BY SameAccepted DEF Count, call
<1>7. CASE i = Len(rows)
  <2>1. Ahead' = Seen
    BY <1>1, <1>6, <1>7 DEF Count, Ahead, call
  <2>2. CountCoversWalk'
    BY <1>1, <1>4, <1>5, <1>7, <2>1 DEF Count, CountIInv, CountCoversWalk, call
  <2> QED BY <1>7, <2>2 DEF Count, CountIInv, NumbersAreWritten, EndIsReached, EntryIsNext, Files, call
<1>8. CASE i # Len(rows)
  <2>1. i' = i + 1 /\ pc = "count" /\ pc' = "count" /\ rows' = rows
    BY <1>8 DEF Count, call
  <2>2. i' - 1 = i
    BY <1>1, <2>1
  <2>3. Behind' = Seen
    BY <1>1, <1>6, <2>1, <2>2 DEF Behind
  <2> HIDE DEF Seen
  <2>4. entries' = entries + (IF Accepted(rows[i]) THEN 1 ELSE 0) /\ UNCHANGED <<format, ignored>>
    BY DEF Count, call
  <2>5. ASSUME format = "pls" PROVE CountCoversWalk'
    <3>1. /\ Cardinality(Behind) <= entries
          /\ ignored = Ignored => Cardinality(Behind) = entries
      BY <2>1, <2>5 DEF CountIInv, CountCoversWalk
    <3>2. /\ Cardinality(Seen) <= entries'
          /\ ignored = Ignored => Cardinality(Seen) = entries'
      BY <1>1, <1>4, <1>5, <2>4, <3>1
    <3> QED BY <2>1, <2>3, <2>4, <3>2 DEF CountCoversWalk
  <2>6. ASSUME format # "pls" PROVE CountCoversWalk'
    BY <2>4, <2>6 DEF CountCoversWalk
  <2>7. CountCoversWalk'
    BY <2>5, <2>6
  <2> QED BY <1>8, <2>7 DEF Count, CountIInv, NumbersAreWritten, EndIsReached, EntryIsNext, Files, call
<1> QED BY <1>7, <1>8

\* A line followed by a line.
LEMMA TwoLines ==
  ASSUME NEW a, NEW b
  PROVE  <<a>> \o <<b>> = <<a, b>>
<1> DEFINE S == {a, b}
           s == <<a>> \o <<b>>
           t == <<a, b>>
<1>1. <<a>> \in Seq(S) /\ <<b>> \in Seq(S) /\ t \in Seq(S)
  OBVIOUS
<1>2. s \in Seq(S) /\ Len(s) = 2 /\ s[1] = a /\ s[2] = b
  BY <1>1, ConcatProperties
<1>3. Len(t) = 2 /\ t[1] = a /\ t[2] = b
  OBVIOUS
<1> HIDE DEF S, s, t
<1>4. \A n \in 1..Len(s) : s[n] = t[n]
  BY <1>2, <1>3
<1> QED BY <1>1, <1>2, <1>3, <1>4, SeqEqual DEF s, t

\* The second walk: a row ahead that is accepted gets the next number.
LEMMA NextRowKeepsCount ==
  ASSUME TypeIInv, CountIInv, NextRow
  PROVE  CountIInv'
<1> USE RowsAreRows
<1>1. i \in 1..Len(rows) /\ entries \in Int /\ number \in Int /\ todo = <<>> /\ pc = "write"
  BY DEF NextRow, AtRow, TypeIInv, WalksAreInside
<1> DEFINE Later == {k \in (i + 1)..Len(rows) : Accepted(rows[k])}
<1>2. Ahead = IF Accepted(rows[i]) THEN Later \cup {i} ELSE Later
  BY <1>1 DEF Ahead
<1>3. i \notin Later
  BY <1>1
<1>4. IsFiniteSet(Later) /\ Cardinality(Later) \in Nat
  <2>1. Later \in SUBSET ((i + 1)..Len(rows)) /\ i + 1 \in Int /\ Len(rows) \in Int
    BY <1>1
  <2> QED BY <2>1, FS_Interval, FS_Subset, FS_CardinalityType
<1>5. Cardinality(Ahead) = Cardinality(Later) + (IF Accepted(rows[i]) THEN 1 ELSE 0)
  <2> HIDE DEF Later
  <2>1. Cardinality(Later \cup {i}) = Cardinality(Later) + 1
    BY <1>3, <1>4, FS_AddElement
  <2> QED BY <1>2, <1>4, <2>1
<1>6. \A k \in 1..Len(rows) : Accepted(rows[k])' <=> Accepted(rows[k])
  BY SameAccepted DEF NextRow, call
<1>7. Ahead' = Later
  BY <1>1, <1>6 DEF NextRow, Ahead, call
<1>8. CountCoversWalk'
  BY <1>1, <1>4, <1>5, <1>7 DEF NextRow, CountIInv, CountCoversWalk, call
<1>9. NumbersAreWritten'
  <2> SUFFICES ASSUME format = "pls", outcome = "none" \/ outcome = "saved"
               PROVE  /\ number' = Cardinality(Files) + (IF EntryIsNext' THEN 1 ELSE 0)
                      /\ \A n \in 2..Len(todo') : ~Counted(todo'[n])
    BY DEF NextRow, NumbersAreWritten, Files, call
  <2>1. number = Cardinality(Files)
    <3>1. ~EntryIsNext
      BY <1>1 DEF EntryIsNext
    <3> QED BY <3>1, CountedSets DEF CountIInv, NumbersAreWritten
  <2>2. CASE ~Accepted(rows[i])
    BY <1>1, <2>1, <2>2, CountedSets DEF NextRow, EntryIsNext
  <2>3. CASE Accepted(rows[i])
    <3> DEFINE first == Line("file", number', i)
               second == Line("title", number', i)
    <3>1. Counted(first) /\ ~Counted(second)
      BY DEF Line, Counted
    <3>2. todo' = <<first>> \o TitleLine(i, number')
      BY <2>3 DEF NextRow, RowLines
    <3> HIDE DEF first, second
    <3>3. TitleLine(i, number') \in {<<>>, <<second>>}
      BY DEF TitleLine, second
    <3>4. <<first>> \o <<>> = <<first>> /\ <<first>> \o <<second>> = <<first, second>>
      BY TwoLines
    <3>5. todo' \in {<<first>>, <<first, second>>}
      BY <3>2, <3>3, <3>4
    <3>6. EntryIsNext' /\ \A n \in 2..Len(todo') : ~Counted(todo'[n])
      <4>1. CASE todo' = <<first>>
        BY <3>1, <4>1 DEF EntryIsNext
      <4>2. CASE todo' = <<first, second>>
        BY <3>1, <4>2 DEF EntryIsNext
      <4> QED BY <3>5, <4>1, <4>2
    <3> QED BY <2>1, <2>3, <3>6, CountedSets DEF NextRow
  <2> QED BY <2>2, <2>3
<1> QED BY <1>1, <1>8, <1>9 DEF NextRow, CountIInv, EndIsReached, call

\* Whatever ends a save without an answer of "saved" needs no numbers, and
\* the walk is where it was.
LEMMA SameWalk ==
  ASSUME CountCoversWalk, UNCHANGED <<rows, format, ignored, walk>>, pc # "count",
         pc' \notin {"idle", "count"}, pc = "idle" => format # "pls"
  PROVE  CountCoversWalk'
<1>1. \A r : Accepted(r)' <=> Accepted(r)
  BY SameAccepted
<1>2. Ahead' = Ahead
  BY <1>1 DEF Ahead, walk
<1> QED BY <1>2 DEF CountCoversWalk, walk

\* Opening writes the header, which has no entry.
LEMMA OpenKeepsCount ==
  ASSUME TypeIInv, CountIInv, Open \/ OpenFails
  PROVE  CountIInv'
<1>1. CountCoversWalk' /\ Ignored \subseteq ignored'
  BY SameWalk DEF Open, OpenFails, CountIInv, walk, call
<1>2. CASE Open
  <2>1. number = 0 /\ Files = {} /\ Files' = {}
    BY <1>2 DEF Open, Files, TypeIInv, WalksAreInside, CountIInv, EndIsReached
  <2>2. ASSUME format = "pls" PROVE NumbersAreWritten'
    <3> DEFINE first == Line("[playlist]", 0, NULL)
               second == Line("NumberOfEntries", entries, NULL)
    <3>1. ~Counted(first) /\ ~Counted(second)
      BY DEF Line, Counted
    <3>2. todo' = <<first, second>>
      BY <1>2, <2>2 DEF Open, Header
    <3> HIDE DEF first, second
    <3>3. ~EntryIsNext' /\ \A n \in 2..Len(todo') : ~Counted(todo'[n])
      BY <3>1, <3>2 DEF EntryIsNext
    <3>4. number' = number
      BY <1>2 DEF Open, walk
    <3> QED BY <2>1, <3>3, <3>4, FS_EmptySet DEF NumbersAreWritten
  <2>3. ASSUME format # "pls" PROVE NumbersAreWritten'
    BY <1>2, <2>3 DEF Open, NumbersAreWritten, call
  <2> QED BY <1>1, <1>2, <2>2, <2>3 DEF Open, CountIInv, EndIsReached
<1>3. CASE OpenFails
  BY <1>1, <1>3 DEF OpenFails, Failure, CountIInv, NumbersAreWritten, EndIsReached
<1> QED BY <1>2, <1>3

\* An entry that is next becomes one that is written.
LEMMA WriteKeepsCount ==
  ASSUME TypeIInv, CountIInv, Write
  PROVE  CountIInv'
<1>1. CountCoversWalk' /\ Ignored \subseteq ignored'
  BY SameWalk DEF Write, CountIInv, walk, call
<1>2. ASSUME format = "pls" PROVE NumbersAreWritten'
  <2>1. /\ todo \in Seq(Lines) /\ todo # <<>> /\ written \in Seq(Lines)
        /\ outcome = "none"
    BY DEF Write, TypeIInv, LinesAreOfRows, CountIInv, EndIsReached
  <2>2. /\ number = Cardinality(Files) + (IF Counted(todo[1]) THEN 1 ELSE 0)
        /\ \A n \in 2..Len(todo) : ~Counted(todo[n])
    BY <1>2, <2>1 DEF CountIInv, NumbersAreWritten, EntryIsNext
  <2>3. /\ Len(todo') \in Nat /\ Len(todo') = Len(todo) - 1
        /\ \A n \in 1..Len(todo') : todo'[n] = todo[n + 1]
        /\ todo' = <<>> <=> Len(todo') = 0
    <3>1. todo' \in Seq(Lines) /\ Len(todo') = Len(todo) - 1
          /\ \A n \in 1..Len(todo') : todo'[n] = todo[n + 1]
      BY <2>1, HeadTailProperties DEF Write
    <3> QED BY <3>1
  <2>4. \A n \in 1..Len(todo') : ~Counted(todo'[n])
    <3> SUFFICES ASSUME NEW n \in 1..Len(todo') PROVE ~Counted(todo'[n])
      OBVIOUS
    <3>1. Len(todo) \in Nat
      BY <2>1
    <3>2. n + 1 \in 2..Len(todo)
      BY <2>3, <3>1
    <3> QED BY <2>2, <2>3, <3>2
  <2>5. ~EntryIsNext'
    BY <2>3, <2>4 DEF EntryIsNext
  <2>6. Files' = IF Counted(todo[1]) THEN Files \cup {Len(written) + 1} ELSE Files
    <3>1. written' = Append(written, todo[1])
      BY <2>1 DEF Write
    <3>2. /\ DOMAIN written' = 1..(Len(written) + 1)
          /\ written'[Len(written) + 1] = todo[1]
          /\ \A n \in 1..Len(written) : written'[n] = written[n]
          /\ DOMAIN written = 1..Len(written)
          /\ Len(written) \in Nat
      BY <2>1, <3>1
    <3> QED BY <3>2 DEF Files
  <2>7. Len(written) + 1 \notin Files
    BY <2>1 DEF Files
  <2>8. Cardinality(Files') = Cardinality(Files) + (IF Counted(todo[1]) THEN 1 ELSE 0)
    <3>1. Cardinality(Files \cup {Len(written) + 1}) = Cardinality(Files) + 1
      BY <2>7, CountedSets, FS_AddElement
    <3> QED BY <2>6, <3>1, CountedSets
  <2>9. number' = Cardinality(Files') /\ number' \in Int
    BY <2>2, <2>8 DEF Write, walk, TypeIInv, WalksAreInside
  <2>10. \A n \in 2..Len(todo') : ~Counted(todo'[n])
    BY <2>3, <2>4
  <2> QED BY <2>5, <2>9, <2>10 DEF NumbersAreWritten
<1>3. ASSUME format # "pls" PROVE NumbersAreWritten'
  BY <1>3 DEF Write, NumbersAreWritten, call
<1> QED BY <1>1, <1>2, <1>3 DEF Write, CountIInv, EndIsReached

\* What fails is not saved, and what ends the walk has nothing more to write.
LEMMA EndsKeepCount ==
  ASSUME TypeIInv, CountIInv,
         WriteFails \/ RowFails \/ EndOfRows \/ Close \/ CloseAgain \/ Answer
  PROVE  CountIInv'
<1>1. CountCoversWalk' /\ Ignored \subseteq ignored'
  BY SameWalk DEF WriteFails, RowFails, AtRow, EndOfRows, Close, CloseAgain, Answer, CountIInv,
                  walk, call
<1>2. CASE WriteFails
  BY <1>1, <1>2 DEF WriteFails, Failure, CountIInv, NumbersAreWritten, EndIsReached, call
<1>3. CASE RowFails
  BY <1>1, <1>3 DEF RowFails, AtRow, CountIInv, NumbersAreWritten, EndIsReached, call
<1>4. UNCHANGED <<format, number, todo, written, rows, i>> =>
        (EntryIsNext' <=> EntryIsNext) /\ Files' = Files
  BY DEF EntryIsNext, Files
<1>5. CASE EndOfRows
  <2>1. i > Len(rows)
    BY <1>5, RowsAreRows DEF EndOfRows, TypeIInv, WalksAreInside
  <2> QED BY <1>1, <1>4, <1>5, <2>1
          DEF EndOfRows, CountIInv, NumbersAreWritten, EndIsReached, call, walk
<1>6. CASE Close
  BY <1>1, <1>4, <1>6 DEF Close, CountIInv, NumbersAreWritten, EndIsReached, call, walk
<1>7. CASE CloseAgain
  BY <1>1, <1>4, <1>7 DEF CloseAgain, CountIInv, NumbersAreWritten, EndIsReached, call, walk
<1>8. CASE Answer
  BY <1>1, <1>4, <1>8 DEF Answer, CountIInv, NumbersAreWritten, EndIsReached, call, walk
<1> QED BY <1>2, <1>3, <1>5, <1>6, <1>7, <1>8

\* The footer is for XSPF alone.
LEMMA FooterKeepsCount ==
  ASSUME TypeIInv, CountIInv, WriteFooter
  PROVE  CountIInv'
BY DEF WriteFooter, CountIInv, CountCoversWalk, NumbersAreWritten, EndIsReached, call

\* An empty playlist is refused; the walk over any other has not begun.
LEMMA SaveKeepsCount ==
  ASSUME TypeIInv, CountIInv, Save
  PROVE  CountIInv'
<1> USE RowsAreRows
<1>1. entries = 0 /\ number = 0 /\ i = 1
  BY DEF Save, TypeIInv, WalksAreInside
<1>2. CASE rows = <<>>
  <2>1. Ahead' = {}
    BY <1>1, <1>2 DEF Save, Ahead, call, walk
  <2>2. CountCoversWalk'
    BY <1>1, <1>2, <2>1, FS_EmptySet DEF Save, CountCoversWalk, walk, call
  <2> QED BY <1>2, <2>2 DEF Save, CountIInv, NumbersAreWritten, EndIsReached, walk, call
<1>3. CASE rows # <<>>
  <2>1. Behind' = {}
    BY <1>1 DEF Save, Behind, call, walk
  <2>2. CountCoversWalk'
    BY <1>1, <1>3, <2>1, FS_EmptySet DEF Save, CountCoversWalk, walk, call
  <2>3. (EntryIsNext' <=> EntryIsNext) /\ Files' = Files
    BY DEF Save, EntryIsNext, Files
  <2> QED BY <1>3, <2>2, <2>3 DEF Save, CountIInv, NumbersAreWritten, EndIsReached, walk, call
<1> QED BY <1>2, <1>3

\* A scheme that comes to be ignored takes rows out of the walk, and the
\* ignored schemes are no longer those of the start.
LEMMA AddIgnoredKeepsCount ==
  ASSUME TypeIInv, CountIInv, NEW s \in Schemes, AddIgnoredScheme(s)
  PROVE  CountIInv'
<1>1. Ignored \subseteq ignored' /\ ignored' # Ignored
  BY DEF AddIgnoredScheme, CountIInv
<1>2. \A r : Accepted(r)' => Accepted(r)
  BY DEF AddIgnoredScheme, Accepted, HasUri, AsksForScheme, call
<1>3. Behind' \subseteq Behind /\ Ahead' \subseteq Ahead
  BY <1>2 DEF AddIgnoredScheme, Behind, Ahead, call, walk
<1>4. /\ Cardinality(Behind') \in Nat /\ Cardinality(Behind') <= Cardinality(Behind)
      /\ Cardinality(Ahead') \in Nat /\ Cardinality(Ahead') <= Cardinality(Ahead)
  BY <1>3, CountedSets, FS_Subset, FS_CardinalityType
<1>5. number \in Int /\ entries \in Int
  BY RowsAreRows DEF TypeIInv, WalksAreInside
<1>6. CountCoversWalk'
  BY <1>1, <1>4, <1>5, CountedSets
  DEF AddIgnoredScheme, CountIInv, CountCoversWalk, call, walk
<1>7. (EntryIsNext' <=> EntryIsNext) /\ Files' = Files
  BY DEF AddIgnoredScheme, EntryIsNext, Files
<1> QED BY <1>1, <1>6, <1>7
        DEF AddIgnoredScheme, CountIInv, NumbersAreWritten, EndIsReached, call, walk

\* Nothing that is counted changes.
LEMMA SameCount ==
  ASSUME CountIInv,
         UNCHANGED <<rows, format, ignored, pc, i, entries, number, todo, written, outcome>>
  PROVE  CountIInv'
<1>1. \A r : Accepted(r)' <=> Accepted(r)
  BY SameAccepted
<1>2. Behind' = Behind /\ Ahead' = Ahead /\ Files' = Files /\ (EntryIsNext' <=> EntryIsNext)
  BY <1>1 DEF Behind, Ahead, Files, EntryIsNext
<1> QED BY <1>2 DEF CountIInv, CountCoversWalk, NumbersAreWritten, EndIsReached

LEMMA StepsKeepCount ==
  ASSUME TypeIInv, CountIInv, [Next]_vars
  PROVE  CountIInv'
<1>1. CASE Cancel \/ UNCHANGED vars
  BY <1>1, SameCount DEF Cancel, vars, call, walk
<1> QED BY <1>1, CountKeepsCount, NextRowKeepsCount, OpenKeepsCount, WriteKeepsCount,
           EndsKeepCount, FooterKeepsCount, SaveKeepsCount, AddIgnoredKeepsCount
        DEF Next, Thread

LEMMA CountFromTheStart ==
  ASSUME Init
  PROVE  CountIInv
<1>1. pc = "idle" /\ outcome = "none" /\ number = 0 /\ todo = <<>> /\ written = <<>>
        /\ ignored = Ignored
  BY DEF Init
<1>2. Files = {} /\ ~EntryIsNext
  BY <1>1 DEF Files, EntryIsNext
<1> QED BY <1>1, <1>2, FS_EmptySet
        DEF CountIInv, CountCoversWalk, NumbersAreWritten, EndIsReached

\* The header of a saved PLS file promises no fewer entries than follow it, and
\* just as many unless schemes came to be ignored meanwhile: the two walks of
\* totem_pl_parser_save_pls agree, for playlists of any length.
THEOREM CountsAreHonest == Spec => []CountIsHonest
<1>1. Init => CountIInv
  BY CountFromTheStart
<1>2. TypeIInv /\ CountIInv => CountIsHonest
  <2> SUFFICES ASSUME TypeIInv, CountIInv, outcome = "saved", format = "pls", pc # "idle"
               PROVE  CountIsHonest
    BY DEF CountIInv, EndIsReached, CountIsHonest
  <2>1. i > Len(rows) /\ todo = <<>> /\ pc # "count"
    BY DEF CountIInv, EndIsReached
  <2>2. Ahead = {} /\ ~EntryIsNext /\ number \in Int /\ entries \in Int
    BY <2>1, RowsAreRows DEF Ahead, EntryIsNext, TypeIInv, WalksAreInside
  <2>3. number = Cardinality(Files)
    BY <2>2, CountedSets DEF CountIInv, NumbersAreWritten
  <2>4. number <= entries /\ (ignored = Ignored => number = entries)
    BY <2>1, <2>2, FS_EmptySet DEF CountIInv, CountCoversWalk
  <2> QED BY <2>2, <2>3, <2>4 DEF CountIsHonest
<1> QED BY <1>1, <1>2, TypesFromTheStart, StepsKeepTypes, StepsKeepCount, PTL DEF Spec

---------------------------------------------------------------------------
(* What a saved playlist reads back as: the lines written and those waiting  *)
(* to be are together the file of the rows the walk is behind.               *)

All == written \o todo
Going ==
  pc \in {"write", "close", "returned", "answered", "crashed"} /\ outcome \in {"none", "saved"}

\* An entry is about a row the walk is behind, and not ignored all along.
EntriesAreRows ==
  \A n \in DOMAIN All : Counted(All[n]) =>
    /\ All[n].value \in 1..Len(rows)
    /\ All[n].value < i
    /\ HasUri(rows[All[n].value])
    /\ AsksForScheme => rows[All[n].value].scheme \notin Ignored
    /\ format = "pls" => All[n].no <= number

\* Entries are in the order of their rows, and of their numbers.
EntriesAreInOrder ==
  \A m, n \in DOMAIN All : Counted(All[m]) /\ Counted(All[n]) /\ m < n =>
    /\ All[m].value < All[n].value
    /\ format = "pls" => All[m].no < All[n].no

RowsArePresent ==
  \A k \in 1..Len(rows) : k < i /\ Accepted(rows[k]) =>
    \E n \in DOMAIN All : Counted(All[n]) /\ All[n].value = k

\* A title is right behind its entry, or right before it in M3U, and every
\* entry of a row with a title has one.
Side == IF format = "m3u" THEN -1 ELSE 1
IsTitleOf(t, l) == t.key = "title" /\ t.value = l.value /\ t.no = l.no
TitlesAreBeside ==
  format # "pla" =>
    \A n \in DOMAIN All :
      /\ Counted(All[n]) /\ rows[All[n].value].titled = TRUE =>
           n + Side \in DOMAIN All /\ IsTitleOf(All[n + Side], All[n])
      /\ All[n].key = "title" =>
           /\ n - Side \in DOMAIN All
           /\ Counted(All[n - Side])
           /\ IsTitleOf(All[n], All[n - Side])
           /\ rows[All[n].value].titled = TRUE

HeaderCounts == format = "pla" => 1 \in DOMAIN All /\ All[1].no = Len(rows)

Document ==
  EntriesAreRows /\ EntriesAreInOrder /\ RowsArePresent /\ TitlesAreBeside /\ HeaderCounts
FileIInv == Going => Document

\* The lines put together.
LEMMA AllLines ==
  ASSUME TypeIInv
  PROVE  /\ All \in Seq(Lines) /\ Len(All) \in Nat /\ DOMAIN All = 1..Len(All)
         /\ \A n \in DOMAIN All : All[n] \in Lines /\ All[n].no \in Int
<1>1. All \in Seq(Lines)
  BY ConcatProperties DEF TypeIInv, LinesAreOfRows, All
<1>2. \A S : All \in Seq(S) => /\ Len(All) \in Nat /\ DOMAIN All = 1..Len(All)
                               /\ \A n \in DOMAIN All : All[n] \in S
  OBVIOUS
<1>3. \A l \in Lines : l.no \in Int
  BY DEF Lines
<1> QED BY <1>1, <1>2, <1>3

\* Lines neither of an entry nor of a title.
Plain(l) == ~Counted(l) /\ l.key # "title"

LEMMA HeaderIsPlain ==
  ASSUME TypeIInv
  PROVE  /\ \A n \in 1..Len(Header) : Plain(Header[n])
         /\ format = "pla" => Len(Header) = 1 /\ Header[1].no = Len(rows)
<1>1. CASE format = "pls"
  <2> DEFINE a == Line("[playlist]", 0, NULL)
             b == Line("NumberOfEntries", entries, NULL)
  <2>1. Header = <<a, b>>
    BY <1>1 DEF Header
  <2>2. Plain(a) /\ Plain(b)
    BY DEF Plain, Counted, Line
  <2> HIDE DEF a, b
  <2> QED BY <1>1, <2>1, <2>2
<1>2. CASE format = "pla"
  <2> DEFINE a == Line("NumberOfEntries", Len(rows), NULL)
  <2>1. Header = <<a>>
    BY <1>2 DEF Header
  <2>2. Plain(a) /\ a.no = Len(rows)
    BY DEF Plain, Counted, Line
  <2> HIDE DEF a
  <2> QED BY <2>1, <2>2
<1>3. CASE format \notin {"pls", "pla"}
  <2> DEFINE a == Line("#EXTM3U", 0, NULL)
  <2>1. Header = <<a>>
    BY <1>3 DEF Header
  <2>2. Plain(a)
    BY DEF Plain, Counted, Line
  <2> HIDE DEF a
  <2> QED BY <1>3, <2>1, <2>2
<1> QED BY <1>1, <1>2, <1>3

\* The lines of row k hold one entry, beside it the title if there is one.
RowShape(R, p, k, n) ==
  /\ p \in 1..Len(R) /\ Len(R) \in Nat
  /\ \A q \in 1..Len(R) : Counted(R[q]) <=> q = p
  /\ R[p].value = k
  /\ format = "pls" => R[p].no = n
  /\ \A q \in 1..Len(R) : R[q].key = "title" =>
       rows[k].titled = TRUE /\ q = p + Side /\ IsTitleOf(R[q], R[p])
  /\ format # "pla" /\ rows[k].titled = TRUE =>
       p + Side \in 1..Len(R) /\ IsTitleOf(R[p + Side], R[p])

LEMMA TitleLines ==
  ASSUME TypeIInv, NEW k \in 1..Len(rows), NEW n
  PROVE  TitleLine(k, n) = IF rows[k].titled = TRUE THEN <<Line("title", n, k)>> ELSE <<>>
<1>1. rows[k] \in [scheme : Schemes \cup {NULL}, titled : BOOLEAN]
  BY RowsAreRows, ElementOfSeq
<1>2. rows[k].titled \in BOOLEAN
  BY <1>1
<1>3. CASE rows[k].titled = TRUE
  BY <1>3 DEF TitleLine
<1>4. CASE rows[k].titled = FALSE
  BY <1>4 DEF TitleLine
<1> QED BY <1>2, <1>3, <1>4

LEMMA RowLinesHaveShape ==
  ASSUME TypeIInv, NEW k \in 1..Len(rows), NEW n
  PROVE  \E p \in 1..2 : RowShape(RowLines(k, n), p, k, n)
<1> DEFINE file(m) == Line("file", m, k)
           title(m) == Line("title", m, k)
           end == Line("/track", 0, NULL)
           R == RowLines(k, n)
<1>1. \A m : /\ Counted(file(m)) /\ ~Counted(title(m)) /\ ~Counted(end)
             /\ file(m).value = k /\ file(m).no = m /\ file(m).key # "title"
             /\ end.key # "title" /\ IsTitleOf(title(m), file(m))
  BY DEF Line, Counted, IsTitleOf
<1>2. format \in {"pls", "m3u", "xspf", "pla"}
  BY SaveAssumption DEF TypeIInv, CallIsAllowed
<1>3. /\ R = IF format = "pls" THEN <<file(n)>> \o TitleLine(k, n)
             ELSE IF format = "m3u" THEN TitleLine(k, 0) \o <<file(0)>>
             ELSE IF format = "xspf" THEN <<file(0)>> \o TitleLine(k, 0) \o <<end>>
             ELSE <<file(0)>>
  <2>1. CASE format = "pls"
    BY <2>1 DEF RowLines
  <2>2. CASE format = "m3u"
    BY <2>2 DEF RowLines
  <2>3. CASE format = "xspf"
    BY <2>3 DEF RowLines
  <2>4. CASE format = "pla"
    BY <2>4 DEF RowLines
  <2> QED BY <1>2, <2>1, <2>2, <2>3, <2>4
<1> HIDE DEF file, title, end, R
<1>4. TitleLine(k, n) = IF rows[k].titled = TRUE THEN <<title(n)>> ELSE <<>>
  BY TitleLines DEF title
<1>5. TitleLine(k, 0) = IF rows[k].titled = TRUE THEN <<title(0)>> ELSE <<>>
  BY TitleLines DEF title
<1>6. ASSUME NEW a, NEW b, NEW c
      PROVE  /\ <<a>> \o <<>> = <<a>> /\ <<>> \o <<a>> = <<a>>
             /\ <<a>> \o <<b>> = <<a, b>>
  BY TwoLines
<1>7. ASSUME NEW a, NEW b, NEW c
      PROVE  /\ Len(<<a>> \o <<b>> \o <<c>>) = 3
             /\ (<<a>> \o <<b>> \o <<c>>)[1] = a
             /\ (<<a>> \o <<b>> \o <<c>>)[2] = b
             /\ (<<a>> \o <<b>> \o <<c>>)[3] = c
  <2> DEFINE S == {a, b, c}
  <2>1. <<a, b>> \in Seq(S) /\ <<c>> \in Seq(S)
    OBVIOUS
  <2>2. <<a>> \o <<b>> = <<a, b>>
    BY TwoLines
  <2> QED BY <2>1, <2>2, ConcatProperties
<1>8. CASE format = "pls"
  <2>1. CASE rows[k].titled = TRUE
    <3>1. R = <<file(n), title(n)>>
      BY <1>3, <1>4, <1>6, <1>8, <2>1
    <3> QED BY <1>1, <1>8, <2>1, <3>1 DEF RowShape, Side, R
  <2>2. CASE ~(rows[k].titled = TRUE)
    <3>1. R = <<file(n)>>
      BY <1>3, <1>4, <1>6, <1>8, <2>2
    <3> QED BY <1>1, <1>8, <2>2, <3>1 DEF RowShape, Side, R
  <2> QED BY <2>1, <2>2
<1>9. CASE format = "m3u"
  <2>1. CASE rows[k].titled = TRUE
    <3>1. R = <<title(0), file(0)>>
      BY <1>3, <1>5, <1>6, <1>9, <2>1
    <3> QED BY <1>1, <1>9, <2>1, <3>1 DEF RowShape, Side, R
  <2>2. CASE ~(rows[k].titled = TRUE)
    <3>1. R = <<file(0)>>
      BY <1>3, <1>5, <1>6, <1>9, <2>2
    <3> QED BY <1>1, <1>9, <2>2, <3>1 DEF RowShape, Side, R
  <2> QED BY <2>1, <2>2
<1>10. CASE format = "xspf"
  <2>1. CASE rows[k].titled = TRUE
    <3>1. R = <<file(0)>> \o <<title(0)>> \o <<end>>
      BY <1>3, <1>5, <1>10, <2>1
    <3>2. Len(R) = 3 /\ R[1] = file(0) /\ R[2] = title(0) /\ R[3] = end
      BY <3>1, <1>7
    <3> QED BY <1>1, <1>10, <2>1, <3>2 DEF RowShape, Side, R
  <2>2. CASE ~(rows[k].titled = TRUE)
    <3>1. R = <<file(0), end>>
      BY <1>3, <1>5, <1>6, <1>10, <2>2
    <3> QED BY <1>1, <1>10, <2>2, <3>1 DEF RowShape, Side, R
  <2> QED BY <2>1, <2>2
<1>11. CASE format = "pla"
  <2>1. R = <<file(0)>>
    BY <1>3, <1>11
  <2> QED BY <1>1, <1>11, <2>1 DEF RowShape, Side, R
<1> QED BY <1>2, <1>8, <1>9, <1>10, <1>11

\* The lines stay the same, put together, when one is written.
LEMMA WriteKeepsLines ==
  ASSUME TypeIInv, Write
  PROVE  All' = All
<1>1. todo \in Seq(Lines) /\ written \in Seq(Lines) /\ todo # <<>>
  BY DEF Write, TypeIInv, LinesAreOfRows
<1> DEFINE h == Head(todo)
           t == Tail(todo)
<1>2. h \in Lines /\ t \in Seq(Lines) /\ <<h>> \in Seq(Lines)
  BY <1>1, HeadTailProperties
<1>3. todo = <<h>> \o t
  <2>1. /\ Len(todo) \in Nat \ {0}
        /\ Len(t) = Len(todo) - 1
        /\ \A n \in 1..Len(t) : t[n] = todo[n + 1]
        /\ h = todo[1]
    BY <1>1, HeadTailProperties
  <2> DEFINE u == <<h>> \o t
  <2>2. /\ u \in Seq(Lines) /\ Len(u) = 1 + Len(t)
        /\ \A n \in 1..(1 + Len(t)) : u[n] = IF n <= 1 THEN <<h>>[n] ELSE t[n - 1]
    BY <1>2, ConcatProperties
  <2> HIDE DEF u, h, t
  <2>3. \A n \in 1..Len(todo) : todo[n] = u[n]
    BY <2>1, <2>2
  <2>4. Len(todo) = Len(u)
    BY <2>1, <2>2
  <2>5. todo = u
    BY <1>1, <2>2, <2>3, <2>4, SeqEqual
  <2> QED BY <2>5 DEF u
<1>4. Append(written, h) = written \o <<h>>
  BY <1>1, <1>2, AppendIsConcat
<1>5. All' = (written \o <<h>>) \o t
  BY <1>4 DEF Write, All
<1> HIDE DEF h, t
<1> QED BY <1>1, <1>2, <1>3, <1>5, ConcatAssociative DEF All

\* The document is the same if lines, walk and schemes are.
LEMMA SameDocument ==
  ASSUME Document, UNCHANGED <<rows, format, ignored, i, number>>, All' = All
  PROVE  Document'
<1>1. \A r : (Accepted(r)' <=> Accepted(r)) /\ (AsksForScheme' <=> AsksForScheme)
  BY DEF Accepted, AsksForScheme, HasUri
<1> QED BY <1>1 DEF Document, EntriesAreRows, EntriesAreInOrder, RowsArePresent,
                    TitlesAreBeside, HeaderCounts, AsksForScheme, Side

\* Plain lines, for a walk that is not at a row, change nothing of it.
LEMMA PlainLinesKeepDocument ==
  ASSUME TypeIInv, Document, NEW R \in Seq(Lines), All' = All \o R, i > Len(rows),
         \A n \in 1..Len(R) : Plain(R[n]), i' = i + 1,
         UNCHANGED <<rows, format, ignored, number>>
  PROVE  Document'
<1> USE RowsAreRows
<1>1. /\ Len(All) \in Nat /\ Len(R) \in Nat /\ DOMAIN All = 1..Len(All)
      /\ DOMAIN All' = 1..(Len(All) + Len(R))
      /\ \A n \in 1..Len(All) : All'[n] = All[n]
      /\ \A n \in (Len(All) + 1)..(Len(All) + Len(R)) : Plain(All'[n])
  <2>1. All \in Seq(Lines) /\ Len(All) \in Nat /\ DOMAIN All = 1..Len(All) /\ Len(R) \in Nat
    BY AllLines
  <2>2. /\ All' \in Seq(Lines) /\ Len(All') = Len(All) + Len(R)
        /\ \A n \in 1..(Len(All) + Len(R)) :
             All'[n] = IF n <= Len(All) THEN All[n] ELSE R[n - Len(All)]
    BY <2>1, ConcatProperties
  <2>3. DOMAIN All' = 1..(Len(All) + Len(R))
    BY <2>2
  <2>4. \A n \in (Len(All) + 1)..(Len(All) + Len(R)) : n - Len(All) \in 1..Len(R)
    BY <2>1
  <2>5. \A n \in (Len(All) + 1)..(Len(All) + Len(R)) : All'[n] = R[n - Len(All)]
    BY <2>1, <2>2
  <2> QED BY <2>1, <2>2, <2>3, <2>4, <2>5
<1>2. \A n \in DOMAIN All' : Counted(All'[n]) \/ All'[n].key = "title" => n \in DOMAIN All
  BY <1>1 DEF Plain
<1>3. \A n \in DOMAIN All : n \in DOMAIN All' /\ All'[n] = All[n]
  BY <1>1
<1>4. \A r : Accepted(r)' <=> Accepted(r)
  BY SameAccepted
<1>5. i \in Int
  BY DEF TypeIInv, WalksAreInside
<1>6. EntriesAreRows'
  BY <1>2, <1>3, <1>5 DEF Document, EntriesAreRows, AsksForScheme
<1>7. EntriesAreInOrder'
  BY <1>2, <1>3 DEF Document, EntriesAreInOrder
<1>8. RowsArePresent'
  <2>1. ASSUME NEW k \in 1..Len(rows), Accepted(rows[k])
        PROVE  \E n \in DOMAIN All' : Counted(All'[n]) /\ All'[n].value = k
    <3>1. k < i
      BY <1>5
    <3>2. PICK n \in DOMAIN All : Counted(All[n]) /\ All[n].value = k
      BY <2>1, <3>1 DEF Document, RowsArePresent
    <3> QED BY <1>3, <3>2
  <2> QED BY <1>4, <2>1 DEF RowsArePresent
<1>9. TitlesAreBeside'
  BY <1>2, <1>3 DEF Document, TitlesAreBeside, Side
<1>10. HeaderCounts'
  BY <1>3 DEF Document, HeaderCounts
<1> QED BY <1>6, <1>7, <1>8, <1>9, <1>10 DEF Document

\* The lines of the row the walk is at come behind those of earlier rows.
LEMMA RowLinesKeepDocument ==
  ASSUME TypeIInv, CountIInv, Document, i \in 1..Len(rows), Accepted(rows[i]),
         number' = number + 1, i' = i + 1, UNCHANGED <<rows, format, ignored>>,
         All' = All \o RowLines(i, number')
  PROVE  Document'
<1> USE RowsAreRows
<1> DEFINE R == RowLines(i, number')
           L == Len(All)
<1>1. number \in Int /\ i \in Int
  BY DEF TypeIInv, WalksAreInside
<1>2. PICK q \in 1..2 : RowShape(R, q, i, number')
  BY RowLinesHaveShape
<1>3. R \in Seq(Lines)
  BY <1>1, RowLinesAreLines DEF TypeIInv
<1> HIDE DEF R
<1>4. L \in Nat /\ DOMAIN All = 1..L /\ Len(R) \in Nat /\ All \in Seq(Lines)
  BY <1>3, AllLines
<1>5. /\ DOMAIN All' = 1..(L + Len(R))
      /\ \A n \in 1..L : All'[n] = All[n]
      /\ \A n \in 1..Len(R) : All'[L + n] = R[n]
  <2>1. /\ All' \in Seq(Lines) /\ Len(All') = L + Len(R)
        /\ \A n \in 1..(L + Len(R)) : All'[n] = IF n <= L THEN All[n] ELSE R[n - L]
    BY <1>3, <1>4, ConcatProperties DEF R
  <2>2. DOMAIN All' = 1..(L + Len(R))
    BY <2>1
  <2> HIDE DEF L
  <2>3. \A n \in 1..Len(R) : L + n \in 1..(L + Len(R)) /\ ~(L + n <= L) /\ (L + n) - L = n
    BY <1>4
  <2> QED BY <1>4, <2>1, <2>2, <2>3
<1> HIDE DEF L
<1> DEFINE p == L + q
<1>6. /\ p \in Int /\ p > L /\ p \in DOMAIN All'
      /\ Counted(All'[p]) /\ All'[p].value = i /\ All'[p] = R[q]
      /\ format = "pls" => All'[p].no = number + 1
  <2>1. q \in 1..Len(R) /\ Counted(R[q]) /\ R[q].value = i
        /\ (format = "pls" => R[q].no = number + 1)
    BY <1>2 DEF RowShape
  <2>2. All'[p] = R[q] /\ p \in 1..(L + Len(R)) /\ p > L
    BY <1>4, <1>5, <2>1
  <2> HIDE DEF p
  <2>3. p \in Int /\ p > L /\ p \in DOMAIN All'
    BY <1>4, <1>5, <2>2
  <2> QED BY <2>1, <2>2, <2>3
<1>7. \A n \in DOMAIN All' : Counted(All'[n]) /\ n \notin DOMAIN All => n = p
  <2> SUFFICES ASSUME NEW n \in DOMAIN All', Counted(All'[n]), n \notin DOMAIN All
               PROVE  n = p
    OBVIOUS
  <2>1. n \in Int /\ n - L \in 1..Len(R) /\ L + (n - L) = n
    BY <1>4, <1>5
  <2>2. Counted(R[n - L])
    BY <1>5, <2>1
  <2>3. n - L = q
    BY <1>2, <2>1, <2>2 DEF RowShape
  <2> QED BY <2>1, <2>3
<1>8. \A n \in DOMAIN All : n \in DOMAIN All' /\ All'[n] = All[n] /\ n < p
  BY <1>4, <1>5
<1>9. \A n \in DOMAIN All' : All'[n].key = "title" /\ n \notin DOMAIN All =>
        /\ rows[i].titled = TRUE /\ n = p + Side
        /\ IsTitleOf(All'[n], All'[p])
  <2> SUFFICES ASSUME NEW n \in DOMAIN All', All'[n].key = "title", n \notin DOMAIN All
               PROVE  rows[i].titled = TRUE /\ n = p + Side /\ IsTitleOf(All'[n], All'[p])
    OBVIOUS
  <2>1. n \in Int /\ n - L \in 1..Len(R) /\ L + (n - L) = n
    BY <1>4, <1>5
  <2>2. All'[n] = R[n - L]
    BY <1>5, <2>1
  <2>3. rows[i].titled = TRUE /\ n - L = q + Side /\ IsTitleOf(R[n - L], R[q])
    BY <1>2, <2>1, <2>2 DEF RowShape
  <2>4. Side \in Int
    BY DEF Side
  <2>5. n = p + Side
    BY <1>4, <2>1, <2>3, <2>4
  <2> QED BY <1>6, <2>2, <2>3, <2>5
<1>10. format # "pla" /\ rows[i].titled = TRUE =>
         p + Side \in DOMAIN All' /\ IsTitleOf(All'[p + Side], All'[p])
  <2> SUFFICES ASSUME format # "pla", rows[i].titled = TRUE
               PROVE  p + Side \in DOMAIN All' /\ IsTitleOf(All'[p + Side], All'[p])
    OBVIOUS
  <2>1. q + Side \in 1..Len(R) /\ IsTitleOf(R[q + Side], R[q])
    BY <1>2 DEF RowShape
  <2>2. Side \in Int /\ L + (q + Side) = p + Side
    BY <1>4 DEF Side
  <2>3. p + Side \in DOMAIN All' /\ All'[p + Side] = R[q + Side]
    <3>1. L + (q + Side) \in 1..(L + Len(R))
      BY <1>4, <2>1
    <3>2. All'[L + (q + Side)] = R[q + Side]
      BY <1>5, <2>1
    <3> QED BY <1>5, <2>2, <3>1, <3>2
  <2> QED BY <1>6, <2>1, <2>3
<1>11. \A r : (Accepted(r)' <=> Accepted(r)) /\ (Side' = Side)
  BY SameAccepted DEF Side
<1> HIDE DEF p
<1>12. EntriesAreRows'
  <2>1. HasUri(rows[i]) /\ (AsksForScheme => rows[i].scheme \notin Ignored)
    BY DEF Accepted, CountIInv
  <2>2. ASSUME NEW n \in DOMAIN All', Counted(All'[n])
        PROVE  /\ All'[n].value \in 1..Len(rows) /\ All'[n].value < i + 1
               /\ HasUri(rows[All'[n].value])
               /\ AsksForScheme => rows[All'[n].value].scheme \notin Ignored
               /\ format = "pls" => All'[n].no <= number + 1
    <3>1. CASE n = p
      BY <1>1, <1>6, <2>1, <3>1
    <3>2. CASE n \in DOMAIN All
      <4>1. Counted(All[n]) /\ All'[n] = All[n] /\ All[n].no \in Int
        BY <1>8, <2>2, <3>2, AllLines
      <4>2. /\ All[n].value \in 1..Len(rows) /\ All[n].value < i
            /\ HasUri(rows[All[n].value])
            /\ AsksForScheme => rows[All[n].value].scheme \notin Ignored
            /\ format = "pls" => All[n].no <= number
        BY <3>2, <4>1 DEF Document, EntriesAreRows
      <4> QED BY <1>1, <4>1, <4>2
    <3> QED BY <1>7, <2>2, <3>1, <3>2
  <2> QED BY <2>2 DEF EntriesAreRows, AsksForScheme
<1>13. EntriesAreInOrder'
  <2>1. ASSUME NEW m \in DOMAIN All', NEW n \in DOMAIN All', Counted(All'[m]), Counted(All'[n]),
               m < n
        PROVE  All'[m].value < All'[n].value /\ (format = "pls" => All'[m].no < All'[n].no)
    <3>1. m \in DOMAIN All
      <4>1. CASE n = p
        BY <1>7, <2>1, <4>1
      <4>2. CASE n \in DOMAIN All
        <5>1. n < p /\ m \in Int /\ n \in Int /\ p \in Int
          BY <1>4, <1>5, <1>6, <1>8, <2>1, <4>2
        <5>2. m # p
          BY <2>1, <5>1
        <5> QED BY <1>7, <2>1, <5>2
      <4> QED BY <1>7, <2>1, <4>1, <4>2
    <3>2. Counted(All[m]) /\ All'[m] = All[m] /\ All[m].no \in Int
      BY <1>8, <2>1, <3>1, AllLines
    <3>3. CASE n = p
      <4>1. /\ All[m].value \in 1..Len(rows) /\ All[m].value < i
            /\ format = "pls" => All[m].no <= number
        BY <3>1, <3>2 DEF Document, EntriesAreRows
      <4>2. All'[n].value = i /\ (format = "pls" => All'[n].no = number + 1)
        BY <1>6, <3>3
      <4>3. All'[m].value < All'[n].value
        BY <3>2, <4>1, <4>2
      <4>4. format = "pls" => All'[m].no < All'[n].no
        BY <1>1, <3>2, <4>1, <4>2
      <4> QED BY <4>3, <4>4
    <3>4. CASE n \in DOMAIN All
      BY <1>8, <2>1, <3>1, <3>2, <3>4 DEF Document, EntriesAreInOrder
    <3> QED BY <1>7, <2>1, <3>3, <3>4
  <2> QED BY <2>1 DEF EntriesAreInOrder
<1>14. RowsArePresent'
  <2>1. ASSUME NEW k \in 1..Len(rows), k < i + 1, Accepted(rows[k])
        PROVE  \E n \in DOMAIN All' : Counted(All'[n]) /\ All'[n].value = k
    <3>1. CASE k = i
      BY <1>6, <3>1
    <3>2. CASE k < i
      <4>1. PICK n \in DOMAIN All : Counted(All[n]) /\ All[n].value = k
        BY <2>1, <3>2 DEF Document, RowsArePresent
      <4> QED BY <1>8, <4>1
    <3> QED BY <1>1, <2>1, <3>1, <3>2
  <2> QED BY <1>11, <2>1 DEF RowsArePresent
<1>15. TitlesAreBeside'
  <2>1. ASSUME format # "pla", NEW n \in DOMAIN All', Counted(All'[n]),
               rows[All'[n].value].titled = TRUE
        PROVE  n + Side \in DOMAIN All' /\ IsTitleOf(All'[n + Side], All'[n])
    <3>1. CASE n = p
      BY <1>6, <1>10, <2>1, <3>1
    <3>2. CASE n \in DOMAIN All
      <4>1. n + Side \in DOMAIN All /\ IsTitleOf(All[n + Side], All[n])
        BY <1>8, <2>1, <3>2 DEF Document, TitlesAreBeside
      <4> QED BY <1>8, <3>2, <4>1
    <3> QED BY <1>7, <2>1, <3>1, <3>2
  <2>2. ASSUME format # "pla", NEW n \in DOMAIN All', All'[n].key = "title"
        PROVE  /\ n - Side \in DOMAIN All' /\ Counted(All'[n - Side])
               /\ IsTitleOf(All'[n], All'[n - Side]) /\ rows[All'[n].value].titled = TRUE
    <3>1. CASE n \in DOMAIN All
      <4>1. /\ n - Side \in DOMAIN All /\ Counted(All[n - Side])
            /\ IsTitleOf(All[n], All[n - Side]) /\ rows[All[n].value].titled = TRUE
        BY <1>8, <2>2, <3>1 DEF Document, TitlesAreBeside
      <4> QED BY <1>8, <3>1, <4>1
    <3>2. CASE n \notin DOMAIN All
      <4>1. rows[i].titled = TRUE /\ n = p + Side /\ IsTitleOf(All'[n], All'[p])
        BY <1>9, <2>2, <3>2
      <4>2. n - Side = p
        BY <1>6, <4>1 DEF Side
      <4>3. All'[n].value = i
        BY <1>6, <4>1 DEF IsTitleOf
      <4> QED BY <1>6, <4>1, <4>2, <4>3
    <3> QED BY <3>1, <3>2
  <2> QED BY <1>11, <2>1, <2>2 DEF TitlesAreBeside
<1>16. HeaderCounts'
  BY <1>8 DEF Document, HeaderCounts
<1> QED BY <1>12, <1>13, <1>14, <1>15, <1>16 DEF Document

LEMMA OpenKeepsFile ==
  ASSUME TypeIInv, CountIInv, Open
  PROVE  FileIInv'
<1>1. All' = Header
  <2>1. written' = <<>> /\ todo' = Header
    BY DEF Open, CountIInv, EndIsReached
  <2> QED BY <2>1, HeaderIsLines, ConcatEmptySeq DEF All
<1>2. Len(Header) \in Nat /\ DOMAIN Header = 1..Len(Header)
  BY HeaderIsLines
<1>3. /\ \A n \in DOMAIN All' : Plain(All'[n])
      /\ format = "pla" => 1 \in DOMAIN All' /\ All'[1].no = Len(rows)
  BY <1>1, <1>2, HeaderIsPlain
<1>4. i' = 1 /\ UNCHANGED <<rows, format>>
  BY DEF Open, TypeIInv, WalksAreInside, walk, call
<1>5. EntriesAreRows' /\ EntriesAreInOrder' /\ TitlesAreBeside' /\ HeaderCounts'
  BY <1>3, <1>4 DEF Plain, EntriesAreRows, EntriesAreInOrder, TitlesAreBeside, HeaderCounts
<1>6. RowsArePresent'
  BY <1>4, RowsAreRows DEF RowsArePresent
<1> QED BY <1>5, <1>6 DEF FileIInv, Document

LEMMA NextRowKeepsFile ==
  ASSUME TypeIInv, CountIInv, FileIInv, NextRow
  PROVE  FileIInv'
<1>1. Document /\ todo = <<>> /\ i \in 1..Len(rows) /\ number \in Int
  BY RowsAreRows
  DEF NextRow, AtRow, CountIInv, EndIsReached, TypeIInv, WalksAreInside, FileIInv, Going
<1>2. All = written
  BY <1>1, ConcatEmptySeq DEF All, TypeIInv, LinesAreOfRows
<1>3. CASE Accepted(rows[i])
  <2>1. /\ number' = number + 1 /\ i' = i + 1 /\ UNCHANGED <<rows, format, ignored>>
        /\ todo' = RowLines(i, number') /\ written' = written
    BY <1>3 DEF NextRow, call
  <2>2. All' = All \o RowLines(i, number')
    BY <1>2, <2>1 DEF All
  <2> QED BY <1>1, <1>3, <2>1, <2>2, RowLinesKeepDocument DEF FileIInv
<1>4. CASE ~Accepted(rows[i])
  <2>1. /\ number' = number /\ i' = i + 1 /\ UNCHANGED <<rows, format, ignored>>
        /\ todo' = todo /\ written' = written
    BY <1>1, <1>4 DEF NextRow, call
  <2>2. All' = All
    BY <2>1 DEF All
  <2>3. \A r : Accepted(r)' <=> Accepted(r)
    BY <2>1, SameAccepted
  <2>4. \A k \in 1..Len(rows) : k < i + 1 /\ Accepted(rows[k]) => k < i
    BY <1>1, <1>4
  <2>5. RowsArePresent'
    BY <1>1, <2>1, <2>2, <2>3, <2>4 DEF Document, RowsArePresent
  <2>6. EntriesAreRows'
    <3>1. \A k \in 1..Len(rows) : k < i => k < i + 1
      BY <1>1
    <3> QED BY <1>1, <2>1, <2>2, <3>1 DEF Document, EntriesAreRows, AsksForScheme
  <2>7. EntriesAreInOrder' /\ TitlesAreBeside' /\ HeaderCounts'
    BY <1>1, <2>1, <2>2 DEF Document, EntriesAreInOrder, TitlesAreBeside, HeaderCounts, Side
  <2> QED BY <2>5, <2>6, <2>7 DEF FileIInv, Document
<1> QED BY <1>3, <1>4

LEMMA FooterKeepsFile ==
  ASSUME TypeIInv, CountIInv, FileIInv, WriteFooter
  PROVE  FileIInv'
<1>1. Document /\ todo = <<>> /\ i > Len(rows)
  BY RowsAreRows DEF WriteFooter, CountIInv, EndIsReached, FileIInv, Going
<1>2. All = written
  BY <1>1, ConcatEmptySeq DEF All, TypeIInv, LinesAreOfRows
<1>3. All' = All \o <<Footer>>
  BY <1>2 DEF WriteFooter, All
<1>4. \A n \in 1..Len(<<Footer>>) : Plain(<<Footer>>[n])
  BY DEF Plain, Footer, Line, Counted
<1>5. i' = i + 1 /\ UNCHANGED <<rows, format, ignored, number>>
  BY DEF WriteFooter, call
<1>6. Document'
  BY <1>1, <1>3, <1>4, <1>5, HeaderIsLines, PlainLinesKeepDocument
<1> QED BY <1>6 DEF FileIInv

\* A scheme that comes to be ignored takes no line away.
LEMMA AddIgnoredKeepsFile ==
  ASSUME FileIInv, NEW s \in Schemes, AddIgnoredScheme(s)
  PROVE  FileIInv'
<1>1. UNCHANGED <<rows, format, pc, i, number, outcome>> /\ All' = All
  BY DEF AddIgnoredScheme, call, walk, All
<1>2. \A r : Accepted(r)' => Accepted(r)
  BY DEF AddIgnoredScheme, Accepted, HasUri, AsksForScheme, call
<1>3. Document => Document'
  BY <1>1, <1>2 DEF Document, EntriesAreRows, EntriesAreInOrder, RowsArePresent,
                    TitlesAreBeside, HeaderCounts, AsksForScheme, Side
<1> QED BY <1>1, <1>3 DEF FileIInv, Going

LEMMA StepsKeepFile ==
  ASSUME TypeIInv, CountIInv, FileIInv, [Next]_vars
  PROVE  FileIInv'
<1>1. ASSUME Going, All' = All, UNCHANGED <<rows, format, ignored, i, number>>
      PROVE  FileIInv'
  BY <1>1, SameDocument DEF FileIInv
<1>2. CASE Save \/ Count \/ OpenFails
  BY <1>2 DEF Save, Count, OpenFails, Failure, FileIInv, Going, CountIInv, EndIsReached
<1>3. CASE WriteFails \/ RowFails
  BY <1>3 DEF WriteFails, RowFails, Failure, FileIInv, Going
<1>4. CASE Write
  <2>1. Going
    BY <1>4 DEF Write, CountIInv, EndIsReached, Going
  <2> QED BY <1>1, <1>4, <2>1, WriteKeepsLines DEF Write, walk, call
<1>5. CASE EndOfRows \/ Close \/ CloseAgain \/ Answer
  <2>1. UNCHANGED <<rows, format, ignored, i, number>> /\ All' = All
    BY <1>5 DEF EndOfRows, Close, CloseAgain, Answer, walk, call, All
  <2>2. Going' => Going
    BY <1>5 DEF EndOfRows, Close, CloseAgain, Answer, Going
  <2> QED BY <1>1, <2>1, <2>2 DEF FileIInv
<1>6. CASE Cancel \/ UNCHANGED vars
  <2>1. UNCHANGED <<rows, format, ignored, i, number, pc, outcome>> /\ All' = All
    BY <1>6 DEF Cancel, vars, walk, call, All
  <2>2. Going' => Going
    BY <2>1 DEF Going
  <2> QED BY <1>1, <2>1, <2>2 DEF FileIInv
<1> QED BY <1>2, <1>3, <1>4, <1>5, <1>6, OpenKeepsFile, NextRowKeepsFile, FooterKeepsFile,
           AddIgnoredKeepsFile
        DEF Next, Thread

\* What is looked up where one line has the key and number.
LEMMA LookupOfOne ==
  ASSUME NEW lines, NEW key, NEW no, NEW m \in Int,
         {k \in DOMAIN lines : lines[k].key = key /\ lines[k].no = no} = {m}
  PROVE  Lookup(lines, key, no) = lines[m].value
<1>1. Max({m}) = m
  BY DEF Max
<1> QED BY <1>1 DEF Lookup

LEMMA LookupOfNone ==
  ASSUME NEW lines, NEW key, NEW no,
         {k \in DOMAIN lines : lines[k].key = key /\ lines[k].no = no} = {}
  PROVE  Lookup(lines, key, no) = NULL
BY DEF Lookup

\* A document that is read entry by entry, each from the place of its line,
\* in the order of the lines, with the title that the row has.
Places(F, g) ==
  /\ \A n \in DOMAIN F :
       /\ g[n] \in Files
       /\ F[n].row = written[g[n]].value
       /\ F[n].title = IF rows[F[n].row].titled = TRUE /\ format # "pla" THEN F[n].row ELSE NULL
  /\ \A m, n \in DOMAIN F : m < n => g[m] < g[n]
  /\ \A j \in Files : \E n \in DOMAIN F : g[n] = j

Finished == TypeIInv /\ CountIInv /\ FileIInv /\ outcome = "saved"

LEMMA FinishedDocument ==
  ASSUME Finished
  PROVE  /\ Document /\ All = written /\ \A k \in 1..Len(rows) : k < i
         /\ \A n \in Files : n \in DOMAIN written /\ Counted(written[n])
<1>1. Document
  BY DEF Finished, FileIInv, Going, CountIInv, EndIsReached, TypeIInv, EndsAreKnown
<1>2. todo = <<>> /\ i > Len(rows)
  BY DEF Finished, CountIInv, EndIsReached
<1>3. All = written
  BY <1>2, ConcatEmptySeq DEF All, Finished, TypeIInv, LinesAreOfRows
<1>4. \A k \in 1..Len(rows) : k < i
  BY <1>2, RowsAreRows DEF Finished, TypeIInv, WalksAreInside
<1> QED BY <1>1, <1>3, <1>4 DEF Files

LEMMA PlacesReadBack ==
  ASSUME Finished, NEW g, Places(ReadBack, g)
  PROVE  ReadsBack
<1> DEFINE F == ReadBack
<1> HIDE DEF F
<1>1. Places(F, g)
  BY DEF F
<1>2. /\ Document /\ All = written /\ DOMAIN rows = 1..Len(rows)
      /\ \A k \in 1..Len(rows) : k < i
  BY FinishedDocument, RowsAreRows DEF Finished
<1>3. \A n \in Files : n \in DOMAIN All /\ Counted(All[n])
  BY <1>2 DEF Files
<1>4. ASSUME NEW n \in DOMAIN F
      PROVE  /\ F[n].row \in DOMAIN rows
             /\ HasUri(rows[F[n].row])
             /\ AsksForScheme => rows[F[n].row].scheme \notin Ignored
             /\ F[n].title = IF rows[F[n].row].titled /\ format # "pla" THEN F[n].row ELSE NULL
             /\ \A m \in DOMAIN F : m < n => F[m].row < F[n].row
  <2>1. g[n] \in Files /\ F[n].row = All[g[n]].value
    BY <1>1, <1>2 DEF Places
  <2>2. /\ F[n].row \in 1..Len(rows) /\ HasUri(rows[F[n].row])
        /\ AsksForScheme => rows[F[n].row].scheme \notin Ignored
    BY <1>2, <1>3, <2>1 DEF Document, EntriesAreRows
  <2>3. rows[F[n].row].titled \in BOOLEAN
    <3>1. rows[F[n].row] \in [scheme : Schemes \cup {NULL}, titled : BOOLEAN]
      BY <2>2, RowsAreRows, ElementOfSeq DEF Finished
    <3> QED BY <3>1
  <2>4. F[n].title = IF rows[F[n].row].titled = TRUE /\ format # "pla" THEN F[n].row ELSE NULL
    BY <1>1 DEF Places
  <2>5. F[n].title = IF rows[F[n].row].titled /\ format # "pla" THEN F[n].row ELSE NULL
    <3>1. CASE rows[F[n].row].titled = TRUE
      BY <2>4, <3>1
    <3>2. CASE rows[F[n].row].titled = FALSE
      BY <2>4, <3>2
    <3> QED BY <2>3, <3>1, <3>2
  <2>6. ASSUME NEW m \in DOMAIN F, m < n PROVE F[m].row < F[n].row
    <3>1. g[m] \in Files /\ F[m].row = All[g[m]].value /\ g[m] < g[n]
      BY <1>1, <1>2, <2>6 DEF Places
    <3> QED BY <1>2, <1>3, <2>1, <3>1 DEF Document, EntriesAreInOrder
  <2> QED BY <1>2, <2>2, <2>5, <2>6
<1>5. ASSUME NEW k \in DOMAIN rows, Accepted(rows[k])
      PROVE  \E n \in DOMAIN F : F[n].row = k
  <2>1. PICK j \in DOMAIN All : Counted(All[j]) /\ All[j].value = k
    BY <1>2, <1>5 DEF Document, RowsArePresent
  <2>2. j \in Files
    BY <1>2, <2>1 DEF Files
  <2>3. PICK n \in DOMAIN F : g[n] = j
    BY <1>1, <2>2 DEF Places
  <2>4. F[n].row = k
    BY <1>1, <1>2, <2>1, <2>3 DEF Places
  <2> QED BY <2>4
<1> QED BY <1>4, <1>5 DEF ReadsBack, F

\* The title that the readers of M3U and XSPF find beside an entry.
LEMMA TitleBeside ==
  ASSUME Finished, format \in {"m3u", "xspf"}, NEW n \in Files
  PROVE  TitleAt(n + Side) = IF rows[written[n].value].titled = TRUE THEN written[n].value ELSE NULL
<1>1. Document /\ All = written /\ n \in DOMAIN written /\ Counted(written[n])
  BY FinishedDocument
<1>2. n \in Int /\ Side \in Int
  BY <1>1, AllLines DEF Finished, Side
<1>3. CASE rows[written[n].value].titled = TRUE
  <2>1. n + Side \in DOMAIN written /\ IsTitleOf(written[n + Side], written[n])
    BY <1>1, <1>3 DEF Document, TitlesAreBeside
  <2> QED BY <1>3, <2>1 DEF TitleAt, IsTitleOf
<1>4. CASE ~(rows[written[n].value].titled = TRUE)
  <2>1. ASSUME n + Side \in DOMAIN written, written[n + Side].key = "title" PROVE FALSE
    <3>1. /\ IsTitleOf(written[n + Side], written[(n + Side) - Side])
          /\ rows[written[n + Side].value].titled = TRUE
      BY <1>1, <2>1 DEF Document, TitlesAreBeside
    <3>2. (n + Side) - Side = n
      BY <1>2
    <3>3. written[n + Side].value = written[n].value
      BY <3>1, <3>2 DEF IsTitleOf
    <3> QED BY <1>4, <3>1, <3>3
  <2> QED BY <1>4, <2>1 DEF TitleAt
<1> QED BY <1>3, <1>4

LEMMA M3UReadsBack ==
  ASSUME Finished, format \in {"m3u", "xspf"}
  PROVE  ReadsBack
<1> DEFINE g == [n \in Files |-> n]
           F == [n \in Files |-> Entry(written[n].value, TitleAt(n + Side))]
<1>1. ReadBack = F
  <2>1. CASE format = "m3u"
    <3>1. \A n \in Files : n + Side = n - 1
      BY <2>1, AllLines, FinishedDocument DEF Finished, Side
    <3> QED BY <2>1, <3>1 DEF ReadBack
  <2>2. CASE format = "xspf"
    BY <2>2 DEF ReadBack, Side
  <2> QED BY <2>1, <2>2
<1>2. \A n \in Files :
        /\ F[n].row = written[n].value
        /\ F[n].title = IF rows[F[n].row].titled = TRUE THEN F[n].row ELSE NULL
  BY TitleBeside DEF Entry
<1>3. DOMAIN F = Files /\ \A n \in Files : g[n] = n
  OBVIOUS
<1> HIDE DEF F, g
<1>4. format # "pla"
  OBVIOUS
<1>5. Places(F, g)
  BY <1>2, <1>3, <1>4 DEF Places
<1> QED BY <1>1, <1>5, PlacesReadBack

\* The entries up to any one are no more than the rows, since no two are about
\* the same, so that a PLA header hides none.
LEMMA PLAReadsBack ==
  ASSUME Finished, format = "pla"
  PROVE  ReadsBack
<1>1. Document /\ All = written /\ Len(rows) \in Nat
  BY FinishedDocument, RowsAreRows DEF Finished
<1>2. written[1].no = Len(rows)
  BY <1>1 DEF Document, HeaderCounts
<1>3. ASSUME NEW m \in Files PROVE Cardinality(UpTo(m)) <= Len(rows)
  <2> DEFINE f == [n \in UpTo(m) |-> written[n].value]
  <2>1. \A n \in UpTo(m) : n \in DOMAIN All /\ n \in Int /\ Counted(All[n])
    BY <1>1, FinishedDocument, AllLines DEF UpTo, Finished
  <2>2. f \in [UpTo(m) -> 1..Len(rows)]
    BY <1>1, <2>1 DEF Document, EntriesAreRows
  <2>3. \A a, b \in UpTo(m) : a < b => f[a] < f[b]
    BY <1>1, <2>1 DEF Document, EntriesAreInOrder
  <2>4. \A a, b \in UpTo(m) : f[a] = f[b] => a = b
    <3> SUFFICES ASSUME NEW a \in UpTo(m), NEW b \in UpTo(m), f[a] = f[b], a # b PROVE FALSE
      OBVIOUS
    <3>1. f[a] \in Int /\ f[b] \in Int
      BY <2>2
    <3> HIDE DEF f
    <3>2. a < b \/ b < a
      BY <2>1
    <3> QED BY <2>3, <3>1, <3>2
  <2> HIDE DEF f
  <2>5. f \in Injection(UpTo(m), 1..Len(rows))
    BY <2>2, <2>4, Fun_IsInj
  <2>6. IsFiniteSet(1..Len(rows)) /\ Cardinality(1..Len(rows)) = Len(rows)
    <3>1. 1 \in Int /\ Len(rows) \in Int
      BY <1>1
    <3>2. /\ IsFiniteSet(1..Len(rows))
          /\ Cardinality(1..Len(rows)) = IF 1 > Len(rows) THEN 0 ELSE Len(rows) - 1 + 1
      BY <3>1, FS_Interval
    <3> QED BY <1>1, <3>2
  <2> QED BY <2>5, <2>6, FS_Injection
<1> DEFINE g == [n \in Files |-> n]
           F == [n \in Files |-> Entry(written[n].value, NULL)]
<1>4. ReadBack = F
  <2>1. Files = {m \in Files : Cardinality(UpTo(m)) <= written[1].no}
    BY <1>2, <1>3
  <2> QED BY <2>1 DEF ReadBack
<1>5. /\ DOMAIN F = Files /\ \A n \in Files : g[n] = n
      /\ \A n \in Files : F[n].row = written[n].value /\ F[n].title = NULL
  BY DEF Entry
<1> HIDE DEF F, g
<1>6. Places(F, g)
  BY <1>5 DEF Places
<1> QED BY <1>4, <1>6, PlacesReadBack

\* Each number of a PLS file has one entry and at most one title.
LEMMA PLSReadsBack ==
  ASSUME Finished, format = "pls"
  PROVE  ReadsBack
<1>1. Document /\ All = written /\ \A n \in Files : n \in DOMAIN written /\ Counted(written[n])
  BY FinishedDocument
<1>2. /\ DOMAIN written = 1..Len(written) /\ Len(written) \in Nat
      /\ \A n \in DOMAIN written : n \in Int /\ written[n].no \in Int
  BY <1>1, AllLines DEF Finished
<1>3. Side = 1
  BY DEF Side
<1>4. \A m, n \in Files : m < n => written[m].no < written[n].no
  BY <1>1 DEF Document, EntriesAreInOrder
<1>5. \A m, n \in Files : written[m].no = written[n].no => m = n
  <2> SUFFICES ASSUME NEW m \in Files, NEW n \in Files, written[m].no = written[n].no, m # n
               PROVE  FALSE
    OBVIOUS
  <2>1. m < n \/ n < m
    BY <1>1, <1>2
  <2>2. written[m].no \in Int /\ written[n].no \in Int
    BY <1>1, <1>2
  <2> QED BY <1>4, <2>1, <2>2
<1>6. Numbers(written) = {written[n].no : n \in Files}
  <2>1. \A n \in Files : written[n].no # NoNumber
    BY <1>1, <1>2, NoNumberAssumption
  <2> QED BY <2>1 DEF Numbers, Files
<1>7. ASSUME NEW n \in Files
      PROVE  /\ Lookup(written, "file", written[n].no) = written[n].value
             /\ Lookup(written, "title", written[n].no) =
                  IF rows[written[n].value].titled = TRUE THEN written[n].value ELSE NULL
  <2>1. {k \in DOMAIN written : written[k].key = "file" /\ written[k].no = written[n].no} = {n}
    BY <1>1, <1>5 DEF Files, Counted
  <2>2. n \in Int /\ n + 1 \in Int
    BY <1>1, <1>2
  <2> DEFINE T == {k \in DOMAIN written : written[k].key = "title" /\ written[k].no = written[n].no}
  <2>3. ASSUME NEW k \in T
        PROVE  k = n + 1 /\ rows[written[n].value].titled = TRUE
    <3>1. /\ k \in Int /\ k - 1 \in Files
          /\ IsTitleOf(written[k], written[k - 1])
          /\ rows[written[k].value].titled = TRUE
      BY <1>1, <1>2, <1>3 DEF Document, TitlesAreBeside, Files
    <3>2. k - 1 = n
      BY <1>5, <3>1 DEF IsTitleOf
    <3> QED BY <2>2, <3>1, <3>2 DEF IsTitleOf
  <2>4. CASE rows[written[n].value].titled = TRUE
    <3>1. n + 1 \in DOMAIN written /\ IsTitleOf(written[n + 1], written[n])
      BY <1>1, <1>3, <2>4 DEF Document, TitlesAreBeside
    <3>2. T = {n + 1}
      BY <2>3, <3>1 DEF IsTitleOf
    <3>3. Lookup(written, "title", written[n].no) = written[n + 1].value
      BY <2>2, <3>2, LookupOfOne
    <3> QED BY <2>1, <2>2, <2>4, <3>1, <3>3, LookupOfOne DEF IsTitleOf
  <2>5. CASE ~(rows[written[n].value].titled = TRUE)
    <3>1. T = {}
      BY <2>3, <2>5
    <3> QED BY <2>1, <2>2, <2>5, <3>1, LookupOfOne, LookupOfNone
  <2> QED BY <2>4, <2>5
<1> DEFINE g == [n \in Numbers(written) |-> CHOOSE j \in Files : written[j].no = n]
           F == [n \in Numbers(written) |-> Entry(Item(written, n).file, Item(written, n).title)]
<1>8. \A n \in Numbers(written) : g[n] \in Files /\ written[g[n]].no = n
  BY <1>6
<1>9. \A j \in Files : written[j].no \in Numbers(written) /\ g[written[j].no] = j
  <2> SUFFICES ASSUME NEW j \in Files
               PROVE  written[j].no \in Numbers(written) /\ g[written[j].no] = j
    OBVIOUS
  <2>1. written[j].no \in Numbers(written)
    BY <1>6
  <2> HIDE DEF g
  <2>2. g[written[j].no] \in Files /\ written[g[written[j].no]].no = written[j].no
    BY <1>8, <2>1
  <2> QED BY <1>5, <2>1, <2>2
<1>10. ReadBack = F
  BY DEF ReadBack
<1>11. \A n \in Numbers(written) :
         /\ F[n].row = Lookup(written, "file", n) /\ F[n].title = Lookup(written, "title", n)
  BY DEF Entry, Item
<1>12. DOMAIN F = Numbers(written)
  OBVIOUS
<1> HIDE DEF F, g
<1>13. \A n \in Numbers(written) :
         /\ F[n].row = written[g[n]].value
         /\ F[n].title = IF rows[F[n].row].titled = TRUE THEN F[n].row ELSE NULL
  <2> SUFFICES ASSUME NEW n \in Numbers(written)
               PROVE  /\ F[n].row = written[g[n]].value
                      /\ F[n].title = IF rows[F[n].row].titled = TRUE THEN F[n].row ELSE NULL
    OBVIOUS
  <2>1. g[n] \in Files /\ written[g[n]].no = n
    BY <1>8
  <2>2. /\ Lookup(written, "file", n) = written[g[n]].value
        /\ Lookup(written, "title", n) =
             IF rows[written[g[n]].value].titled = TRUE THEN written[g[n]].value ELSE NULL
    BY <1>7, <2>1
  <2> QED BY <1>11, <2>2
<1>14. \A m, n \in Numbers(written) : m < n => g[m] < g[n]
  <2> SUFFICES ASSUME NEW m \in Numbers(written), NEW n \in Numbers(written), m < n
               PROVE  g[m] < g[n]
    OBVIOUS
  <2>1. /\ g[m] \in Files /\ g[n] \in Files /\ g[m] \in Int /\ g[n] \in Int
        /\ written[g[m]].no = m /\ written[g[n]].no = n /\ m \in Int /\ n \in Int
    BY <1>1, <1>2, <1>8
  <2>2. ~(g[n] < g[m]) /\ g[n] # g[m]
    BY <1>4, <2>1
  <2> QED BY <2>1, <2>2
<1>15. Places(F, g)
  BY <1>8, <1>9, <1>12, <1>13, <1>14 DEF Places
<1> QED BY <1>10, <1>15, PlacesReadBack

\* A playlist that was saved, in any of the four formats and of any length,
\* reads back with its rows in order and each with its own title, whatever
\* schemes came to be ignored while it was written.
THEOREM SavedReadsBack == Spec => []ReadsBack
<1>1. Init => CountIInv /\ FileIInv
  <2> SUFFICES ASSUME Init PROVE CountIInv /\ FileIInv
    OBVIOUS
  <2>1. FileIInv
    BY DEF Init, FileIInv, Going
  <2> QED BY <2>1, CountFromTheStart
<1>2. TypeIInv /\ CountIInv /\ FileIInv => ReadsBack
  <2> SUFFICES ASSUME Finished PROVE ReadsBack
    BY DEF Finished, ReadsBack
  <2>1. format \in {"pls", "m3u", "xspf", "pla"}
    BY SaveAssumption DEF Finished, TypeIInv, CallIsAllowed
  <2> QED BY <2>1, M3UReadsBack, PLAReadsBack, PLSReadsBack
<1> QED BY <1>1, <1>2, TypesFromTheStart, StepsKeepTypes, StepsKeepCount, StepsKeepFile, PTL
        DEF Spec
=============================================================================
