------------------------------- MODULE PlsProof -------------------------------
(* Theorems about the scan of a PLS file, for every file and every width of   *)
(* the counter: what is found was counted, and the numbers are gone through   *)
(* in rounds, each of which finds every entry once.                           *)
EXTENDS TimesRead, FiniteSetTheorems, WellFoundedInduction, TLAPS

---------------------------------------------------------------------------
\* The table of a file

\* The number of a line.
Nos == {Printed(n) : n \in Guints}

\* What a file is.
LEMMA FileType ==
  ASSUME NEW file \in Files
  PROVE  /\ Len(file) \in Nat /\ DOMAIN file = 1..Len(file)
         /\ \A k \in 1..Len(file) : file[k].no \in Nos \cup {NoNumber} /\ file[k].value # NULL
<1>1. file \in Seq({file[k] : k \in DOMAIN file})
  BY ScanAssumption
<1>2. Len(file) \in Nat /\ DOMAIN file = 1..Len(file)
  BY <1>1
<1> QED BY <1>2, ScanAssumption DEF Nos

\* A set of positions has a last one.
LEMMA LastPosition ==
  ASSUME NEW n \in Nat, NEW S \in SUBSET (1..n), S # {}
  PROVE  Max(S) \in S
<1> DEFINE T == {m \in Nat : n - m \in S}
           R == OpToRel(<, Nat)
<1>1. T \in SUBSET Nat /\ T # {}
  <2>1. PICK k \in S : TRUE
    OBVIOUS
  <2>2. n - k \in Nat /\ n - (n - k) = k
    BY <2>1
  <2> QED BY <2>1, <2>2
<1>2. IsWellFoundedOn(R, Nat)
  BY NatLessThanWellFounded
<1>3. \A m, k \in Nat : k < m => <<k, m>> \in R
  BY DEF OpToRel
<1> HIDE DEF T, R
<1>4. PICK m \in T : \A k \in T : ~(<<k, m>> \in R)
  BY <1>1, <1>2, WFMin
<1>5. \A k \in T : m <= k
  <2>1. \A k \in T : m \in Nat /\ k \in Nat /\ ~(k < m)
    BY <1>1, <1>3, <1>4
  <2> QED BY <2>1
<1>6. m \in Nat /\ n - m \in S
  BY <1>4 DEF T
<1>7. \A j \in S : n - m >= j
  <2> SUFFICES ASSUME NEW j \in S PROVE n - m >= j
    OBVIOUS
  <2>1. n - j \in Nat /\ n - (n - j) = j
    OBVIOUS
  <2>2. m <= n - j
    BY <1>5, <2>1 DEF T
  <2> QED BY <1>6, <2>1, <2>2
<1> QED BY <1>6, <1>7 DEF Max

\* There is a value under a number exactly when a line has it, and it is the
\* value of such a line.
LEMMA LookupFinds ==
  ASSUME NEW file \in Files, NEW key, NEW no, Lookup(file, key, no) # NULL
  PROVE  \E k \in DOMAIN file : /\ file[k].key = key /\ file[k].no = no
                                /\ file[k].value = Lookup(file, key, no)
<1> DEFINE at == {k \in DOMAIN file : file[k].key = key /\ file[k].no = no}
<1>1. Lookup(file, key, no) = IF at = {} THEN NULL ELSE file[Max(at)].value
  BY DEF Lookup
<1>2. at # {} /\ at \in SUBSET (1..Len(file))
  BY <1>1, FileType
<1>3. Max(at) \in at
  BY <1>2, FileType, LastPosition
<1> QED BY <1>1, <1>2, <1>3

LEMMA LookupMisses ==
  ASSUME NEW file \in Files, NEW key, NEW no, Lookup(file, key, no) = NULL
  PROVE  \A k \in DOMAIN file : ~(file[k].key = key /\ file[k].no = no)
<1> DEFINE at == {k \in DOMAIN file : file[k].key = key /\ file[k].no = no}
<1>1. Lookup(file, key, no) = IF at = {} THEN NULL ELSE file[Max(at)].value
  BY DEF Lookup
<1>2. at \in SUBSET (1..Len(file))
  BY FileType
<1>3. ASSUME at # {} PROVE FALSE
  <2>1. Max(at) \in at
    BY <1>2, <1>3, FileType, LastPosition
  <2>2. Max(at) \in DOMAIN file
    BY <2>1
  <2> QED BY <1>1, <1>3, <2>2, FileType
<1> QED BY <1>3

\* A printed number is looked up with success exactly when it is the number of
\* an entry.
LEMMA NumberIsFound ==
  ASSUME NEW file \in Files, NEW no \in Nos
  PROVE  Lookup(file, "file", no) # NULL <=> no \in Numbers(file)
<1>1. no # NoNumber
  <2>1. no \in Int
    BY ScanAssumption DEF Nos, Printed, Guints
  <2> QED BY <2>1, NoNumberAssumption
<1>2. no \in Numbers(file) <=> \E k \in DOMAIN file : file[k].key = "file" /\ file[k].no = no
  BY <1>1 DEF Numbers, Counted
<1> QED BY <1>2, LookupFinds, LookupMisses

\* There are finitely many entries, and their numbers are printed.
LEMMA NumbersType ==
  ASSUME NEW file \in Files
  PROVE  /\ Numbers(file) \subseteq Nos /\ IsFiniteSet(Numbers(file))
         /\ Cardinality(Numbers(file)) \in Nat /\ num_entries(file) \in Nat
<1> DEFINE lined == {k \in DOMAIN file : Counted(file[k])}
           nos == {file[k].no : k \in lined}
           n == Len(file)
<1>1. n \in Nat /\ lined \subseteq 1..n
  BY FileType
<1> HIDE DEF n
<1>2. IsFiniteSet(1..n)
  BY <1>1, FS_Interval
<1>3. IsFiniteSet(lined)
  BY <1>1, <1>2, FS_Subset
<1>4. nos \ {NoNumber} = Numbers(file) /\ num_entries(file) = Cardinality(lined)
  BY DEF Numbers, num_entries
<1>5. Numbers(file) \subseteq Nos
  BY FileType DEF Numbers
<1> DEFINE f == [k \in lined |-> file[k].no]
<1>6. IsFiniteSet(nos)
  <2>1. f \in Surjection(lined, nos)
    BY DEF Surjection
  <2> HIDE DEF f, lined, nos
  <2> QED BY <1>3, <2>1, FS_Surjection
<1>7. IsFiniteSet(Numbers(file))
  <2>1. Numbers(file) \subseteq nos
    BY <1>4
  <2> QED BY <1>6, <2>1, FS_Subset
<1> QED BY <1>3, <1>4, <1>5, <1>7, FS_CardinalityType

---------------------------------------------------------------------------
\* The order of the counter

\* Every number has a turn of its own, and the counter takes them one by one.
LEMMA Turns ==
  /\ \A n \in Nos : n \in Int /\ Turn(n) \in 0..(2 * GUINT_HALF - 1)
  /\ \A m, n \in Nos : Turn(m) = Turn(n) => m = n
  /\ \A g \in Guints : Printed(g) \in Nos /\ Incremented(g) \in Guints
  /\ \A g \in Guints \ {0} : Turn(Printed(Incremented(g))) = Turn(Printed(g)) + 1
  /\ Turn(Printed(0)) = 2 * GUINT_HALF - 1 /\ Turn(Printed(Incremented(0))) = 0
  /\ 1 \in Guints /\ Turn(Printed(1)) = 0
<1>1. GUINT_HALF \in Nat \ {0}
  BY ScanAssumption
<1>2. \A n \in Nos : n \in Int /\ -GUINT_HALF <= n /\ n < GUINT_HALF
  BY <1>1 DEF Nos, Printed, Guints
<1>3. /\ \A n \in Nos : Turn(n) \in 0..(2 * GUINT_HALF - 1)
      /\ \A m, n \in Nos : Turn(m) = Turn(n) => m = n
  BY <1>1, <1>2 DEF Turn
<1>4. \A g \in Guints : Printed(g) \in Nos /\ Incremented(g) \in Guints
  BY <1>1 DEF Nos, Incremented, Guints
<1>5. \A g \in Guints \ {0} : Turn(Printed(Incremented(g))) = Turn(Printed(g)) + 1
  BY <1>1 DEF Turn, Printed, Incremented, Guints
<1>6. /\ Turn(Printed(0)) = 2 * GUINT_HALF - 1 /\ Turn(Printed(Incremented(0))) = 0
      /\ 1 \in Guints /\ Turn(Printed(1)) = 0
  BY <1>1 DEF Turn, Printed, Incremented, Guints
<1> QED BY <1>2, <1>3, <1>4, <1>5, <1>6

\* How many entries come up before a turn.
LEMMA EarlierType ==
  ASSUME NEW file \in Files, NEW turn \in Int
  PROVE  /\ IsFiniteSet(Earlier(file, turn)) /\ Cardinality(Earlier(file, turn)) \in Nat
         /\ Cardinality(Earlier(file, turn)) <= Cardinality(Numbers(file))
<1>1. Earlier(file, turn) \subseteq Numbers(file)
  BY DEF Earlier
<1> QED BY <1>1, NumbersType, FS_Subset, FS_CardinalityType

\* One more, if there is an entry of that turn.
LEMMA EarlierNext ==
  ASSUME NEW file \in Files, NEW n \in Nos
  PROVE  Cardinality(Earlier(file, Turn(n) + 1)) =
           Cardinality(Earlier(file, Turn(n))) + (IF n \in Numbers(file) THEN 1 ELSE 0)
<1> DEFINE E == Earlier(file, Turn(n))
<1>1. Turn(n) \in Int /\ n \notin E
  BY Turns DEF Earlier
<1>2. \A m \in Numbers(file) : Turn(m) \in Int /\ (Turn(m) = Turn(n) => m = n)
  BY NumbersType, Turns
<1>3. Earlier(file, Turn(n) + 1) = IF n \in Numbers(file) THEN E \cup {n} ELSE E
  BY <1>1, <1>2 DEF Earlier
<1>4. IsFiniteSet(E) /\ Cardinality(E) \in Nat
  BY <1>1, EarlierType
<1> HIDE DEF E
<1>5. Cardinality(E \cup {n}) = Cardinality(E) + 1
  BY <1>1, <1>4, FS_AddElement
<1> QED BY <1>3, <1>4, <1>5 DEF E

\* None before the first turn, all of them after the last.
LEMMA EarlierEnds ==
  ASSUME NEW file \in Files
  PROVE  /\ Cardinality(Earlier(file, 0)) = 0
         /\ Cardinality(Earlier(file, 2 * GUINT_HALF)) = Cardinality(Numbers(file))
<1>1. \A m \in Numbers(file) : Turn(m) >= 0 /\ Turn(m) < 2 * GUINT_HALF
  BY NumbersType, Turns, ScanAssumption
<1>2. Earlier(file, 0) = {} /\ Earlier(file, 2 * GUINT_HALF) = Numbers(file)
  BY <1>1, NumbersType, Turns DEF Earlier
<1> QED BY <1>2, FS_EmptySet

\* The entry with so many before it is the one the counter is at.
LEMMA InOrderIs ==
  ASSUME NEW file \in Files, NEW n \in Numbers(file)
  PROVE  InOrder(file, Cardinality(Earlier(file, Turn(n))) + 1) = n
<1> DEFINE c(m) == Cardinality(Earlier(file, Turn(m)))
           N == Numbers(file)
<1>1. \A m \in N : m \in Nos /\ Turn(m) \in Int
  BY NumbersType, Turns
<1>2. \A m \in N : c(m) \in Nat
  BY <1>1, EarlierType
<1>3. ASSUME NEW a \in N, NEW b \in N, Turn(a) < Turn(b) PROVE c(a) < c(b)
  <2>1. Earlier(file, Turn(a) + 1) \subseteq Earlier(file, Turn(b))
    BY <1>1, <1>3 DEF Earlier
  <2>2. Cardinality(Earlier(file, Turn(a) + 1)) <= Cardinality(Earlier(file, Turn(b)))
    BY <1>1, <2>1, EarlierType, FS_Subset
  <2>3. Cardinality(Earlier(file, Turn(a) + 1)) = Cardinality(Earlier(file, Turn(a))) + 1
    BY <1>1, EarlierNext
  <2> DEFINE ca == Cardinality(Earlier(file, Turn(a)))
             cb == Cardinality(Earlier(file, Turn(b)))
  <2>4. ca \in Nat /\ cb \in Nat
    BY <1>2
  <2> HIDE DEF ca, cb
  <2>5. ca + 1 <= cb
    BY <2>2, <2>3 DEF ca, cb
  <2>6. ca < cb
    BY <2>4, <2>5
  <2> QED BY <2>6 DEF ca, cb
<1> HIDE DEF c
<1>4. \A m \in N : c(m) = c(n) => m = n
  <2> SUFFICES ASSUME NEW m \in N, c(m) = c(n) PROVE m = n
    OBVIOUS
  <2>1. ~(Turn(m) < Turn(n)) /\ ~(Turn(n) < Turn(m))
    BY <1>2, <1>3
  <2>2. Turn(m) = Turn(n)
    BY <1>1, <2>1
  <2> QED BY <1>1, <2>2, Turns
<1>5. \A m \in N : (c(m) = (c(n) + 1) - 1) <=> m = n
  BY <1>2, <1>4
<1>6. (CHOOSE m \in N : c(m) = (c(n) + 1) - 1) = n
  BY <1>5
<1> QED BY <1>6 DEF InOrder, c

---------------------------------------------------------------------------
\* The rounds

\* The list s is rounds of w, the last of which has come to number b: the last
\* b items are the first b of w; before them is nothing, or a whole round.
InRounds(s, b, c, w) ==
  /\ b <= Len(s)
  /\ \A j \in 1..b : s[Len(s) - b + j] = w[j]
  /\ \/ Len(s) = b
     \/ /\ c <= Len(s) - b
        /\ \A j \in 1..c : s[Len(s) - b - c + j] = w[j]
  /\ \A k \in 1..Len(s) : s[k] = IF k <= c THEN w[k] ELSE s[k - c]

\* The next of w is found.
LEMMA RoundGoesOn ==
  ASSUME NEW S, NEW s \in Seq(S), NEW b \in Nat, NEW c \in Nat, NEW w, InRounds(s, b, c, w),
         b < c, w[b + 1] \in S
  PROVE  InRounds(Append(s, w[b + 1]), b + 1, c, w)
<1> DEFINE n == Len(s)
           x == w[b + 1]
           t == Append(s, x)
<1>1. n \in Nat /\ Len(t) = n + 1 /\ t[n + 1] = x /\ \A k \in 1..n : t[k] = s[k]
  OBVIOUS
<1> HIDE DEF n, t
<1>2. /\ b <= n
      /\ \A j \in 1..b : s[n - b + j] = w[j]
      /\ n = b \/ (c <= n - b /\ \A j \in 1..c : s[n - b - c + j] = w[j])
      /\ \A k \in 1..n : s[k] = IF k <= c THEN w[k] ELSE s[k - c]
  BY DEF InRounds, n
<1>3. b + 1 <= n + 1 /\ (n + 1) - (b + 1) = n - b
  BY <1>1, <1>2
<1>4. ASSUME NEW j \in 1..(b + 1) PROVE t[(n + 1) - (b + 1) + j] = w[j]
  <2>1. CASE j = b + 1
    <3>1. (n + 1) - (b + 1) + j = n + 1
      BY <1>1, <2>1
    <3> QED BY <1>1, <2>1, <3>1
  <2>2. CASE j # b + 1
    <3>1. j \in 1..b /\ n - b + j \in 1..n
      BY <1>1, <1>2, <2>2
    <3> QED BY <1>1, <1>2, <1>3, <3>1
  <2> QED BY <2>1, <2>2
<1>5. \/ n + 1 = b + 1
      \/ c <= (n + 1) - (b + 1) /\ \A j \in 1..c : t[(n + 1) - (b + 1) - c + j] = w[j]
  <2> SUFFICES ASSUME n # b
               PROVE  c <= (n + 1) - (b + 1) /\ \A j \in 1..c : t[(n + 1) - (b + 1) - c + j] = w[j]
    BY <1>1
  <2>1. c <= n - b /\ \A j \in 1..c : s[n - b - c + j] = w[j]
    BY <1>2
  <2>2. \A j \in 1..c : n - b - c + j \in 1..n
    BY <1>1, <2>1
  <2> QED BY <1>1, <1>3, <2>1, <2>2
<1>6. ASSUME NEW k \in 1..(n + 1) PROVE t[k] = IF k <= c THEN w[k] ELSE t[k - c]
  <2>1. CASE k # n + 1
    <3>1. k \in 1..n /\ (k > c => k - c \in 1..n)
      BY <1>1, <2>1
    <3> QED BY <1>1, <1>2, <3>1
  <2>2. CASE k = n + 1 /\ n = b
    BY <1>1, <2>2
  <2>3. CASE k = n + 1 /\ n # b
    <3>1. c <= n - b /\ \A j \in 1..c : s[n - b - c + j] = w[j]
      BY <1>2, <2>3
    <3>2. b + 1 \in 1..c /\ n - b - c + (b + 1) = k - c /\ k - c \in 1..n /\ ~(k <= c)
      BY <1>1, <2>3, <3>1
    <3> QED BY <1>1, <2>3, <3>1, <3>2
  <2> QED BY <2>1, <2>2, <2>3
<1>7. InRounds(t, b + 1, c, w)
  BY <1>1, <1>3, <1>4, <1>5, <1>6 DEF InRounds
<1> QED BY <1>7 DEF t

\* A round is over.
LEMMA RoundIsOver ==
  ASSUME NEW S, NEW s \in Seq(S), NEW c \in Nat, NEW w, InRounds(s, c, c, w)
  PROVE  InRounds(s, 0, c, w)
BY DEF InRounds

---------------------------------------------------------------------------
\* The scan

\* What a file holds, in the order of the counter.
InTurn(file) == [k \in 1..Cardinality(Numbers(file)) |-> Item(file, InOrder(file, k))]
Held(file) == {Item(file, n) : n \in Numbers(file)}

\* The scan has gone through the numbers before the one it is at in rounds.
ScanStates ==
  {p \in Files \X Guints \X Int \X UNION {Seq(Held(file)) : file \in Files} :
     /\ p[4] \in Seq(Held(p[1]))
     /\ p[3] = Len(p[4]) /\ p[3] <= num_entries(p[1])
     /\ InRounds(p[4], Cardinality(Earlier(p[1], Turn(Printed(p[2])))),
                 Cardinality(Numbers(p[1])), InTurn(p[1]))}
ScanInv == <<lines, i, found_entries, items>> \in ScanStates

\* What it says.
LEMMA ScanMeans ==
  ASSUME NEW file \in Files, NEW g, NEW n, NEW s
  PROVE  <<file, g, n, s>> \in ScanStates <=>
           /\ g \in Guints /\ s \in Seq(Held(file)) /\ n = Len(s) /\ n <= num_entries(file)
           /\ InRounds(s, Cardinality(Earlier(file, Turn(Printed(g)))),
                       Cardinality(Numbers(file)), InTurn(file))
<1>1. s \in Seq(Held(file)) => s \in UNION {Seq(Held(f)) : f \in Files}
  OBVIOUS
<1>2. s \in Seq(Held(file)) => Len(s) \in Int
  OBVIOUS
<1> QED BY <1>1, <1>2 DEF ScanStates

\* The counter goes on over a number: the entries before it are one more if it
\* was that of an entry, and none when it was the last.
LEMMA CounterGoesOn ==
  ASSUME NEW file \in Files, NEW g \in Guints, NEW S, NEW s \in Seq(S),
         InRounds(s, Cardinality(Earlier(file, Turn(Printed(g)))) +
                       (IF Printed(g) \in Numbers(file) THEN 1 ELSE 0),
                  Cardinality(Numbers(file)), InTurn(file))
  PROVE  InRounds(s, Cardinality(Earlier(file, Turn(Printed(Incremented(g))))),
                  Cardinality(Numbers(file)), InTurn(file))
<1> DEFINE after == Cardinality(Earlier(file, Turn(Printed(g)) + 1))
           c == Cardinality(Numbers(file))
           w == InTurn(file)
<1>1. Printed(g) \in Nos
  BY Turns
<1>2. InRounds(s, after, c, w)
  BY <1>1, EarlierNext
<1>3. c \in Nat
  BY NumbersType
<1>4. CASE g # 0
  <2>1. Turn(Printed(Incremented(g))) = Turn(Printed(g)) + 1
    BY <1>4, Turns
  <2> QED BY <1>2, <2>1
<1>5. CASE g = 0
  <2>1. Turn(Printed(g)) + 1 = 2 * GUINT_HALF
    BY <1>5, Turns, ScanAssumption
  <2>2. after = c
    BY <2>1, EarlierEnds
  <2>3. Cardinality(Earlier(file, Turn(Printed(Incremented(g))))) = 0
    BY <1>5, Turns, EarlierEnds
  <2> HIDE DEF c, w, after
  <2>4. InRounds(s, 0, c, w)
    BY <1>2, <1>3, <2>2, RoundIsOver
  <2> QED BY <2>3, <2>4 DEF c, w
<1> QED BY <1>4, <1>5

LEMMA InitScan == ScanInit => ScanInv
<1> SUFFICES ASSUME ScanInit PROVE ScanInv
  OBVIOUS
<1>1. lines \in Files /\ i = 1 /\ found_entries = 0 /\ items = <<>>
  BY DEF ScanInit
<1>2. 1 \in Guints /\ Cardinality(Earlier(lines, Turn(Printed(1)))) = 0
  BY <1>1, Turns, EarlierEnds
<1>3. <<>> \in Seq(Held(lines)) /\ Len(<<>>) = 0 /\ 0 <= num_entries(lines)
  BY <1>1, NumbersType
<1>4. InRounds(<<>>, 0, Cardinality(Numbers(lines)), InTurn(lines))
  BY DEF InRounds
<1>5. <<lines, 1, 0, <<>>>> \in ScanStates
  BY <1>1, <1>2, <1>3, <1>4, ScanMeans
<1> QED BY <1>1, <1>5 DEF ScanInv

LEMMA NextScan == ScanInv /\ [Miss \/ Find]_scan => ScanInv'
<1> SUFFICES ASSUME ScanInv, [Miss \/ Find]_scan PROVE ScanInv'
  OBVIOUS
<1> DEFINE no == Printed(i)
           b == Cardinality(Earlier(lines, Turn(no)))
           c == Cardinality(Numbers(lines))
           w == InTurn(lines)
<1>1. lines \in Files
  BY DEF ScanInv, ScanStates
<1>2. /\ i \in Guints /\ items \in Seq(Held(lines)) /\ found_entries = Len(items)
      /\ found_entries <= num_entries(lines) /\ InRounds(items, b, c, w)
  BY <1>1, ScanMeans DEF ScanInv
<1>3. no \in Nos /\ Incremented(i) \in Guints /\ num_entries(lines) \in Nat
      /\ b \in Nat /\ c \in Nat /\ b <= c /\ Turn(no) \in Int
  <2>1. no \in Nos /\ Incremented(i) \in Guints
    BY <1>2, Turns
  <2>2. Turn(no) \in Int
    BY <2>1, Turns
  <2> HIDE DEF no
  <2> QED BY <1>1, <2>1, <2>2, EarlierType, NumbersType
<1>4. CASE Miss
  <2>1. /\ i' = Incremented(i) /\ lines' = lines /\ found_entries' = found_entries
        /\ items' = items /\ no \notin Numbers(lines)
    BY <1>1, <1>3, <1>4, NumberIsFound DEF Miss
  <2>2. InRounds(items, b + (IF no \in Numbers(lines) THEN 1 ELSE 0), c, w)
    <3>1. b + (IF no \in Numbers(lines) THEN 1 ELSE 0) = b
      BY <1>3, <2>1
    <3> QED BY <1>2, <3>1
  <2>3. InRounds(items, Cardinality(Earlier(lines, Turn(Printed(Incremented(i))))), c, w)
    BY <1>1, <1>2, <2>2, CounterGoesOn
  <2>4. <<lines, Incremented(i), found_entries, items>> \in ScanStates
    BY <1>1, <1>2, <1>3, <2>3, ScanMeans
  <2> QED BY <2>1, <2>4 DEF ScanInv
<1>5. CASE Find
  <2> DEFINE x == Item(lines, no)
             s == Append(items, x)
  <2>1. /\ i' = Incremented(i) /\ lines' = lines /\ found_entries' = found_entries + 1
        /\ items' = s /\ no \in Numbers(lines) /\ found_entries < num_entries(lines)
    BY <1>1, <1>3, <1>5, NumberIsFound DEF Find, Scanning
  <2>2. x \in Held(lines)
    BY <2>1 DEF Held
  <2>3. b < c /\ w[b + 1] = x
    <3>1. Cardinality(Earlier(lines, Turn(no) + 1)) = b + 1
      BY <1>1, <1>3, <2>1, EarlierNext
    <3>2. b + 1 <= c
      BY <1>1, <1>3, <3>1, EarlierType
    <3>3. InOrder(lines, b + 1) = no
      BY <1>1, <2>1, InOrderIs
    <3>4. b + 1 \in 1..c
      BY <1>3, <3>2
    <3>5. w[b + 1] = Item(lines, InOrder(lines, b + 1))
      BY <3>4 DEF InTurn
    <3> QED BY <1>3, <3>2, <3>3, <3>5
  <2>4. InRounds(s, b + 1, c, w)
    <3> HIDE DEF b, c, w, x
    <3> QED BY <1>2, <1>3, <2>2, <2>3, RoundGoesOn
  <2>5. s \in Seq(Held(lines)) /\ Len(s) = found_entries + 1
    BY <1>2, <2>2
  <2>6. found_entries \in Nat
    BY <1>2
  <2> HIDE DEF s
  <2>7. InRounds(s, Cardinality(Earlier(lines, Turn(Printed(Incremented(i))))), c, w)
    <3>1. b + (IF no \in Numbers(lines) THEN 1 ELSE 0) = b + 1
      BY <2>1
    <3> QED BY <1>1, <1>2, <2>4, <2>5, <3>1, CounterGoesOn
  <2>8. found_entries + 1 <= num_entries(lines)
    BY <1>3, <2>1, <2>6
  <2>9. <<lines, Incremented(i), found_entries + 1, s>> \in ScanStates
    BY <1>1, <1>3, <2>5, <2>7, <2>8, ScanMeans
  <2> QED BY <2>1, <2>9 DEF ScanInv
<1>6. CASE UNCHANGED scan
  BY <1>6 DEF scan, ScanInv
<1> QED BY <1>4, <1>5, <1>6

\* What TimesRead does is the scan, or leaves it alone.
LEMMA ScanOfRead == (Init => ScanInit) /\ ([Next]_vars => [Miss \/ Find]_scan)
<1>1. Init => ScanInit
  BY DEF Init
<1>2. [Next]_vars => [Miss \/ Find]_scan
  <2>1. set_recent_date => UNCHANGED scan
    BY DEF set_recent_date, ReadDate
  <2>2. ReadFile => Miss \/ Find
    BY DEF ReadFile, ReadEntry, NoEntry
  <2>3. UNCHANGED vars => UNCHANGED scan
    BY DEF vars
  <2> QED BY <2>1, <2>2, <2>3 DEF Next
<1> QED BY <1>1, <1>2

\* For every file and every width of the counter: as many entries are found as
\* were counted and no more, and each is one that a line of the file gives.
THEOREM ScanTypesHold == Spec => []ScanTypeOK
<1>1. ScanInv => ScanTypeOK
  <2> SUFFICES ASSUME ScanInv PROVE ScanTypeOK
    OBVIOUS
  <2>1. lines \in Files
    BY DEF ScanInv, ScanStates
  <2>2. /\ i \in Guints /\ items \in Seq(Held(lines)) /\ found_entries = Len(items)
        /\ found_entries <= num_entries(lines)
    BY <2>1, ScanMeans DEF ScanInv
  <2>3. ASSUME NEW k \in DOMAIN items
        PROVE  \E l \in DOMAIN lines : Counted(lines[l]) /\ lines[l].value = items[k].file
    <3>1. items[k] \in Held(lines)
      BY <2>2
    <3>2. PICK n \in Numbers(lines) : items[k] = Item(lines, n)
      BY <3>1 DEF Held
    <3>3. n \in Nos
      BY <2>1, NumbersType
    <3>4. Lookup(lines, "file", n) # NULL
      BY <2>1, <3>2, <3>3, NumberIsFound
    <3>5. items[k].file = Lookup(lines, "file", n)
      BY <3>2 DEF Item
    <3> QED BY <2>1, <3>4, <3>5, LookupFinds DEF Counted
  <2> QED BY <2>1, <2>2, <2>3 DEF ScanTypeOK
<1> QED BY InitScan, NextScan, ScanOfRead, <1>1, PTL DEF Spec

\* For every file and every width of the counter: the entries are found in the
\* order of their numbers, 1 first, also over gaps, and as often as one round
\* is not enough the next finds the same ones again.
THEOREM EntriesComeInRounds == Spec => []ReadInRounds
<1>1. ScanInv => ReadInRounds
  <2> SUFFICES ASSUME ScanInv PROVE ReadInRounds
    OBVIOUS
  <2>1. lines \in Files
    BY DEF ScanInv, ScanStates
  <2>2. /\ items \in Seq(Held(lines))
        /\ InRounds(items, Cardinality(Earlier(lines, Turn(Printed(i)))),
                    Cardinality(Numbers(lines)), InTurn(lines))
    BY <2>1, ScanMeans DEF ScanInv
  <2> DEFINE c == Cardinality(Numbers(lines))
  <2>3. c \in Nat
    BY <2>1, NumbersType
  <2>4. \A k \in 1..Len(items) : items[k] = IF k <= c THEN InTurn(lines)[k] ELSE items[k - c]
    BY <2>2 DEF InRounds
  <2>5. \A k \in 1..c : InTurn(lines)[k] = Item(lines, InOrder(lines, k))
    BY DEF InTurn
  <2>6. DOMAIN items = 1..Len(items) /\ Len(items) \in Nat
    BY <2>2
  <2> HIDE DEF c
  <2>7. \A k \in DOMAIN items :
          items[k] = IF k <= c THEN Item(lines, InOrder(lines, k)) ELSE items[k - c]
    BY <2>3, <2>4, <2>5, <2>6
  <2> QED BY <2>7 DEF ReadInRounds, c
<1> QED BY InitScan, NextScan, ScanOfRead, <1>1, PTL DEF Spec
=============================================================================
