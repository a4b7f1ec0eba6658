---------------------------- MODULE PlaylistProof ----------------------------
(* Theorems about Playlist, for any playlists, iterators, values and number  *)
(* of rows: no row is lost or listed twice, the linked lists implement the   *)
(* sequences of PlaylistRows where no position is negative, and an insertion *)
(* at a negative one never does what is documented of it.                    *)
EXTENDS PlaylistProperties, TLAPS

\* The list is old with node n put in at place k.
PutIn(list, old, n, k) ==
  /\ list \in Seq(Nodes)
  /\ Len(list) = Len(old) + 1
  /\ k \in 1..Len(list)
  /\ \A i \in 1..(k - 1) : list[i] = old[i]
  /\ list[k] = n
  /\ \A i \in k..Len(old) : list[i + 1] = old[i]

---------------------------------------------------------------------------
\* Lemmas about insertion

\* Prepending puts a node in at the head.
LEMMA PrependPutsIn ==
  ASSUME NEW old \in Seq(Nodes), NEW n \in Nodes
  PROVE  PutIn(<<n>> \o old, old, n, 1)
BY DEF PutIn, Nodes

\* Appending puts it in at the end.
LEMMA AppendPutsIn ==
  ASSUME NEW old \in Seq(Nodes), NEW n \in Nodes
  PROVE  PutIn(Append(old, n), old, n, Len(old) + 1)
BY DEF PutIn, Nodes

\* What InsertAt returns.
LEMMA InsertAtIs ==
  ASSUME NEW S, NEW old \in Seq(S), NEW n \in S, NEW k \in 1..(Len(old) + 1)
  PROVE  /\ InsertAt(old, k, n) \in Seq(S)
         /\ Len(InsertAt(old, k, n)) = Len(old) + 1
         /\ \A i \in 1..(k - 1) : InsertAt(old, k, n)[i] = old[i]
         /\ InsertAt(old, k, n)[k] = n
         /\ \A i \in k..Len(old) : InsertAt(old, k, n)[i + 1] = old[i]
<1> DEFINE before == SubSeq(old, 1, k - 1)
           after == SubSeq(old, k, Len(old))
           list == before \o <<n>> \o after
<1>1. before \in Seq(S) /\ Len(before) = k - 1 /\ \A i \in 1..(k - 1) : before[i] = old[i]
  OBVIOUS
<1>2. /\ after \in Seq(S)
      /\ Len(after) = Len(old) - k + 1
      /\ \A i \in 1..(Len(old) - k + 1) : after[i] = old[i + k - 1]
  OBVIOUS
<1> HIDE DEF before, after
<1>3. list \in Seq(S) /\ Len(list) = Len(old) + 1
  BY <1>1, <1>2
<1>4. list[k] = n /\ \A i \in 1..(k - 1) : list[i] = old[i]
  BY <1>1, <1>2
<1>5. ASSUME NEW i \in k..Len(old) PROVE list[i + 1] = old[i]
  <2>1. list[i + 1] = after[i + 1 - k] /\ i + 1 - k \in 1..(Len(old) - k + 1)
    BY <1>1, <1>2
  <2>2. after[i + 1 - k] = old[(i + 1 - k) + k - 1]
    BY <2>1, <1>2
  <2>3. (i + 1 - k) + k - 1 = i
    OBVIOUS
  <2> QED BY <2>1, <2>2, <2>3
<1>6. InsertAt(old, k, n) = list
  BY DEF InsertAt, before, after
<1> QED BY <1>3, <1>4, <1>5, <1>6

\* InsertAt puts a node in at the position given.
LEMMA InsertAtPutsIn ==
  ASSUME NEW old \in Seq(Nodes), NEW n \in Nodes, NEW k \in 1..(Len(old) + 1)
  PROVE  PutIn(InsertAt(old, k, n), old, n, k)
BY InsertAtIs DEF PutIn

\* g_list_insert puts the node in between the ends, or else at the end.
Between(position, size) == IF position \in 0..size THEN position + 1 ELSE size + 1

LEMMA GListInsertPutsIn ==
  ASSUME NEW old \in Seq(Nodes), NEW n \in Nodes, NEW position \in Int
  PROVE  /\ Between(position, Len(old)) \in Nat
         /\ PutIn(g_list_insert(old, n, position), old, n, Between(position, Len(old)))
<1>1. CASE position \in 0..Len(old)
  <2>1. position + 1 \in 1..(Len(old) + 1) /\ position + 1 \in Nat
    BY <1>1
  <2> QED BY <1>1, <2>1, InsertAtPutsIn DEF g_list_insert, Between
<1>2. CASE position \notin 0..Len(old)
  BY <1>2, AppendPutsIn DEF g_list_insert, Between
<1> QED BY <1>1, <1>2

\* What a list with a node put in contains, and where.
LEMMA PutInContains ==
  ASSUME NEW old \in Seq(Nodes), NEW n \in Nodes, NEW list, NEW k \in Nat,
         PutIn(list, old, n, k), ~Contains(old, n)
  PROVE  /\ \A m : Contains(list, m) <=> m = n \/ Contains(old, m)
         /\ \A i, j \in DOMAIN list : list[i] = n /\ list[j] = n => i = j
         /\ \A i \in DOMAIN list : list[i] # n =>
              \E l \in DOMAIN old : old[l] = list[i] /\ l = IF i < k THEN i ELSE i - 1
<1>1. /\ list \in Seq(Nodes) /\ Len(list) = Len(old) + 1 /\ k \in 1..Len(list)
      /\ \A i \in 1..(k - 1) : list[i] = old[i]
      /\ list[k] = n
      /\ \A i \in k..Len(old) : list[i + 1] = old[i]
  BY DEF PutIn
<1>2. \A i \in DOMAIN list : i # k =>
        \E l \in DOMAIN old : old[l] = list[i] /\ l = IF i < k THEN i ELSE i - 1
  <2> SUFFICES ASSUME NEW i \in DOMAIN list, i # k
               PROVE  \E l \in DOMAIN old : old[l] = list[i] /\ l = IF i < k THEN i ELSE i - 1
    OBVIOUS
  <2>1. CASE i < k
    BY <1>1, <2>1
  <2>2. CASE i > k
    <3>1. i - 1 \in k..Len(old) /\ i - 1 \in DOMAIN old /\ i = (i - 1) + 1
      BY <1>1, <2>2
    <3> QED BY <1>1, <2>2, <3>1
  <2> QED BY <1>1, <2>1, <2>2
<1>3. \A i \in DOMAIN list : list[i] = n => i = k
  BY <1>2 DEF Contains
<1>4. \A m : Contains(old, m) => Contains(list, m)
  <2> SUFFICES ASSUME NEW m, NEW l \in 1..Len(old), old[l] = m PROVE Contains(list, m)
    BY DEF Contains
  <2>1. CASE l < k
    BY <1>1, <2>1 DEF Contains
  <2>2. CASE l >= k
    <3>1. l \in k..Len(old) /\ l + 1 \in 1..Len(list)
      BY <1>1, <2>2
    <3>2. list[l + 1] = m
      BY <1>1, <3>1
    <3> QED BY <3>1, <3>2 DEF Contains
  <2> QED BY <1>1, <2>1, <2>2
<1>5. Contains(list, n)
  BY <1>1 DEF Contains
<1>6. \A m : Contains(list, m) => m = n \/ Contains(old, m)
  <2> SUFFICES ASSUME NEW m, NEW i \in DOMAIN list, list[i] = m
               PROVE  m = n \/ Contains(old, m)
    BY <1>1 DEF Contains
  <2>1. CASE i = k
    BY <1>1, <2>1
  <2>2. CASE i # k
    BY <1>2, <2>2 DEF Contains
  <2> QED BY <2>1, <2>2
<1>7. \A i \in DOMAIN list : list[i] # n => i # k
  BY <1>1
<1> QED BY <1>2, <1>3, <1>4, <1>5, <1>6, <1>7
---------------------------------------------------------------------------
\* The calls

\* A new row anywhere in a playlist is in that one, once, and nowhere else.
LEMMA NewItemKeepsRows ==
  ASSUME RowsAreKept, NEW p \in Playlists, NEW it \in Iters, NEW list, NEW k \in Nat,
         PutIn(list, items[p], made + 1, k), NewItem(p, list, it)
  PROVE  RowsAreKept'
<1> DEFINE n == made + 1
<1>1. /\ items \in [Playlists -> Seq(Nodes)]
      /\ data \in Seq(Values \cup {NULL})
      /\ iter \in [Iters -> Iterators]
      /\ made \in Nat /\ made < MaxRows /\ MaxRows \in Nat
  BY PlaylistAssumption DEF RowsAreKept, PlaylistTypeOK, NewItem, made
<1>2. n \in Nodes /\ n \in Nat /\ n # NULL /\ ~(n <= made)
  BY <1>1, PlaylistAssumption DEF Nodes
<1>3. /\ list \in Seq(Nodes)
      /\ items' = [items EXCEPT ![p] = list]
      /\ iter' = [iter EXCEPT ![it] = [data1 |-> p, data2 |-> n]]
      /\ data' = Append(data, NULL)
  BY DEF PutIn, NewItem
<1>4. items'[p] = list /\ \A q \in Playlists : q # p => items'[q] = items[q]
  BY <1>1, <1>3
<1>5. made' = n
  BY <1>1, <1>3 DEF made
<1>6. \A q \in Playlists : ~Contains(items[q], n)
  BY <1>2 DEF RowsAreKept, EveryRowListed
<1> HIDE DEF n
<1>7. items[p] \in Seq(Nodes) /\ PutIn(list, items[p], n, k)
  BY <1>1 DEF n
<1>8. /\ \A m : Contains(list, m) <=> m = n \/ Contains(items[p], m)
      /\ \A i, j \in DOMAIN list : list[i] = n /\ list[j] = n => i = j
      /\ \A i \in DOMAIN list : list[i] # n =>
           \E l \in DOMAIN items[p] : items[p][l] = list[i] /\ l = IF i < k THEN i ELSE i - 1
  BY <1>2, <1>6, <1>7, PutInContains
<1>9. PlaylistTypeOK'
  <2>1. items' \in [Playlists -> Seq(Nodes)]
    BY <1>1, <1>3
  <2>2. data' \in Seq(Values \cup {NULL})
    BY <1>1, <1>3
  <2>3. iter' \in [Iters -> Iterators]
    BY <1>1, <1>2, <1>3 DEF Iterators
  <2>4. (made <= MaxRows)'
    BY <1>1, <1>5 DEF n
  <2> QED BY <2>1, <2>2, <2>3, <2>4 DEF PlaylistTypeOK, Nodes, Iterators
<1>10. NoRowTwice'
  <2> SUFFICES ASSUME NEW q \in Playlists, NEW r \in Playlists,
                      NEW i \in DOMAIN items'[q], NEW j \in DOMAIN items'[r],
                      items'[q][i] = items'[r][j]
               PROVE  q = r /\ i = j
    BY DEF NoRowTwice
  <2>1. \A s \in Playlists : \A l \in DOMAIN items[s] : items[s][l] # n
    BY <1>1, <1>6 DEF Contains
  <2>2. \A s, t \in Playlists : \A l \in DOMAIN items[s], m \in DOMAIN items[t] :
          items[s][l] = items[t][m] => s = t /\ l = m
    BY DEF RowsAreKept, NoRowTwice
  <2>3. CASE q # p /\ r # p
    BY <2>2, <2>3, <1>4
  <2>4. CASE q = p /\ r # p
    BY <2>1, <2>2, <2>4, <1>4, <1>8
  <2>5. CASE q # p /\ r = p
    BY <2>1, <2>2, <2>5, <1>4, <1>8
  <2>6. CASE q = p /\ r = p
    <3>1. CASE list[i] = n
      BY <3>1, <2>6, <1>4, <1>8
    <3>2. CASE list[i] # n
      <4>1. i \in DOMAIN list /\ j \in DOMAIN list /\ list[i] = list[j]
        BY <2>6, <1>4
      <4>2. PICK l \in DOMAIN items[p] :
              items[p][l] = list[i] /\ l = IF i < k THEN i ELSE i - 1
        BY <4>1, <3>2, <1>8
      <4>3. PICK m \in DOMAIN items[p] :
              items[p][m] = list[j] /\ m = IF j < k THEN j ELSE j - 1
        BY <4>1, <3>2, <1>8
      <4>4. l = m
        BY <4>1, <4>2, <4>3, <2>2
      <4>5. list[k] = n /\ i # k /\ j # k /\ i \in Nat /\ j \in Nat
        BY <4>1, <3>2, <1>3, <1>7 DEF PutIn
      <4> QED BY <4>2, <4>3, <4>4, <4>5, <2>6
    <3> QED BY <3>1, <3>2
  <2> QED BY <2>3, <2>4, <2>5, <2>6
<1>11. EveryRowListed'
  <2> SUFFICES ASSUME NEW m \in Nodes
               PROVE  m <= n <=> \E q \in Playlists : Contains(items'[q], m)
    BY <1>5 DEF EveryRowListed, Nodes, Contains
  <2>1. m <= made <=> \E q \in Playlists : Contains(items[q], m)
    BY DEF RowsAreKept, EveryRowListed
  <2>2. (\E q \in Playlists : Contains(items'[q], m))
          <=> m = n \/ \E q \in Playlists : Contains(items[q], m)
    BY <1>4, <1>8
  <2>3. m <= n <=> m = n \/ m <= made
    BY <1>1 DEF n, Nodes
  <2> QED BY <2>1, <2>2, <2>3
<1>12. IteratorsOnRows'
  <2> SUFFICES ASSUME NEW j \in Iters, iter'[j].data2 # NULL
               PROVE  iter'[j].data1 # NULL /\ Contains(items'[iter'[j].data1], iter'[j].data2)
    BY DEF IteratorsOnRows, Contains
  <2>1. CASE j = it
    BY <2>1, <1>1, <1>3, <1>4, <1>8, PlaylistAssumption
  <2>2. CASE j # it
    <3>1. iter'[j] = iter[j]
      BY <2>2, <1>1, <1>3
    <3>2. iter[j].data1 \in Playlists /\ Contains(items[iter[j].data1], iter[j].data2)
      BY <3>1, <1>1 DEF RowsAreKept, IteratorsOnRows, Iterators
    <3> QED BY <3>1, <3>2, <1>4, <1>8, PlaylistAssumption
  <2> QED BY <2>1, <2>2
<1> QED BY <1>9, <1>10, <1>11, <1>12 DEF RowsAreKept

\* The calls that make a row are all of that kind.
LEMMA InsertionsKeepRows ==
  ASSUME RowsAreKept, NEW p \in Playlists, NEW it \in Iters,
         \/ totem_pl_playlist_prepend(p, it)
         \/ totem_pl_playlist_append(p, it)
         \/ \E position \in Positions : totem_pl_playlist_insert(p, position, it)
  PROVE  RowsAreKept'
<1>1. items[p] \in Seq(Nodes)
  BY DEF RowsAreKept, PlaylistTypeOK
<1>2. ASSUME made < MaxRows PROVE made + 1 \in Nodes
  BY <1>2, PlaylistAssumption DEF Nodes, RowsAreKept, PlaylistTypeOK, made
<1>3. CASE totem_pl_playlist_prepend(p, it)
  <2>1. NewItem(p, <<made + 1>> \o items[p], it)
    BY <1>3 DEF totem_pl_playlist_prepend
  <2>2. PutIn(<<made + 1>> \o items[p], items[p], made + 1, 1)
    BY <2>1, <1>1, <1>2, PrependPutsIn DEF NewItem
  <2> QED BY <2>1, <2>2, NewItemKeepsRows
<1>4. CASE totem_pl_playlist_append(p, it)
  <2>1. NewItem(p, Append(items[p], made + 1), it)
    BY <1>4 DEF totem_pl_playlist_append
  <2>2. PutIn(Append(items[p], made + 1), items[p], made + 1, Len(items[p]) + 1)
    BY <2>1, <1>1, <1>2, AppendPutsIn DEF NewItem
  <2>3. Len(items[p]) + 1 \in Nat
    BY <1>1
  <2> QED BY <2>1, <2>2, <2>3, NewItemKeepsRows
<1>5. CASE \E position \in Positions : totem_pl_playlist_insert(p, position, it)
  <2>1. PICK position \in Positions :
          NewItem(p, g_list_insert(items[p], made + 1, position), it)
    BY <1>5 DEF totem_pl_playlist_insert
  <2>2. position \in Int
    BY PlaylistAssumption
  <2> DEFINE k == Between(position, Len(items[p]))
  <2>3. k \in Nat /\ PutIn(g_list_insert(items[p], made + 1, position), items[p], made + 1, k)
    BY <2>1, <2>2, <1>1, <1>2, GListInsertPutsIn DEF NewItem
  <2> HIDE DEF k
  <2> QED BY <2>1, <2>3, NewItemKeepsRows
<1> QED BY <1>3, <1>4, <1>5

\* If the lists and the rows are as they were and the iterators are typed and
\* on rows, the rows are kept.
LEMMA OnlyIteratorsMove ==
  ASSUME RowsAreKept, items' = items, Len(data') = Len(data),
         data' \in Seq(Values \cup {NULL}), iter' \in [Iters -> Iterators],
         \A it \in Iters : iter'[it].data2 # NULL =>
           iter'[it].data1 # NULL /\ Contains(items[iter'[it].data1], iter'[it].data2)
  PROVE  RowsAreKept'
<1>1. made' = made
  BY DEF made
<1>2. PlaylistTypeOK'
  BY <1>1 DEF RowsAreKept, PlaylistTypeOK, Iterators, Nodes
<1>3. NoRowTwice' /\ EveryRowListed'
  BY <1>1 DEF RowsAreKept, NoRowTwice, EveryRowListed, Nodes, Contains
<1>4. IteratorsOnRows'
  BY DEF IteratorsOnRows, Contains
<1> QED BY <1>2, <1>3, <1>4 DEF RowsAreKept

\* The first row is a row.
LEMMA IterFirstKeepsRows ==
  ASSUME RowsAreKept, NEW p \in Playlists, NEW it \in Iters,
         totem_pl_playlist_iter_first(p, it)
  PROVE  RowsAreKept'
<1>1. /\ items \in [Playlists -> Seq(Nodes)]
      /\ data \in Seq(Values \cup {NULL})
      /\ iter \in [Iters -> Iterators]
      /\ IteratorsOnRows
  BY DEF RowsAreKept, PlaylistTypeOK
<1>2. items' = items /\ data' = data
  BY DEF totem_pl_playlist_iter_first
<1>3. CASE items[p] = <<>>
  <2>1. iter' = iter
    BY <1>3 DEF totem_pl_playlist_iter_first
  <2> QED BY <2>1, <1>1, <1>2, OnlyIteratorsMove DEF IteratorsOnRows
<1>4. CASE items[p] # <<>>
  <2>1. iter' = [iter EXCEPT ![it] = [data1 |-> p, data2 |-> Head(items[p])]]
    BY <1>4 DEF totem_pl_playlist_iter_first
  <2>2. Head(items[p]) \in Nodes /\ Contains(items[p], Head(items[p]))
    BY <1>1, <1>4 DEF Contains
  <2>3. p # NULL
    BY PlaylistAssumption
  <2>4. iter' \in [Iters -> Iterators]
    BY <2>1, <2>2, <1>1 DEF Iterators
  <2>5. \A j \in Iters : iter'[j].data2 # NULL =>
          iter'[j].data1 # NULL /\ Contains(items[iter'[j].data1], iter'[j].data2)
    BY <2>1, <2>2, <2>3, <1>1 DEF IteratorsOnRows
  <2> QED BY <2>4, <2>5, <1>1, <1>2, OnlyIteratorsMove
<1> QED BY <1>3, <1>4

\* A move ends on a row of the same playlist or off it.
LEMMA MoveKeepsRows ==
  ASSUME RowsAreKept, NEW p \in Playlists, NEW it \in Iters, NEW op, NEW by \in Int,
         Move(p, it, op, by)
  PROVE  RowsAreKept'
<1>1. /\ items \in [Playlists -> Seq(Nodes)]
      /\ data \in Seq(Values \cup {NULL})
      /\ iter \in [Iters -> Iterators]
      /\ IteratorsOnRows
  BY DEF RowsAreKept, PlaylistTypeOK
<1>2. items' = items /\ data' = data
  BY DEF Move
<1> DEFINE there == Neighbour(items[p], iter[it].data2, by)
<1>3. CASE check_iter(p, it)
  <2>1. there = NULL \/ (there \in Nodes /\ Contains(items[p], there))
    <3> DEFINE i == SelectInSeq(items[p], LAMBDA n : n = iter[it].data2) + by
    <3>1. there = IF i \in 1..Len(items[p]) THEN items[p][i] ELSE NULL
      BY DEF Neighbour
    <3> HIDE DEF there, i
    <3> QED BY <3>1, <1>1 DEF Contains
  <2>2. iter' = [iter EXCEPT ![it].data2 = there] /\ iter[it].data1 = p
    BY <1>3 DEF Move, check_iter
  <2>3. p # NULL
    BY PlaylistAssumption
  <2> HIDE DEF there
  <2>4. iter' \in [Iters -> Iterators]
    BY <2>1, <2>2, <1>1 DEF Iterators
  <2>5. \A j \in Iters : iter'[j].data2 # NULL =>
          iter'[j].data1 # NULL /\ Contains(items[iter'[j].data1], iter'[j].data2)
    BY <2>1, <2>2, <2>3, <1>1 DEF IteratorsOnRows, Iterators
  <2> QED BY <2>4, <2>5, <1>1, <1>2, OnlyIteratorsMove
<1>4. CASE ~check_iter(p, it)
  <2>1. iter' = iter
    BY <1>4 DEF Move
  <2> QED BY <2>1, <1>1, <1>2, OnlyIteratorsMove DEF IteratorsOnRows
<1> QED BY <1>3, <1>4

\* Storing and fetching leave the lists and the iterators alone.
LEMMA ValuesKeepRows ==
  ASSUME RowsAreKept, NEW p \in Playlists, NEW it \in Iters,
         \/ \E v \in Values : totem_pl_playlist_set_value(p, it, v)
         \/ totem_pl_playlist_get_value(p, it)
  PROVE  RowsAreKept'
<1>1. /\ data \in Seq(Values \cup {NULL})
      /\ iter \in [Iters -> Iterators]
      /\ IteratorsOnRows
  BY DEF RowsAreKept, PlaylistTypeOK
<1>2. items' = items /\ iter' = iter
  BY DEF totem_pl_playlist_set_value, totem_pl_playlist_get_value
<1>3. data' \in Seq(Values \cup {NULL}) /\ Len(data') = Len(data)
  BY <1>1 DEF totem_pl_playlist_set_value, totem_pl_playlist_get_value
<1> QED BY <1>1, <1>2, <1>3, OnlyIteratorsMove DEF IteratorsOnRows

---------------------------------------------------------------------------
\* Every row made is in exactly one playlist, once, and no iterator leaves the
\* rows of its playlist, whatever is called in whatever order: the lists of
\* totem-pl-playlist.c are sound for any number of rows.
THEOREM RowsStayKept == Spec => []RowsAreKept
<1>1. Init => RowsAreKept
  <2> SUFFICES ASSUME Init PROVE RowsAreKept
    OBVIOUS
  <2>1. /\ items = [p \in Playlists |-> <<>>]
        /\ data = <<>>
        /\ iter = [it \in Iters |-> [data1 |-> NULL, data2 |-> NULL]]
    BY DEF Init
  <2>2. PlaylistTypeOK
    BY <2>1, PlaylistAssumption DEF PlaylistTypeOK, Iterators, made
  <2>3. NoRowTwice
    BY <2>1 DEF NoRowTwice
  <2>4. EveryRowListed
    BY <2>1 DEF EveryRowListed, Nodes, Contains, made
  <2>5. IteratorsOnRows
    BY <2>1 DEF IteratorsOnRows
  <2> QED BY <2>2, <2>3, <2>4, <2>5 DEF RowsAreKept
<1>2. RowsAreKept /\ [Next]_vars => RowsAreKept'
  <2> SUFFICES ASSUME RowsAreKept, [Next]_vars PROVE RowsAreKept'
    OBVIOUS
  <2>1. CASE UNCHANGED vars
    BY <2>1 DEF vars, RowsAreKept, PlaylistTypeOK, NoRowTwice, EveryRowListed,
                IteratorsOnRows, Iterators, Nodes, made, Contains
  <2>2. CASE Next
    <3>1. PICK p \in Playlists, it \in Iters :
            \/ totem_pl_playlist_prepend(p, it)
            \/ totem_pl_playlist_append(p, it)
            \/ \E position \in Positions : totem_pl_playlist_insert(p, position, it)
            \/ totem_pl_playlist_iter_first(p, it)
            \/ totem_pl_playlist_iter_next(p, it)
            \/ totem_pl_playlist_iter_prev(p, it)
            \/ \E v \in Values : totem_pl_playlist_set_value(p, it, v)
            \/ totem_pl_playlist_get_value(p, it)
      BY <2>2 DEF Next
    <3>2. CASE \/ totem_pl_playlist_prepend(p, it)
              \/ totem_pl_playlist_append(p, it)
              \/ \E position \in Positions : totem_pl_playlist_insert(p, position, it)
      BY <3>2, InsertionsKeepRows
    <3>3. CASE totem_pl_playlist_iter_first(p, it)
      BY <3>3, IterFirstKeepsRows
    <3>4. CASE totem_pl_playlist_iter_next(p, it)
      BY <3>4, MoveKeepsRows DEF totem_pl_playlist_iter_next
    <3>5. CASE totem_pl_playlist_iter_prev(p, it)
      BY <3>5, MoveKeepsRows DEF totem_pl_playlist_iter_prev
    <3>6. CASE \/ \E v \in Values : totem_pl_playlist_set_value(p, it, v)
              \/ totem_pl_playlist_get_value(p, it)
      BY <3>6, ValuesKeepRows
    <3> QED BY <3>1, <3>2, <3>3, <3>4, <3>5, <3>6
  <2> QED BY <2>1, <2>2
<1> QED BY <1>1, <1>2, PTL DEF Spec
---------------------------------------------------------------------------
(* The refinement: an iterator's node is a position, and the tables of the   *)
(* nodes in their order are the rows.                                        *)

\* Where a node is in a list that has it once, as SelectInSeq looks for it.
LEMMA OnlyIndexIs ==
  ASSUME NEW list, Len(list) \in Nat, NEW n, NEW k \in 1..Len(list), list[k] = n,
         \A l \in 1..Len(list) : list[l] = n => l = k
  PROVE  /\ {l \in 1..Len(list) : list[l] = n} # {}
         /\ Min({l \in 1..Len(list) : list[l] = n}) = k
<1> DEFINE I == {l \in 1..Len(list) : list[l] = n}
<1>1. I = {k}
  OBVIOUS
<1>2. Min(I) = k
  <2> HIDE DEF I
  <2> QED BY <1>1 DEF Min
<1> QED BY <1>1, <1>2

\* PositionOf, with the list that is looked through.
PositionIn(list, i) ==
  [list |-> i.data1,
   pos |-> IF i.data2 = NULL THEN 0 ELSE SelectInSeq(list, LAMBDA n : n = i.data2)]

LEMMA PositionIs ==
  ASSUME NEW list, Len(list) \in Nat, NEW i, i.data2 # NULL, NEW k \in 1..Len(list),
         list[k] = i.data2, \A l \in 1..Len(list) : list[l] = i.data2 => l = k
  PROVE  PositionIn(list, i) = [list |-> i.data1, pos |-> k]
BY OnlyIndexIs DEF PositionIn, SelectInSeq

\* An iterator is on no row or on one, with a position.
LEMMA IteratorIsOn ==
  ASSUME RowsAreKept, NEW it \in Iters
  PROVE  /\ iter[it] \in Iterators /\ PositionOf(iter[it]).list = iter[it].data1
         /\ iter[it].data2 = NULL => PositionOf(iter[it]).pos = 0
         /\ iter[it].data2 # NULL =>
              /\ iter[it].data1 \in Playlists
              /\ PositionOf(iter[it]).pos \in 1..Len(items[iter[it].data1])
              /\ items[iter[it].data1][PositionOf(iter[it]).pos] = iter[it].data2
<1> DEFINE i == iter[it]
<1>1. i \in Iterators
  BY DEF RowsAreKept, PlaylistTypeOK
<1>2. CASE i.data2 = NULL
  BY <1>1, <1>2 DEF PositionOf
<1>3. CASE i.data2 # NULL
  <2>1. i.data1 \in Playlists /\ Contains(items[i.data1], i.data2)
    BY <1>1, <1>3 DEF RowsAreKept, IteratorsOnRows, Iterators
  <2>2. items[i.data1] \in Seq(Nodes)
    BY <2>1 DEF RowsAreKept, PlaylistTypeOK
  <2>3. PICK k \in 1..Len(items[i.data1]) : items[i.data1][k] = i.data2
    BY <2>1 DEF Contains
  <2>4. \A l \in 1..Len(items[i.data1]) : items[i.data1][l] = i.data2 => l = k
    BY <2>1, <2>2, <2>3 DEF RowsAreKept, NoRowTwice
  <2>5. Len(items[i.data1]) \in Nat
    BY <2>2
  <2>6. PositionOf(i) = PositionIn(items[i.data1], i)
    BY DEF PositionOf, PositionIn
  <2> HIDE DEF i
  <2>7. PositionOf(i) = [list |-> i.data1, pos |-> k]
    BY <1>3, <2>3, <2>4, <2>5, <2>6, PositionIs
  <2> QED BY <1>1, <1>3, <2>1, <2>3, <2>7 DEF i
<1> QED BY <1>2, <1>3

\* check_iter tells whether it is on a row of the playlist.
LEMMA CheckIs ==
  ASSUME RowsAreKept, NEW p \in Playlists, NEW it \in Iters
  PROVE  check_iter(p, it) <=> PositionOf(iter[it]).list = p /\ PositionOf(iter[it]).pos # 0
<1>1. NULL \notin Playlists /\ NULL \notin Nodes
  BY PlaylistAssumption DEF Nodes
<1>2. items[p] \in Seq(Nodes)
  BY DEF RowsAreKept, PlaylistTypeOK
<1>3. check_iter(p, it) => iter[it].data1 = p /\ iter[it].data2 \in Nodes
  BY <1>2 DEF check_iter, Contains
<1>4. ASSUME check_iter(p, it)
      PROVE  PositionOf(iter[it]).list = p /\ PositionOf(iter[it]).pos # 0
  BY <1>1, <1>2, <1>3, <1>4, IteratorIsOn
<1>5. ASSUME PositionOf(iter[it]).list = p, PositionOf(iter[it]).pos # 0
      PROVE  check_iter(p, it)
  BY <1>2, <1>5, IteratorIsOn DEF check_iter, Contains
<1> QED BY <1>4, <1>5

\* The rows of a playlist, each a node that was made.
LEMMA RowsAre ==
  ASSUME RowsAreKept, NEW p \in Playlists
  PROVE  /\ RowsOf(p) \in Seq(Values \cup {NULL}) /\ Len(RowsOf(p)) = Len(items[p])
         /\ DOMAIN items[p] = 1..Len(items[p]) /\ Len(items[p]) \in Nat
         /\ \A k \in 1..Len(items[p]) :
              items[p][k] \in 1..made /\ RowsOf(p)[k] = data[items[p][k]]
         /\ RowsOf(p) = <<>> <=> items[p] = <<>>
<1>1. items[p] \in Seq(Nodes) /\ data \in Seq(Values \cup {NULL}) /\ made \in Nat
  BY DEF RowsAreKept, PlaylistTypeOK, made
<1>2. \A k \in 1..Len(items[p]) : items[p][k] \in 1..made
  <2> SUFFICES ASSUME NEW k \in 1..Len(items[p]) PROVE items[p][k] \in 1..made
    OBVIOUS
  <2>1. items[p][k] \in Nodes /\ Contains(items[p], items[p][k])
    BY <1>1 DEF Contains
  <2> QED BY <1>1, <2>1 DEF RowsAreKept, EveryRowListed, Nodes
<1>3. RowsOf(p) \in [1..Len(items[p]) -> Values \cup {NULL}]
  BY <1>1, <1>2 DEF RowsOf, made
<1>4. Len(items[p]) \in Nat /\ DOMAIN items[p] = 1..Len(items[p])
  BY <1>1
<1>5. RowsOf(p) \in Seq(Values \cup {NULL}) /\ DOMAIN RowsOf(p) = 1..Len(items[p])
  BY <1>3, <1>4
<1>6. Len(RowsOf(p)) = Len(items[p])
  BY <1>4, <1>5
<1>7. RowsOf(p) = <<>> <=> items[p] = <<>>
  BY <1>1, <1>5, <1>6
<1>8. \A k \in 1..Len(items[p]) : RowsOf(p)[k] = data[items[p][k]]
  BY <1>4 DEF RowsOf
<1> QED BY <1>2, <1>4, <1>5, <1>6, <1>7, <1>8
\* The answer of a call is the same wherever it is the same.
LEMMA SameAnswer ==
  ASSUME NEW op, NEW position, NEW a \in BOOLEAN, NEW b \in BOOLEAN, a <=> b
  PROVE  [op |-> op, position |-> position, returns |-> a]
           = [op |-> op, position |-> position, returns |-> b]
<1>1. a = b
  OBVIOUS
<1> QED BY <1>1

---------------------------------------------------------------------------
\* A new row.

\* The tables of the rows are put in as their nodes are.
LEMMA NewItemInsertsRow ==
  ASSUME RowsAreKept, RowsAreKept', NEW p \in Playlists, NEW it \in Iters, NEW list, NEW k \in Nat,
         PutIn(list, items[p], made + 1, k), NewItem(p, list, it)
  PROVE  [q \in Playlists |-> RowsOf(q)]'
           = [[q \in Playlists |-> RowsOf(q)] EXCEPT ![p] = InsertAt(@, k, NULL)]
<1> DEFINE n == made + 1
           S == Values \cup {NULL}
<1>1. /\ items \in [Playlists -> Seq(Nodes)]
      /\ items' = [items EXCEPT ![p] = list] /\ data' = Append(data, NULL)
      /\ data \in Seq(S) /\ made = Len(data)
  BY DEF RowsAreKept, PlaylistTypeOK, NewItem, made
<1>2. items'[p] = list /\ \A q \in Playlists : q # p => items'[q] = items[q]
  BY <1>1
<1>3. \A m \in 1..made : data'[m] = data[m]
  BY <1>1
<1>4. data'[n] = NULL
  BY <1>1
<1>5. ASSUME NEW q \in Playlists, q # p PROVE RowsOf(q)' = RowsOf(q)
  <2>1. \A i \in DOMAIN items[q] : data'[items[q][i]] = data[items[q][i]]
    BY <1>3, RowsAre
  <2> QED BY <1>2, <1>5, <2>1 DEF RowsOf
<1>6. RowsOf(p)' = InsertAt(RowsOf(p), k, NULL)
  <2>1. /\ RowsOf(p) \in Seq(S) /\ Len(RowsOf(p)) = Len(items[p]) /\ Len(items[p]) \in Nat
        /\ \A i \in 1..Len(items[p]) : items[p][i] \in 1..made /\ RowsOf(p)[i] = data[items[p][i]]
    BY RowsAre
  <2>2. /\ list \in Seq(Nodes) /\ Len(list) = Len(items[p]) + 1 /\ k \in 1..Len(list)
        /\ \A i \in 1..(k - 1) : list[i] = items[p][i]
        /\ list[k] = n
        /\ \A i \in k..Len(items[p]) : list[i + 1] = items[p][i]
    BY DEF PutIn
  <2> DEFINE new == InsertAt(RowsOf(p), k, NULL)
  <2>3. /\ new \in Seq(S) /\ Len(new) = Len(items[p]) + 1
        /\ \A i \in 1..(k - 1) : new[i] = RowsOf(p)[i]
        /\ new[k] = NULL
        /\ \A i \in k..Len(items[p]) : new[i + 1] = RowsOf(p)[i]
    <3>1. k \in 1..(Len(RowsOf(p)) + 1) /\ NULL \in S
      BY <2>1, <2>2
    <3> DEFINE old == RowsOf(p)
    <3>2. old \in Seq(S) /\ k \in 1..(Len(old) + 1) /\ Len(old) = Len(items[p])
      BY <2>1, <3>1
    <3> HIDE DEF S, old
    <3>3. /\ InsertAt(old, k, NULL) \in Seq(S)
          /\ Len(InsertAt(old, k, NULL)) = Len(old) + 1
          /\ \A i \in 1..(k - 1) : InsertAt(old, k, NULL)[i] = old[i]
          /\ InsertAt(old, k, NULL)[k] = NULL
          /\ \A i \in k..Len(old) : InsertAt(old, k, NULL)[i + 1] = old[i]
      BY <3>1, <3>2, InsertAtIs
    <3> QED BY <3>2, <3>3 DEF old
  <2>4. DOMAIN list = 1..(Len(items[p]) + 1) /\ DOMAIN new = 1..(Len(items[p]) + 1)
    BY <2>2, <2>3
  <2> HIDE DEF n, new
  <2>5. ASSUME NEW i \in 1..(Len(items[p]) + 1) PROVE data'[list[i]] = new[i]
    <3>1. CASE i < k
      <4>1. i \in 1..(k - 1) /\ i \in 1..Len(items[p])
        BY <2>1, <2>2, <3>1
      <4>2. list[i] = items[p][i] /\ new[i] = RowsOf(p)[i]
        BY <4>1, <2>2, <2>3
      <4>3. items[p][i] \in 1..made /\ RowsOf(p)[i] = data[items[p][i]]
        BY <4>1, <2>1
      <4> QED BY <4>2, <4>3, <1>3
    <3>2. CASE i = k
      BY <3>2, <1>4, <2>2, <2>3
    <3>3. CASE i > k
      <4> DEFINE j == i - 1
      <4>1. j \in k..Len(items[p]) /\ j \in 1..Len(items[p]) /\ i = j + 1
        BY <2>1, <2>2, <3>3
      <4> HIDE DEF j
      <4>2. list[i] = items[p][j] /\ new[i] = RowsOf(p)[j]
        BY <4>1, <2>2, <2>3
      <4>3. items[p][j] \in 1..made /\ RowsOf(p)[j] = data[items[p][j]]
        BY <4>1, <2>1
      <4> QED BY <4>2, <4>3, <1>3
    <3> QED BY <2>2, <3>1, <3>2, <3>3
  <2>6. RowsOf(p)' = [i \in 1..(Len(items[p]) + 1) |-> data'[list[i]]]
    BY <1>2, <2>4 DEF RowsOf
  <2>7. new = [i \in 1..(Len(items[p]) + 1) |-> new[i]]
    BY <2>3, <2>4
  <2>8. RowsOf(p)' = new
    BY <2>5, <2>6, <2>7
  <2> QED BY <2>8 DEF new
<1> DEFINE R == [q \in Playlists |-> RowsOf(q)]
<1>7. R' = [q \in Playlists |-> RowsOf(q)']
  OBVIOUS
<1>8. [R EXCEPT ![p] = InsertAt(@, k, NULL)]
         = [q \in Playlists |-> IF q = p THEN InsertAt(RowsOf(p), k, NULL) ELSE RowsOf(q)]
  OBVIOUS
<1> QED BY <1>5, <1>6, <1>7, <1>8

\* The iterator is on the new row, and the others stay with theirs.
LEMMA NewItemMovesIterators ==
  ASSUME RowsAreKept, RowsAreKept', NEW p \in Playlists, NEW it \in Iters, NEW list, NEW k \in Nat,
         PutIn(list, items[p], made + 1, k), NewItem(p, list, it), NEW j \in Iters
  PROVE  PositionOf(iter[j])' =
           IF j = it THEN [list |-> p, pos |-> k]
           ELSE IF PositionOf(iter[j]).list = p /\ PositionOf(iter[j]).pos >= k
             THEN [PositionOf(iter[j]) EXCEPT !.pos = @ + 1]
             ELSE PositionOf(iter[j])
<1> DEFINE n == made + 1
<1>1. /\ items \in [Playlists -> Seq(Nodes)] /\ iter \in [Iters -> Iterators]
      /\ items' = [items EXCEPT ![p] = list] /\ made \in Nat
      /\ iter' = [iter EXCEPT ![it] = [data1 |-> p, data2 |-> n]]
      /\ NULL \notin Nodes /\ NULL \notin Playlists /\ n # NULL
  BY PlaylistAssumption DEF RowsAreKept, PlaylistTypeOK, NewItem, Nodes, made
<1>2. items'[p] = list /\ \A q \in Playlists : q # p => items'[q] = items[q]
  BY <1>1
<1>3. /\ list \in Seq(Nodes) /\ Len(list) = Len(items[p]) + 1 /\ k \in 1..Len(list)
      /\ \A i \in 1..(k - 1) : list[i] = items[p][i]
      /\ list[k] = n
      /\ \A i \in k..Len(items[p]) : list[i + 1] = items[p][i]
      /\ Len(items[p]) \in Nat /\ Len(list) \in Nat
  BY <1>1 DEF PutIn
<1>4. \A q \in Playlists : \A i, l \in 1..Len(items'[q]) : items'[q][i] = items'[q][l] => i = l
  <2>1. \A q \in Playlists : items'[q] \in Seq(Nodes)
    BY <1>1, <1>2, <1>3
  <2> QED BY <2>1 DEF RowsAreKept, NoRowTwice
<1> HIDE DEF n
<1>5. PositionOf(iter[j])' = PositionIn(items'[iter'[j].data1], iter'[j])
  BY DEF PositionOf, PositionIn, SelectInSeq
<1>6. CASE j = it
  <2>1. iter'[j] = [data1 |-> p, data2 |-> n]
    BY <1>1, <1>6
  <2>2. PositionIn(list, iter'[j]) = [list |-> iter'[j].data1, pos |-> k]
    <3>1. \A l \in 1..Len(list) : list[l] = n => l = k
      BY <1>2, <1>3, <1>4
    <3> DEFINE i == iter'[j]
    <3>2. i.data2 = n
      BY <2>1
    <3> HIDE DEF i
    <3>3. /\ Len(list) \in Nat /\ i.data2 # NULL /\ k \in 1..Len(list) /\ list[k] = i.data2
          /\ \A l \in 1..Len(list) : list[l] = i.data2 => l = k
      BY <1>1, <1>3, <3>1, <3>2
    <3>4. PositionIn(list, i) = [list |-> i.data1, pos |-> k]
      BY <3>3, PositionIs
    <3> QED BY <3>4 DEF i
  <2> QED BY <1>2, <1>5, <1>6, <2>1, <2>2
<1>7. CASE j # it
  <2> DEFINE i == iter[j]
             pos == PositionOf(i).pos
  <2>1. iter'[j] = i
    BY <1>1, <1>7
  <2>2. PositionOf(i) = [list |-> i.data1, pos |-> pos]
    BY DEF PositionOf
  <2>3. CASE i.data2 = NULL
    <3>1. pos = 0 /\ PositionIn(items'[i.data1], i) = [list |-> i.data1, pos |-> 0]
      BY <2>3, IteratorIsOn DEF PositionIn
    <3>2. ~(pos >= k)
      BY <1>3, <3>1
    <3> QED BY <1>5, <1>7, <2>1, <2>2, <3>1, <3>2
  <2>4. CASE i.data2 # NULL
    <3>1. i.data1 \in Playlists /\ pos \in 1..Len(items[i.data1]) /\ items[i.data1][pos] = i.data2
      BY <2>4, IteratorIsOn
    <3> HIDE DEF i, pos
    <3>2. ASSUME NEW at \in 1..Len(items'[i.data1]), items'[i.data1][at] = i.data2
          PROVE  PositionIn(items'[i.data1], i) = [list |-> i.data1, pos |-> at]
      <4>1. \A l \in 1..Len(items'[i.data1]) : items'[i.data1][l] = i.data2 => l = at
        BY <1>4, <3>1, <3>2
      <4>2. Len(items'[i.data1]) \in Nat
        BY <1>1, <1>2, <1>3, <3>1
      <4> QED BY <2>4, <3>2, <4>1, <4>2, PositionIs
    <3>3. CASE i.data1 # p
      <4>1. PositionIn(items'[i.data1], i) = [list |-> i.data1, pos |-> pos]
        BY <1>2, <3>1, <3>2, <3>3
      <4> QED BY <1>5, <1>7, <2>1, <2>2, <3>3, <4>1 DEF i
    <3>4. CASE i.data1 = p /\ pos < k
      <4>1. pos \in 1..Len(list) /\ list[pos] = i.data2
        BY <1>3, <3>1, <3>4
      <4>2. PositionIn(items'[i.data1], i) = [list |-> i.data1, pos |-> pos]
        BY <1>2, <3>2, <3>4, <4>1
      <4>3. ~(pos >= k)
        BY <1>3, <3>1, <3>4
      <4> QED BY <1>5, <1>7, <2>1, <2>2, <4>2, <4>3 DEF i, pos
    <3>5. CASE i.data1 = p /\ pos >= k
      <4>1. pos + 1 \in 1..Len(list) /\ list[pos + 1] = i.data2
        BY <1>3, <3>1, <3>5
      <4>2. PositionIn(items'[i.data1], i) = [list |-> i.data1, pos |-> pos + 1]
        BY <1>2, <3>2, <3>5, <4>1
      <4>3. [PositionOf(i) EXCEPT !.pos = @ + 1] = [list |-> i.data1, pos |-> pos + 1]
        BY <2>2
      <4> QED BY <1>5, <1>7, <2>1, <2>2, <3>5, <4>2, <4>3 DEF i, pos
    <3> QED BY <1>3, <3>1, <3>3, <3>4, <3>5
  <2> QED BY <2>3, <2>4
<1> QED BY <1>6, <1>7

LEMMA NewRowRefines ==
  ASSUME RowsAreKept, RowsAreKept', NEW p \in Playlists, NEW it \in Iters, NEW list, NEW k \in Nat,
         PutIn(list, items[p], made + 1, k), NewItem(p, list, it)
  PROVE  Rows!NewRow(p, k, it)
<1> DEFINE A == [j \in Iters |-> PositionOf(iter[j])]
<1>1. A' = [j \in Iters |-> PositionOf(iter[j])']
  OBVIOUS
<1>2. A' = [j \in Iters |->
              IF j = it THEN [list |-> p, pos |-> k]
              ELSE IF A[j].list = p /\ A[j].pos >= k THEN [A[j] EXCEPT !.pos = @ + 1] ELSE A[j]]
  BY <1>1, NewItemMovesIterators
<1> DEFINE R == [q \in Playlists |-> RowsOf(q)]
<1>3. R' = [R EXCEPT ![p] = InsertAt(@, k, NULL)]
  BY NewItemInsertsRow
<1>4. Rows!InsertAt(R[p], k, NULL) = InsertAt(R[p], k, NULL)
  BY DEF Rows!InsertAt, InsertAt
<1>5. R' = [R EXCEPT ![p] = Rows!InsertAt(R[p], k, NULL)]
  BY <1>3, <1>4
<1> QED BY <1>2, <1>5 DEF Rows!NewRow

LEMMA InsertionsRefine ==
  ASSUME Positions \subseteq Nat,
         RowsAreKept, RowsAreKept', NEW p \in Playlists, NEW it \in Iters,
         \/ totem_pl_playlist_prepend(p, it)
         \/ totem_pl_playlist_append(p, it)
         \/ \E position \in Positions : totem_pl_playlist_insert(p, position, it)
  PROVE  \/ Rows!PrependRow(p, it) \/ Rows!AppendRow(p, it)
         \/ \E position \in Positions : Rows!InsertRow(p, position, it)
<1>1. items[p] \in Seq(Nodes) /\ Len(RowsOf(p)) = Len(items[p])
  BY RowsAre DEF RowsAreKept, PlaylistTypeOK
<1>2. ASSUME made < MaxRows PROVE made + 1 \in Nodes
  BY <1>2, PlaylistAssumption DEF Nodes, RowsAreKept, PlaylistTypeOK, made
<1> DEFINE R == [q \in Playlists |-> RowsOf(q)]
<1>3. R[p] = RowsOf(p)
  OBVIOUS
<1>4. CASE totem_pl_playlist_prepend(p, it)
  <2>1. NewItem(p, <<made + 1>> \o items[p], it) /\ Calls("prepend", 0, TRUE)
    BY <1>4 DEF totem_pl_playlist_prepend
  <2>2. PutIn(<<made + 1>> \o items[p], items[p], made + 1, 1)
    BY <2>1, <1>1, <1>2, PrependPutsIn DEF NewItem
  <2>3. Rows!NewRow(p, 1, it)
    BY <2>1, <2>2, NewRowRefines
  <2> QED BY <2>1, <2>3 DEF Rows!PrependRow, Rows!Calls, Calls
<1>5. CASE totem_pl_playlist_append(p, it)
  <2>1. NewItem(p, Append(items[p], made + 1), it) /\ Calls("append", 0, TRUE)
    BY <1>5 DEF totem_pl_playlist_append
  <2>2. PutIn(Append(items[p], made + 1), items[p], made + 1, Len(items[p]) + 1)
    BY <2>1, <1>1, <1>2, AppendPutsIn DEF NewItem
  <2>3. Len(items[p]) + 1 \in Nat
    BY <1>1
  <2>4. Rows!NewRow(p, Len(items[p]) + 1, it)
    BY <2>1, <2>2, <2>3, NewRowRefines
  <2> QED BY <1>1, <1>3, <2>1, <2>4 DEF Rows!AppendRow, Rows!Calls, Calls
<1>6. CASE \E position \in Positions : totem_pl_playlist_insert(p, position, it)
  <2>1. PICK position \in Positions :
          /\ NewItem(p, g_list_insert(items[p], made + 1, position), it)
          /\ Calls("insert", position, TRUE)
    BY <1>6 DEF totem_pl_playlist_insert
  <2>2. position \in Int
    BY PlaylistAssumption
  <2> DEFINE k == Between(position, Len(items[p]))
  <2>3. k \in Nat /\ PutIn(g_list_insert(items[p], made + 1, position), items[p], made + 1, k)
    BY <2>1, <2>2, <1>1, <1>2, GListInsertPutsIn DEF NewItem
  <2>4. k = Documented(position, Len(R[p]))
    <3>1. position \in Nat /\ Len(R[p]) = Len(items[p])
      BY <1>1, <1>3
    <3> HIDE DEF R
    <3> QED BY <3>1 DEF Between, Documented
  <2> HIDE DEF k
  <2>5. Rows!NewRow(p, k, it)
    BY <2>1, <2>3, NewRowRefines
  <2>6. Rows!InsertRow(p, position, it)
    BY <2>1, <2>4, <2>5 DEF Rows!InsertRow, Rows!Calls, Calls
  <2> QED BY <2>6
<1> QED BY <1>4, <1>5, <1>6
---------------------------------------------------------------------------
\* The calls that leave the rows where they are.

\* One iterator is set.
LEMMA IteratorIsSet ==
  ASSUME RowsAreKept, NEW it \in Iters, NEW i, items' = items, iter' = [iter EXCEPT ![it] = i]
  PROVE  [j \in Iters |-> PositionOf(iter[j])]'
           = [[j \in Iters |-> PositionOf(iter[j])] EXCEPT ![it] = PositionIn(items[i.data1], i)]
<1>1. iter \in [Iters -> Iterators]
  BY DEF RowsAreKept, PlaylistTypeOK
<1>2. iter'[it] = i /\ \A j \in Iters : j # it => iter'[j] = iter[j]
  BY <1>1
<1>3. PositionOf(iter[it])' = PositionIn(items[i.data1], i)
  <2>1. PositionOf(iter[it])' = PositionIn(items'[iter'[it].data1], iter'[it])
    BY DEF PositionOf, PositionIn, SelectInSeq
  <2> QED BY <1>2, <2>1
<1>4. ASSUME NEW j \in Iters, j # it PROVE PositionOf(iter[j])' = PositionOf(iter[j])
  BY <1>2, <1>4 DEF PositionOf, SelectInSeq
<1> DEFINE A == [j \in Iters |-> PositionOf(iter[j])]
<1>5. A' = [j \in Iters |-> PositionOf(iter[j])']
  OBVIOUS
<1>6. [A EXCEPT ![it] = PositionIn(items[i.data1], i)]
        = [j \in Iters |-> IF j = it THEN PositionIn(items[i.data1], i) ELSE PositionOf(iter[j])]
  OBVIOUS
<1> QED BY <1>3, <1>4, <1>5, <1>6

\* Nothing is seen of what does not change.
LEMMA NothingMoves ==
  /\ UNCHANGED <<items, data>> =>
       [q \in Playlists |-> RowsOf(q)]' = [q \in Playlists |-> RowsOf(q)]
  /\ UNCHANGED <<items, iter>> =>
       [j \in Iters |-> PositionOf(iter[j])]' = [j \in Iters |-> PositionOf(iter[j])]
<1>1. ASSUME UNCHANGED <<items, data>>
      PROVE  [q \in Playlists |-> RowsOf(q)]' = [q \in Playlists |-> RowsOf(q)]
  <2>1. \A q \in Playlists : RowsOf(q)' = RowsOf(q)
    BY <1>1 DEF RowsOf
  <2> QED BY <2>1
<1>2. ASSUME UNCHANGED <<items, iter>>
      PROVE  [j \in Iters |-> PositionOf(iter[j])]' = [j \in Iters |-> PositionOf(iter[j])]
  <2>1. \A j \in Iters : PositionOf(iter[j])' = PositionOf(iter[j])
    BY <1>2 DEF PositionOf, SelectInSeq
  <2> QED BY <2>1
<1> QED BY <1>1, <1>2

\* The place of a node that is in a playlist once, for an iterator on it.
LEMMA NodeIsAt ==
  ASSUME RowsAreKept, NEW p \in Playlists, NEW k \in 1..Len(items[p])
  PROVE  PositionIn(items[p], [data1 |-> p, data2 |-> items[p][k]]) = [list |-> p, pos |-> k]
<1> DEFINE i == [data1 |-> p, data2 |-> items[p][k]]
<1>1. items[p] \in Seq(Nodes)
  BY DEF RowsAreKept, PlaylistTypeOK
<1>2. items[p][k] \in Nodes /\ NULL \notin Nodes /\ Len(items[p]) \in Nat
  BY <1>1, PlaylistAssumption DEF Nodes
<1>3. \A l \in 1..Len(items[p]) : items[p][l] = items[p][k] => l = k
  BY <1>1 DEF RowsAreKept, NoRowTwice
<1>4. i.data1 = p /\ i.data2 = items[p][k]
  OBVIOUS
<1> HIDE DEF i
<1>5. PositionIn(items[p], i) = [list |-> i.data1, pos |-> k]
  BY <1>2, <1>3, <1>4, PositionIs
<1> QED BY <1>4, <1>5 DEF i

LEMMA IterFirstRefines ==
  ASSUME RowsAreKept, NEW p \in Playlists, NEW it \in Iters, totem_pl_playlist_iter_first(p, it)
  PROVE  Rows!First(p, it)
<1> DEFINE R == [q \in Playlists |-> RowsOf(q)]
           A == [j \in Iters |-> PositionOf(iter[j])]
<1>1. items' = items /\ data' = data /\ Calls("first", 0, items[p] # <<>>)
  BY DEF totem_pl_playlist_iter_first
<1>2. R' = R
  BY <1>1, NothingMoves
<1>3. R[p] = <<>> <=> items[p] = <<>>
  BY RowsAre
<1>4. call' = [op |-> "first", position |-> 0, returns |-> R[p] # <<>>]
  BY <1>1, <1>3, SameAnswer DEF Calls
<1>5. A' = IF R[p] = <<>> THEN A ELSE [A EXCEPT ![it] = [list |-> p, pos |-> 1]]
  <2>1. CASE items[p] = <<>>
    <3>1. iter' = iter
      BY <2>1 DEF totem_pl_playlist_iter_first
    <3>2. A' = A
      BY <1>1, <3>1, NothingMoves
    <3> QED BY <1>3, <2>1, <3>2
  <2>2. CASE items[p] # <<>>
    <3>1. iter' = [iter EXCEPT ![it] = [data1 |-> p, data2 |-> Head(items[p])]]
      BY <2>2 DEF totem_pl_playlist_iter_first
    <3>2. Head(items[p]) = items[p][1] /\ 1 \in 1..Len(items[p])
      BY <2>2 DEF RowsAreKept, PlaylistTypeOK
    <3> DEFINE i == [data1 |-> p, data2 |-> Head(items[p])]
    <3>3. PositionIn(items[p], i) = [list |-> p, pos |-> 1]
      BY <3>2, NodeIsAt
    <3>4. i.data1 = p
      OBVIOUS
    <3>5. iter' = [iter EXCEPT ![it] = i]
      BY <3>1
    <3> HIDE DEF i, R
    <3>6. A' = [A EXCEPT ![it] = PositionIn(items[i.data1], i)]
      BY <1>1, <3>5, IteratorIsSet
    <3>7. A' = [A EXCEPT ![it] = [list |-> p, pos |-> 1]]
      BY <3>3, <3>4, <3>6
    <3> QED BY <1>3, <2>2, <3>7
  <2> QED BY <2>1, <2>2
<1> QED BY <1>2, <1>4, <1>5 DEF Rows!First, Rows!Calls

\* The neighbour of a node that a list has once.
LEMMA NeighbourIs ==
  ASSUME NEW list, Len(list) \in Nat, NEW n, NEW k \in 1..Len(list), list[k] = n,
         \A l \in 1..Len(list) : list[l] = n => l = k, NEW by
  PROVE  Neighbour(list, n, by) = IF k + by \in 1..Len(list) THEN list[k + by] ELSE NULL
BY OnlyIndexIs DEF Neighbour, SelectInSeq

LEMMA MoveRefines ==
  ASSUME RowsAreKept, NEW p \in Playlists, NEW it \in Iters, NEW op, NEW by \in Int,
         Move(p, it, op, by)
  PROVE  Rows!Move(p, it, op, by)
<1> DEFINE R == [q \in Playlists |-> RowsOf(q)]
           A == [j \in Iters |-> PositionOf(iter[j])]
           there == Neighbour(items[p], iter[it].data2, by)
<1>1. items' = items /\ data' = data
  BY DEF Move
<1>2. R' = R
  BY <1>1, NothingMoves
<1>3. Rows!On(p, it) <=> check_iter(p, it)
  BY CheckIs DEF Rows!On
<1>4. CASE ~check_iter(p, it)
  <2>1. iter' = iter /\ Calls(op, 0, FALSE)
    BY <1>4 DEF Move
  <2>2. A' = A
    BY <1>1, <2>1, NothingMoves
  <2> QED BY <1>2, <1>3, <1>4, <2>1, <2>2 DEF Rows!Move, Rows!Calls, Calls
<1>5. CASE check_iter(p, it)
  <2> DEFINE l == A[it].pos
             pos == l + by
             inside == pos \in 1..Len(R[p])
  <2>1. A[it].list = p /\ l \in 1..Len(items[p]) /\ items[p][l] = iter[it].data2
        /\ iter[it].data1 = p /\ iter[it].data2 # NULL /\ iter[it] \in Iterators
    <3>1. NULL \notin Nodes
      BY PlaylistAssumption DEF Nodes
    <3>2. items[p] \in Seq(Nodes) /\ iter[it].data1 = p /\ Contains(items[p], iter[it].data2)
      BY <1>5 DEF check_iter, RowsAreKept, PlaylistTypeOK
    <3>3. iter[it].data2 # NULL
      BY <3>1, <3>2 DEF Contains
    <3> QED BY <3>2, <3>3, IteratorIsOn
  <2>2. Len(R[p]) = Len(items[p]) /\ Len(items[p]) \in Nat
    BY RowsAre
  <2> HIDE DEF R
  <2>3. \A k \in 1..Len(items[p]) : items[p][k] = iter[it].data2 => k = l
    <3>1. items[p] \in Seq(Nodes)
      BY DEF RowsAreKept, PlaylistTypeOK
    <3>2. \A k, m \in 1..Len(items[p]) : items[p][k] = items[p][m] => k = m
      BY <3>1 DEF RowsAreKept, NoRowTwice
    <3> QED BY <2>1, <3>2
  <2>5. there = IF inside THEN items[p][pos] ELSE NULL
    <3> DEFINE n == iter[it].data2
               k == l
               list == items[p]
    <3>1. /\ Len(list) \in Nat /\ k \in 1..Len(list) /\ list[k] = n
          /\ \A m \in 1..Len(list) : list[m] = n => m = k
      BY <2>1, <2>2, <2>3
    <3> HIDE DEF n, k, list
    <3>2. Neighbour(list, n, by) = IF k + by \in 1..Len(list) THEN list[k + by] ELSE NULL
      BY <3>1, NeighbourIs
    <3> QED BY <2>2, <3>2 DEF n, k, list
  <2>6. iter' = [iter EXCEPT ![it].data2 = there] /\ Calls(op, 0, there # NULL)
    BY <1>5 DEF Move
  <2> HIDE DEF there
  <2>7. there # NULL <=> inside
    <3>1. NULL \notin Nodes /\ items[p] \in Seq(Nodes)
      BY PlaylistAssumption DEF Nodes, RowsAreKept, PlaylistTypeOK
    <3> QED BY <2>2, <2>5, <3>1
  <2>8. call' = [op |-> op, position |-> 0, returns |-> inside]
    <3> HIDE DEF inside
    <3>1. inside \in BOOLEAN
      BY DEF inside
    <3> QED BY <2>6, <2>7, <3>1, SameAnswer DEF Calls
  <2> DEFINE i == [data1 |-> p, data2 |-> there]
  <2>9. iter' = [iter EXCEPT ![it] = i] /\ i.data1 = p
    <3>1. iter \in [Iters -> Iterators]
      BY DEF RowsAreKept, PlaylistTypeOK
    <3>2. [iter[it] EXCEPT !.data2 = there] = i
      BY <2>1 DEF Iterators
    <3>3. iter' = [iter EXCEPT ![it] = [iter[it] EXCEPT !.data2 = there]]
      BY <2>6, <3>1
    <3> QED BY <3>2, <3>3
  <2>10. PositionIn(items[p], i) = [list |-> p, pos |-> IF inside THEN pos ELSE 0]
    <3>1. CASE inside
      <4>1. i = [data1 |-> p, data2 |-> items[p][pos]]
        BY <2>5, <3>1
      <4>2. pos \in 1..Len(items[p])
        BY <2>2, <3>1
      <4> HIDE DEF pos, i
      <4> QED BY <3>1, <4>1, <4>2, NodeIsAt
    <3>2. CASE ~inside
      BY <2>5, <3>2 DEF PositionIn
    <3> QED BY <3>1, <3>2
  <2> HIDE DEF i
  <2>11. A' = [A EXCEPT ![it] = PositionIn(items[i.data1], i)]
    BY <1>1, <2>9, IteratorIsSet
  <2>12. A[it] = [list |-> p, pos |-> l]
    BY <2>1 DEF PositionOf
  <2>13. A' = [A EXCEPT ![it].pos = IF inside THEN pos ELSE 0]
    <3>1. [A EXCEPT ![it].pos = IF inside THEN pos ELSE 0]
            = [A EXCEPT ![it] = [list |-> p, pos |-> IF inside THEN pos ELSE 0]]
      <4> DEFINE x == IF inside THEN pos ELSE 0
      <4> HIDE DEF x
      <4>1. [A[it] EXCEPT !.pos = x] = [list |-> p, pos |-> x]
        BY <2>12
      <4> HIDE DEF A
      <4>2. [A EXCEPT ![it].pos = x] = [A EXCEPT ![it] = [A[it] EXCEPT !.pos = x]]
        OBVIOUS
      <4> QED BY <4>1, <4>2 DEF x
    <3> QED BY <2>9, <2>10, <2>11, <3>1
  <2> QED BY <1>2, <1>3, <1>5, <2>8, <2>13 DEF R, Rows!Move, Rows!Calls
<1> QED BY <1>4, <1>5
LEMMA StoreRefines ==
  ASSUME RowsAreKept, NEW p \in Playlists, NEW it \in Iters, NEW v \in Values,
         totem_pl_playlist_set_value(p, it, v)
  PROVE  Rows!Store(p, it, v)
<1> DEFINE R == [q \in Playlists |-> RowsOf(q)]
           A == [j \in Iters |-> PositionOf(iter[j])]
<1>1. items' = items /\ iter' = iter /\ Calls("set", 0, check_iter(p, it))
  BY DEF totem_pl_playlist_set_value
<1>2. A' = A
  BY <1>1, NothingMoves
<1>3. Rows!On(p, it) <=> check_iter(p, it)
  BY CheckIs DEF Rows!On
<1>4. call' = [op |-> "set", position |-> 0, returns |-> Rows!On(p, it)]
  <2>1. Rows!On(p, it) \in BOOLEAN /\ check_iter(p, it) \in BOOLEAN
    BY DEF Rows!On, check_iter
  <2> QED BY <1>1, <1>3, <2>1, SameAnswer DEF Calls
<1>5. CASE ~check_iter(p, it)
  <2>1. data' = data
    BY <1>5 DEF totem_pl_playlist_set_value
  <2>2. R' = R
    BY <1>1, <2>1, NothingMoves
  <2> QED BY <1>2, <1>3, <1>4, <1>5, <2>2 DEF Rows!Store, Rows!Calls
<1>6. CASE check_iter(p, it)
  <2> DEFINE n == iter[it].data2
             l == A[it].pos
  <2>1. l \in 1..Len(items[p]) /\ items[p][l] = n
    <3>1. NULL \notin Nodes
      BY PlaylistAssumption DEF Nodes
    <3>2. items[p] \in Seq(Nodes) /\ iter[it].data1 = p /\ Contains(items[p], n)
      BY <1>6 DEF check_iter, RowsAreKept, PlaylistTypeOK
    <3>3. n # NULL
      BY <3>1, <3>2 DEF Contains
    <3> QED BY <3>2, <3>3, IteratorIsOn
  <2>2. data' = [data EXCEPT ![n] = v]
    BY <1>6 DEF totem_pl_playlist_set_value
  <2> HIDE DEF n, l
  <2>3. ASSUME NEW q \in Playlists, NEW k \in 1..Len(items[q])
        PROVE  data'[items[q][k]] = IF q = p /\ k = l THEN v ELSE data[items[q][k]]
    <3>1. items[q][k] \in DOMAIN data
      BY RowsAre DEF made, RowsAreKept, PlaylistTypeOK
    <3>2. items[q][k] = n <=> q = p /\ k = l
      <4>1. k \in DOMAIN items[q] /\ l \in DOMAIN items[p]
        BY <2>1, RowsAre
      <4> QED BY <2>1, <4>1 DEF RowsAreKept, NoRowTwice
    <3> QED BY <2>2, <3>1, <3>2
  <2>4. ASSUME NEW q \in Playlists
        PROVE  RowsOf(q)' = IF q = p THEN [RowsOf(p) EXCEPT ![l] = v] ELSE RowsOf(q)
    <3>1. DOMAIN items[q] = 1..Len(items[q])
      BY RowsAre
    <3>2. RowsOf(q) = [k \in 1..Len(items[q]) |-> data[items[q][k]]]
      BY <3>1 DEF RowsOf
    <3>3. RowsOf(q)' = [k \in 1..Len(items[q]) |-> data'[items[q][k]]]
      BY <1>1, <3>1 DEF RowsOf
    <3>4. CASE q = p
      <4>1. [RowsOf(p) EXCEPT ![l] = v]
              = [k \in 1..Len(items[p]) |-> IF k = l THEN v ELSE data[items[p][k]]]
        BY <3>2, <3>4
      <4> QED BY <2>3, <3>3, <3>4, <4>1
    <3>5. CASE q # p
      BY <2>3, <3>2, <3>3, <3>5
    <3> QED BY <3>4, <3>5
  <2>5. R' = [R EXCEPT ![p][l] = v]
    <3>1. R' = [q \in Playlists |-> RowsOf(q)']
      OBVIOUS
    <3>2. [R EXCEPT ![p][l] = v]
            = [q \in Playlists |-> IF q = p THEN [RowsOf(p) EXCEPT ![l] = v] ELSE RowsOf(q)]
      OBVIOUS
    <3> QED BY <2>4, <3>1, <3>2
  <2> QED BY <1>2, <1>3, <1>4, <1>6, <2>5 DEF l, Rows!Store, Rows!Calls
<1> QED BY <1>5, <1>6

LEMMA FetchRefines ==
  ASSUME RowsAreKept, NEW p \in Playlists, NEW it \in Iters, totem_pl_playlist_get_value(p, it)
  PROVE  Rows!Fetch(p, it)
<1> DEFINE R == [q \in Playlists |-> RowsOf(q)]
           A == [j \in Iters |-> PositionOf(iter[j])]
<1>1. /\ items' = items /\ iter' = iter /\ data' = data
      /\ Calls("get", 0, check_iter(p, it) /\ data[iter[it].data2] # NULL)
  BY DEF totem_pl_playlist_get_value
<1>2. A' = A /\ R' = R
  BY <1>1, NothingMoves
<1>3. Rows!On(p, it) <=> check_iter(p, it)
  BY CheckIs DEF Rows!On
<1>4. (check_iter(p, it) /\ data[iter[it].data2] # NULL)
        <=> (Rows!On(p, it) /\ R[p][A[it].pos] # NULL)
  <2>1. ASSUME check_iter(p, it) PROVE R[p][A[it].pos] = data[iter[it].data2]
    <3>1. NULL \notin Nodes
      BY PlaylistAssumption DEF Nodes
    <3>2. items[p] \in Seq(Nodes) /\ iter[it].data1 = p /\ Contains(items[p], iter[it].data2)
      BY <2>1 DEF check_iter, RowsAreKept, PlaylistTypeOK
    <3>3. iter[it].data2 # NULL
      BY <3>1, <3>2 DEF Contains
    <3>4. A[it].pos \in 1..Len(items[p]) /\ items[p][A[it].pos] = iter[it].data2
      BY <3>2, <3>3, IteratorIsOn
    <3> QED BY <3>4, RowsAre
  <2> QED BY <1>3, <2>1
<1>5. call' = [op |-> "get", position |-> 0, returns |-> Rows!On(p, it) /\ R[p][A[it].pos] # NULL]
  <2> DEFINE a == check_iter(p, it) /\ data[iter[it].data2] # NULL
             b == Rows!On(p, it) /\ R[p][A[it].pos] # NULL
  <2>1. a \in BOOLEAN /\ b \in BOOLEAN /\ (a <=> b)
    BY <1>4
  <2>2. call' = [op |-> "get", position |-> 0, returns |-> a]
    BY <1>1 DEF Calls
  <2> HIDE DEF a, b
  <2>3. call' = [op |-> "get", position |-> 0, returns |-> b]
    BY <2>1, <2>2, SameAnswer
  <2> QED BY <2>3 DEF b
<1> QED BY <1>2, <1>5 DEF Rows!Fetch, Rows!Calls

---------------------------------------------------------------------------
LEMMA InitRefines ==
  ASSUME Init PROVE Rows!Init
<1>1. \A p \in Playlists : RowsOf(p) = <<>>
  BY DEF Init, RowsOf
<1>2. \A it \in Iters : PositionOf(iter[it]) = [list |-> NULL, pos |-> 0]
  BY DEF Init, PositionOf
<1> QED BY <1>1, <1>2 DEF Init, Rows!Init, Rows!Nowhere

LEMMA NextRefines ==
  ASSUME Positions \subseteq Nat, RowsAreKept, RowsAreKept', [Next]_vars PROVE [Rows!Next]_(Rows!vars)
<1>1. CASE UNCHANGED vars
  BY <1>1, NothingMoves DEF vars, Rows!vars
<1>2. CASE Next
  <2>1. PICK p \in Playlists, it \in Iters :
          \/ totem_pl_playlist_prepend(p, it)
          \/ totem_pl_playlist_append(p, it)
          \/ \E position \in Positions : totem_pl_playlist_insert(p, position, it)
          \/ totem_pl_playlist_iter_first(p, it)
          \/ totem_pl_playlist_iter_next(p, it)
          \/ totem_pl_playlist_iter_prev(p, it)
          \/ \E v \in Values : totem_pl_playlist_set_value(p, it, v)
          \/ totem_pl_playlist_get_value(p, it)
    BY <1>2 DEF Next
  <2>2. \/ Rows!PrependRow(p, it) \/ Rows!AppendRow(p, it)
        \/ \E position \in Positions : Rows!InsertRow(p, position, it)
        \/ Rows!First(p, it)
        \/ Rows!Move(p, it, "next", 1) \/ Rows!Move(p, it, "prev", -1)
        \/ \E v \in Values : Rows!Store(p, it, v)
        \/ Rows!Fetch(p, it)
    <3>1. CASE \/ totem_pl_playlist_prepend(p, it)
              \/ totem_pl_playlist_append(p, it)
              \/ \E position \in Positions : totem_pl_playlist_insert(p, position, it)
      BY <3>1, InsertionsRefine
    <3>2. CASE totem_pl_playlist_iter_first(p, it)
      BY <3>2, IterFirstRefines
    <3>3. CASE totem_pl_playlist_iter_next(p, it)
      BY <3>3, MoveRefines DEF totem_pl_playlist_iter_next
    <3>4. CASE totem_pl_playlist_iter_prev(p, it)
      BY <3>4, MoveRefines DEF totem_pl_playlist_iter_prev
    <3>5. CASE \E v \in Values : totem_pl_playlist_set_value(p, it, v)
      BY <3>5, StoreRefines
    <3>6. CASE totem_pl_playlist_get_value(p, it)
      BY <3>6, FetchRefines
    <3> QED BY <2>1, <3>1, <3>2, <3>3, <3>4, <3>5, <3>6
  <2>3. Rows!Next
    BY <2>2 DEF Rows!Next
  <2> QED BY <2>3
<1> QED BY <1>1, <1>2

\* The playlist is a sequence of rows with iterators that stay with their row,
\* and each of its calls does and returns what is promised of it, where no row
\* is inserted at a negative position: the lists and tables of totem-pl-playlist.c
\* implement PlaylistRows for any number of rows.
THEOREM PlaylistIsRows ==
  ASSUME Positions \subseteq Nat
  PROVE  Spec => KeepsRows
<1>1. RowsAreKept /\ RowsAreKept' /\ [Next]_vars => [Rows!Next]_(Rows!vars)
  BY NextRefines
<1>2. Init => Rows!Init
  BY InitRefines
<1> QED BY <1>1, <1>2, RowsStayKept, PTL DEF Spec, KeepsRows, Rows!Spec

---------------------------------------------------------------------------
\* Negative positions

\* totem_pl_playlist_insert at a negative position appends, so in no playlist
\* that has a row does it do what its documentation says, which is to prepend:
\* after it the iterator is not at the place that PlaylistRows has it at.
THEOREM NegativeInsertIsNoPrepend ==
  ASSUME RowsAreKept, NEW p \in Playlists, NEW it \in Iters,
         NEW position \in Int, position < 0, items[p] # <<>>,
         totem_pl_playlist_insert(p, position, it)
  PROVE  ~Rows!InsertRow(p, position, it)
<1> DEFINE R == [q \in Playlists |-> RowsOf(q)]
           A == [j \in Iters |-> PositionOf(iter[j])]
           last == Len(items[p]) + 1
<1>1. items[p] \in Seq(Nodes) /\ Len(items[p]) \in Nat \ {0} /\ Len(R[p]) = Len(items[p])
  BY RowsAre DEF RowsAreKept, PlaylistTypeOK
<1>2. NewItem(p, Append(items[p], made + 1), it)
  BY DEF totem_pl_playlist_insert, g_list_insert
<1>3. PutIn(Append(items[p], made + 1), items[p], made + 1, last)
  <2>1. made + 1 \in Nodes
    BY <1>2, PlaylistAssumption DEF NewItem, Nodes, RowsAreKept, PlaylistTypeOK, made
  <2> QED BY <1>1, <2>1, AppendPutsIn
<1>4. Rows!NewRow(p, last, it)
  <2>1. last \in Nat
    BY <1>1
  <2>2. RowsAreKept'
    BY <1>2, <1>3, <2>1, NewItemKeepsRows
  <2> QED BY <1>2, <1>3, <2>1, <2>2, NewRowRefines
<1>5. A'[it] = [list |-> p, pos |-> last]
  BY <1>4 DEF Rows!NewRow
<1>6. ASSUME Rows!InsertRow(p, position, it) PROVE FALSE
  <2>1. Documented(position, Len(R[p])) = 1
    BY DEF Documented
  <2>2. Rows!NewRow(p, 1, it)
    BY <1>6, <2>1 DEF Rows!InsertRow
  <2>3. A'[it] = [list |-> p, pos |-> 1]
    BY <2>2 DEF Rows!NewRow
  <2> QED BY <1>1, <1>5, <2>3
<1> QED BY <1>6
=============================================================================
