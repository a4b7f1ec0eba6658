------------------------------- MODULE Playlist -------------------------------
(* TotemPlPlaylist: a list of rows, each a node with a table of its own, and *)
(* the iterators of the caller, which name a playlist and a node.  Nothing   *)
(* is ever removed.  An iterator that no call has set is taken to be zeroed. *)
EXTENDS Integers, SequencesExt

CONSTANTS
  Playlists,        \* the playlists
  Iters,            \* the iterators of the caller
  Values,           \* what can be stored in a row
  Positions,        \* the positions the caller may insert at
  MaxRows,          \* how many rows it may make
  NULL              \* no playlist, no node, nothing stored

ASSUME PlaylistAssumption ==
  /\ NULL \notin Playlists \cup Values \cup Nat
  /\ Positions \subseteq Int
  /\ MaxRows \in Nat

VARIABLES
  items,            \* priv->items of each playlist: its nodes in order
  data,             \* what the table of each node holds
  iter,             \* data1, the playlist, and data2, the node, of each iterator
  call              \* the last call and what it returned

vars == <<items, data, iter, call>>

\* The nodes allocated so far are 1 to made.
made == Len(data)
Nodes == 1..MaxRows
Iterators == [data1 : Playlists \cup {NULL}, data2 : Nodes \cup {NULL}]

Init ==
  /\ items = [p \in Playlists |-> <<>>]
  /\ data = <<>>
  /\ iter = [it \in Iters |-> [data1 |-> NULL, data2 |-> NULL]]
  /\ call = [op |-> "new", position |-> 0, returns |-> TRUE]

Calls(op, position, returns) ==
  call' = [op |-> op, position |-> position, returns |-> returns]

---------------------------------------------------------------------------
\* Insertion

\* g_list_insert: a negative position, or one past the end, appends.
g_list_insert(list, node, position) ==
  IF position \in 0..Len(list) THEN InsertAt(list, position + 1, node)
  ELSE Append(list, node)

\* create_playlist_item, its node put in place, and the iterator on it.
NewItem(p, list, it) ==
  /\ made < MaxRows
  /\ data' = Append(data, NULL)
  /\ items' = [items EXCEPT ![p] = list]
  /\ iter' = [iter EXCEPT ![it] = [data1 |-> p, data2 |-> made + 1]]

totem_pl_playlist_prepend(p, it) ==
  /\ NewItem(p, <<made + 1>> \o items[p], it)
  /\ Calls("prepend", 0, TRUE)

\* A mistake: the iterator is left on the head of the list.
totem_pl_playlist_append_OnHead(p, it) ==
  /\ made < MaxRows
  /\ data' = Append(data, NULL)
  /\ items' = [items EXCEPT ![p] = Append(@, made + 1)]
  /\ iter' = [iter EXCEPT ![it] = [data1 |-> p, data2 |-> Head(items'[p])]]
  /\ Calls("append", 0, TRUE)

totem_pl_playlist_append(p, it) ==
  /\ NewItem(p, Append(items[p], made + 1), it)
  /\ Calls("append", 0, TRUE)

totem_pl_playlist_insert(p, position, it) ==
  /\ NewItem(p, g_list_insert(items[p], made + 1, position), it)
  /\ Calls("insert", position, TRUE)

---------------------------------------------------------------------------
\* Navigation

\* A mistake: any node will do.
check_iter_AnyList(p, it) == iter[it].data2 # NULL

\* The iterator is of this playlist, and on one of its nodes.
check_iter(p, it) ==
  /\ iter[it].data1 = p
  /\ Contains(items[p], iter[it].data2)

\* An empty playlist leaves the iterator as it was.
totem_pl_playlist_iter_first(p, it) ==
  /\ iter' = IF items[p] = <<>> THEN iter
               ELSE [iter EXCEPT ![it] = [data1 |-> p, data2 |-> Head(items[p])]]
  /\ Calls("first", 0, items[p] # <<>>)
  /\ UNCHANGED <<items, data>>

\* node->next, node->prev
Neighbour(list, node, by) ==
  LET i == SelectInSeq(list, LAMBDA n : n = node) + by
  IN  IF i \in 1..Len(list) THEN list[i] ELSE NULL

Move(p, it, op, by) ==
  LET there == Neighbour(items[p], iter[it].data2, by)
  IN  IF check_iter(p, it)
        THEN /\ iter' = [iter EXCEPT ![it].data2 = there]
             /\ Calls(op, 0, there # NULL)
             /\ UNCHANGED <<items, data>>
        ELSE /\ Calls(op, 0, FALSE)
             /\ UNCHANGED <<items, data, iter>>

totem_pl_playlist_iter_next(p, it) == Move(p, it, "next", 1)
totem_pl_playlist_iter_prev(p, it) == Move(p, it, "prev", -1)

---------------------------------------------------------------------------
\* The row's table

totem_pl_playlist_set_value(p, it, v) ==
  /\ data' = IF check_iter(p, it) THEN [data EXCEPT ![iter[it].data2] = v] ELSE data
  /\ Calls("set", 0, check_iter(p, it))
  /\ UNCHANGED <<items, iter>>

totem_pl_playlist_get_value(p, it) ==
  /\ Calls("get", 0, check_iter(p, it) /\ data[iter[it].data2] # NULL)
  /\ UNCHANGED <<items, data, iter>>

Next ==
  \E p \in Playlists, it \in Iters :
    \/ totem_pl_playlist_prepend(p, it)
    \/ totem_pl_playlist_append(p, it)
    \/ \E position \in Positions : totem_pl_playlist_insert(p, position, it)
    \/ totem_pl_playlist_iter_first(p, it)
    \/ totem_pl_playlist_iter_next(p, it)
    \/ totem_pl_playlist_iter_prev(p, it)
    \/ \E v \in Values : totem_pl_playlist_set_value(p, it, v)
    \/ totem_pl_playlist_get_value(p, it)

Spec == Init /\ [][Next]_vars
=============================================================================
