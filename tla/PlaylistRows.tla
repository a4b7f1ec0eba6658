----------------------------- MODULE PlaylistRows -----------------------------
(* What a TotemPlPlaylist promises its caller: a sequence of rows, and       *)
(* iterators that stay with their row when others are put before it.  An     *)
(* iterator is a position here, which moves with the insertions.             *)
EXTENDS Integers, SequencesExt

CONSTANTS
  Playlists,        \* the playlists
  Iters,            \* the iterators of the caller
  Values,           \* what can be stored in a row
  Positions,        \* the positions the caller may insert at
  Nothing,          \* an empty row, an iterator of no playlist
  Place(_, _)       \* where a position is in a list of a given size

VARIABLES
  rows,             \* the contents of each playlist
  at,               \* the playlist and the position of each iterator, or 0
  call              \* the last call and what it returned

vars == <<rows, at, call>>

Nowhere == [list |-> Nothing, pos |-> 0]

Init ==
  /\ rows = [p \in Playlists |-> <<>>]
  /\ at = [it \in Iters |-> Nowhere]
  /\ call = [op |-> "new", position |-> 0, returns |-> TRUE]

Calls(op, position, returns) ==
  call' = [op |-> op, position |-> position, returns |-> returns]

\* A new row at position k; the iterators behind it move on.
NewRow(p, k, it) ==
  /\ rows' = [rows EXCEPT ![p] = InsertAt(@, k, Nothing)]
  /\ at' = [j \in Iters |->
              IF j = it THEN [list |-> p, pos |-> k]
              ELSE IF at[j].list = p /\ at[j].pos >= k
                THEN [at[j] EXCEPT !.pos = @ + 1]
                ELSE at[j]]

PrependRow(p, it) == NewRow(p, 1, it) /\ Calls("prepend", 0, TRUE)
AppendRow(p, it) == NewRow(p, Len(rows[p]) + 1, it) /\ Calls("append", 0, TRUE)
InsertRow(p, position, it) ==
  /\ NewRow(p, Place(position, Len(rows[p])), it)
  /\ Calls("insert", position, TRUE)

First(p, it) ==
  /\ at' = IF rows[p] = <<>> THEN at
             ELSE [at EXCEPT ![it] = [list |-> p, pos |-> 1]]
  /\ Calls("first", 0, rows[p] # <<>>)
  /\ UNCHANGED rows

\* Whether the iterator is on a row of the playlist.
On(p, it) == at[it].list = p /\ at[it].pos # 0

\* To the neighbouring row, or off the list.
Move(p, it, op, by) ==
  LET pos == at[it].pos + by
      there == pos \in 1..Len(rows[p])
  IN  IF On(p, it)
        THEN /\ at' = [at EXCEPT ![it].pos = IF there THEN pos ELSE 0]
             /\ Calls(op, 0, there)
             /\ UNCHANGED rows
        ELSE /\ Calls(op, 0, FALSE)
             /\ UNCHANGED <<rows, at>>

Store(p, it, v) ==
  /\ rows' = IF On(p, it) THEN [rows EXCEPT ![p][at[it].pos] = v] ELSE rows
  /\ Calls("set", 0, On(p, it))
  /\ UNCHANGED at

\* Whether the iterator's row holds anything.
Fetch(p, it) ==
  /\ Calls("get", 0, On(p, it) /\ rows[p][at[it].pos] # Nothing)
  /\ UNCHANGED <<rows, at>>

Next ==
  \E p \in Playlists, it \in Iters :
    \/ PrependRow(p, it)
    \/ AppendRow(p, it)
    \/ \E position \in Positions : InsertRow(p, position, it)
    \/ First(p, it)
    \/ Move(p, it, "next", 1)
    \/ Move(p, it, "prev", -1)
    \/ \E v \in Values : Store(p, it, v)
    \/ Fetch(p, it)

Spec == Init /\ [][Next]_vars
=============================================================================
