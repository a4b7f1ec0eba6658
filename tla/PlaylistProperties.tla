-------------------------- MODULE PlaylistProperties --------------------------
(* What TotemPlPlaylist guarantees.                                          *)
EXTENDS Playlist

\* The types, the rows of the playlists, and the iterators on them.
PlaylistTypeOK ==
  /\ items \in [Playlists -> Seq(Nodes)]
  /\ data \in Seq(Values \cup {NULL})
  /\ made <= MaxRows
  /\ iter \in [Iters -> Iterators]
NoRowTwice ==
  \A p, q \in Playlists : \A i \in DOMAIN items[p], j \in DOMAIN items[q] :
    items[p][i] = items[q][j] => p = q /\ i = j
EveryRowListed ==
  \A n \in Nodes : n <= made <=> \E p \in Playlists : Contains(items[p], n)
IteratorsOnRows ==
  \A it \in Iters : iter[it].data2 # NULL =>
    iter[it].data1 # NULL /\ Contains(items[iter[it].data1], iter[it].data2)
\* Every row made is in exactly one playlist, once, and an iterator is either
\* on a row of its playlist or on none: whatever iterators are used with
\* whatever playlist, no call loses, copies or mixes up rows.
RowsAreKept == PlaylistTypeOK /\ NoRowTwice /\ EveryRowListed /\ IteratorsOnRows

\* Where an iterator is in its playlist.
PositionOf(i) ==
  [list |-> i.data1,
   pos |-> IF i.data2 = NULL THEN 0
           ELSE SelectInSeq(items[i.data1], LAMBDA n : n = i.data2)]

RowsOf(p) == [k \in DOMAIN items[p] |-> data[items[p][k]]]

\* The place of a position, as totem_pl_playlist_insert documents it: below 0 a
\* row is prepended, past the end appended, and between it comes that many rows in.
Documented(position, size) ==
  IF position < 0 THEN 1 ELSE IF position <= size THEN position + 1 ELSE size + 1

Rows == INSTANCE PlaylistRows
  WITH rows <- [p \in Playlists |-> RowsOf(p)],
       at <- [it \in Iters |-> PositionOf(iter[it])],
       Nothing <- NULL,
       Place <- Documented

\* A playlist is a sequence of rows: a new row comes where it is documented to,
\* iterators stay with their row across insertions, walks go through the rows in
\* order and stop at the ends, what is stored is stored in the row meant, and
\* each call returns what it should.  It holds where no position is negative:
\* of a negative one PlaylistProof shows that the row is not prepended.
KeepsRows == Rows!Spec
=============================================================================
