------------------------------ MODULE MCPlaylist ------------------------------
(* Two playlists, two iterators and three rows: an iterator can be ahead of, *)
(* behind or on the other's row, of the other playlist, or off either end.   *)
EXTENDS PlaylistProperties

\* At the front, between rows and past the end.  Below 0 the code departs from
\* its documentation, as PlaylistProof shows of every such position.
MCPositions == {0, 1, 5}
=============================================================================
