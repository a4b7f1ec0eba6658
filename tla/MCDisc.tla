-------------------------------- MODULE MCDisc --------------------------------
(* A drive, a device without one, discs with one volume, with two and with    *)
(* none, and directories, images and other places.                            *)
EXTENDS DiscProperties, TLC

MCDiscs ==
  [cd    |-> [volumes |-> {"audio"}, types |-> {}],
   mixed |-> [volumes |-> Volumes, types |-> {"video-vcd"}],
   dvd   |-> [volumes |-> {"files"}, types |-> {"video-dvd", "video-bluray"}],
   files |-> [volumes |-> {"files"}, types |-> {}],
   blank |-> [volumes |-> {}, types |-> {}]]

Place(kind, types, parent) == [kind |-> kind, types |-> types, parent |-> parent, uri |-> FALSE]

MCPlaces ==
  [sr0      |-> Place("device", {}, NONE),
   top      |-> Place("dir", {}, NONE),
   film     |-> Place("dir", {"video-dvd"}, "top"),
   inside   |-> Place("dir", {}, "film"),
   plain    |-> Place("dir", {}, "top"),
   filmuri  |-> [Place("dir", {"video-bluray"}, "top") EXCEPT !.uri = TRUE],
   insideuri |-> [Place("dir", {}, "film") EXCEPT !.uri = TRUE],
   svcd     |-> Place("image", {"video-svcd", "video-dvd"}, "top"),
   backup   |-> Place("image", {}, "top"),
   torn     |-> Place("badimage", {}, "top"),
   dangling |-> Place("badlink", {}, "top"),
   away     |-> Place("remote", {}, NONE),
   nowhere  |-> Place("nothing", {}, NONE)]

\* The least that shows what becomes of a call without a location for the error.
OneCd == [cd |-> MCDiscs.cd]
OneDrive == [sr0 |-> MCPlaces.sr0, nowhere |-> MCPlaces.nowhere]
=============================================================================
