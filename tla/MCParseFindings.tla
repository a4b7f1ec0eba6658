-------------------------- MODULE MCParseFindings --------------------------
(* The smallest worlds in which the code departs from its documentation.     *)
EXTENDS MCParse

\* A web playlist with links to local launchers before a podcast.
Launchers ==
  [list |-> File("mpegurl", "m3u", [n \in 1..4 |-> Link("launcher")] \o <<Link("podcast"),
                                                                     Link("rss")>>),
   launcher |-> File("desktop", "desktop", <<Link("song")>>),
   rss |-> File("rss", "rss", <<FeedItem("song", NONE)>>),
   podcast |-> Remote("feed", "rss"),
   song |-> File("media", "other", <<>>)]

\* An iRiver playlist in a list of playlists.
Iriver ==
  [list |-> File("scpls", "pls", <<Link("player")>>),
   player |-> File("pla", "pla", <<FeedItem("song", NONE)>>),
   song |-> File("media", "other", <<>>)]

DocsOfLaunchers == DOMAIN Launchers
DocsOfIriver == DOMAIN Iriver
OnlyNoLists == {NoLists}
=============================================================================
