-------------------------------- MODULE MCSave --------------------------------
(* Playlists of up to three rows, with and without URI, title and a scheme   *)
(* that is or may come to be ignored.                                        *)
EXTENDS SaveProperties, TLC

CONSTANT Null

MCSchemes == {"file", "http", "cdda"}
Row(scheme, titled) == [scheme |-> scheme, titled |-> titled]
SomeRows == {Row("file", TRUE), Row("file", FALSE), Row("http", TRUE), Row("cdda", TRUE),
             Row(Null, TRUE)}
MCPlaylists == UNION {[1..n -> SomeRows] : n \in 0..3}
=============================================================================
