------------------------------- MODULE MCAsync -------------------------------
(* Two parses in worker threads and two on the main thread, one of which may *)
(* be run by a signal handler of the other.                                  *)
EXTENDS AsyncProperties, TLC

ParseNames == {"first", "second", "outer", "inner"}
KindOf == [p \in ParseNames |-> IF p \in {"first", "second"} THEN "async" ELSE "sync"]
SizeOf == [p \in ParseNames |-> IF p = "first" THEN 2 ELSE 1]
=============================================================================
