------------------------------- MODULE PlsFile -------------------------------
(* The key lines of a PLS file as totem_pl_parser_add_pls_with_contents      *)
(* loads them, and the order in which its scan finds the entries.            *)
EXTENDS Integers, SequencesExt, FiniteSetsExt

CONSTANTS
  NoNumber,   \* the number of a key that no printed number matches: "filename",
              \* "file01", "file1 "
  NULL        \* no value

ASSUME NoNumberAssumption == NoNumber \notin Int

\* A line KEYnumber=value; the key in lower case, without its number.
Line(key, no, value) == [key |-> key, no |-> no, value |-> value]

\* Whether the line is counted as an entry: its key begins with "file".
Counted(l) == l.key = "file"
num_entries(lines) == Cardinality({k \in DOMAIN lines : Counted(lines[k])})

\* A mistake: any key with that number will do.
Lookup_AnyKey(lines, key, no) ==
  LET at == {k \in DOMAIN lines : lines[k].no = no}
  IN  IF at = {} THEN NULL ELSE lines[Max(at)].value

\* The table: the last line of a key wins.
Lookup(lines, key, no) ==
  LET at == {k \in DOMAIN lines : lines[k].key = key /\ lines[k].no = no}
  IN  IF at = {} THEN NULL ELSE lines[Max(at)].value

\* What is read under a number.
Item(lines, no) ==
  [file |-> Lookup(lines, "file", no),
   title |-> Lookup(lines, "title", no),
   length |-> Lookup(lines, "length", no)]

\* The numbers the scan can find an entry under.
Numbers(lines) == {lines[k].no : k \in {j \in DOMAIN lines : Counted(lines[j])}} \ {NoNumber}
=============================================================================
