------------------------------- MODULE PlsScan -------------------------------
(* The scan of totem_pl_parser_add_pls_with_contents for the entries of a    *)
(* PLS file: an unsigned counter, printed as a signed number, goes up until  *)
(* as many entries were found as lines were counted.  TimesRead looks at the *)
(* length of what is found; what becomes of an entry is the matter of        *)
(* ParseEngine.                                                              *)
EXTENDS PlsFile

CONSTANTS
  Files,      \* the files there may be
  GUINT_HALF  \* half as many values as a guint has: 2^31

Guints == 0..(2 * GUINT_HALF - 1)

\* "%d" of a guint.
Printed(n) == IF n < GUINT_HALF THEN n ELSE n - 2 * GUINT_HALF

\* A file is a list of lines; a number that is not printed is NoNumber.
ASSUME ScanAssumption ==
  /\ GUINT_HALF \in Nat \ {0}
  /\ \A lines \in Files :
       /\ lines \in Seq({lines[k] : k \in DOMAIN lines})
       /\ \A k \in DOMAIN lines :
            /\ lines[k].no \in {Printed(n) : n \in Guints} \cup {NoNumber}
            /\ lines[k].value # NULL

VARIABLES
  lines,          \* the key lines of the file
  i,              \* the counter
  found_entries,  \* how many entries were found
  items           \* what was found, in order

scan == <<lines, i, found_entries, items>>

\* i++
Incremented(n) == IF n = 2 * GUINT_HALF - 1 THEN 0 ELSE n + 1

\* A mistake: the scan begins at file0.
ScanInit_FromZero ==
  /\ lines \in Files
  /\ i = 0
  /\ found_entries = 0
  /\ items = <<>>

ScanInit ==
  /\ lines \in Files
  /\ i = 1
  /\ found_entries = 0
  /\ items = <<>>

Scanning == found_entries < num_entries(lines)

\* A mistake: a gap in the numbers ends the scan.
Miss_Stops ==
  /\ Scanning
  /\ Lookup(lines, "file", Printed(i)) = NULL
  /\ UNCHANGED scan

\* There is no entry under this number.
Miss ==
  /\ Scanning
  /\ Lookup(lines, "file", Printed(i)) = NULL
  /\ i' = Incremented(i)
  /\ UNCHANGED <<lines, found_entries, items>>

Find ==
  /\ Scanning
  /\ Lookup(lines, "file", Printed(i)) # NULL
  /\ items' = Append(items, Item(lines, Printed(i)))
  /\ found_entries' = found_entries + 1
  /\ i' = Incremented(i)
  /\ UNCHANGED lines

---------------------------------------------------------------------------
\* The counter and the count keep to their ranges, and every item is one that
\* a line of the file was counted for.
ScanTypeOK ==
  /\ lines \in Files
  /\ i \in Guints
  /\ found_entries = Len(items)
  /\ found_entries <= num_entries(lines)
  /\ \A k \in DOMAIN items :
       \E l \in DOMAIN lines : Counted(lines[l]) /\ lines[l].value = items[k].file

\* How many numbers the counter prints before this one: it prints 1, 2, ...,
\* and when it has passed the half of its range the negative ones and 0.
Turn(n) == IF n > 0 THEN n - 1 ELSE n - 1 + 2 * GUINT_HALF

\* The numbers of entries that come up before a turn, and number k of them all.
Earlier(file, turn) == {n \in Numbers(file) : Turn(n) < turn}
InOrder(file, k) == CHOOSE n \in Numbers(file) : Cardinality(Earlier(file, Turn(n))) = k - 1

\* Entries are found in the order of their numbers, over gaps in them, and a
\* second round begins only when all were found, and finds the same again: a
\* file with as many numbers as entries is read exactly once.
ReadInRounds ==
  LET round == Cardinality(Numbers(lines))
  IN  \A k \in DOMAIN items :
        items[k] = IF k <= round THEN Item(lines, InOrder(lines, k)) ELSE items[k - round]

\* The scan ends if there is an entry under any number at all, or none is
\* counted; with a key such as "filename" alone it goes round for ever.
ScanEnds == (Numbers(lines) # {} \/ num_entries(lines) = 0) ~> ~Scanning
=============================================================================
