---------------------------- MODULE DurationParse ----------------------------
(* totem_pl_parser_parse_duration.  The text of a duration is the numbers it  *)
(* begins with and the marks between them: "1:02.5" has the numbers 1, 2 and  *)
(* 5 and the marks ":" and ".".                                               *)
EXTENDS Integers, Sequences, FiniteSetsExt, SequencesExt

CONSTANT IntBits      \* bits of an int

\* What the build makes of an int that overflows.
Int_(n) == ((n + 2^(IntBits - 1)) % 2^IntBits) - 2^(IntBits - 1)

\* A mistake: hours are never asked for.
Formats_MinutesFirst ==
  << <<":", ".">>, <<":">>, <<":", ":", ".">>, <<":", ":">>, <<".">>, <<"m">>, <<>> >>

\* The marks of each format of sscanf, in the order they are tried.
Formats ==
  << <<":", ":", ".">>, <<":", ":">>, <<":", ".">>, <<":">>, <<".">>, <<"m">>, <<>> >>

\* sscanf converts every number of a format; what follows the last is not read.
Scans(text, marks) ==
  Len(text.numbers) > Len(marks) /\ IsPrefix(marks, text.marks)

Error == -1

\* A duration of nothing but a fraction is a second.
RoundUp(seconds, fractions) == IF seconds = 0 /\ fractions > 0 THEN 1 ELSE seconds

parse_duration(text) ==
  LET fits == {k \in 1..Len(Formats) : Scans(text, Formats[k])}
      n    == text.numbers
      Read(marks) ==
        CASE marks = <<":", ":", ".">> ->
               RoundUp(n[1] * 3600 + n[2] * 60 + n[3], n[4])
          [] marks = <<":", ":">> -> n[1] * 3600 + n[2] * 60 + n[3]
          [] marks = <<":", ".">> -> RoundUp(Int_(n[1] * 60 + n[2]), n[3])
          [] marks = <<>>         -> n[1]
          [] OTHER                -> n[1] * 60 + n[2]
  IN  IF fits = {} THEN Error ELSE Read(Formats[Min(fits)])
=============================================================================
