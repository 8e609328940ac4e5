------------------------------ MODULE TextFile ------------------------------
(***************************************************************************)
(* One file on disk as the Python code uses it.  Path.write_text and       *)
(* Path.write_bytes open the file for writing, which truncates it, and     *)
(* then write the whole content at offset zero; nothing locks the file.    *)
(* A reader between the two steps sees an empty file.  When another writer *)
(* has written since this writer's truncation, the new content lands on    *)
(* top of the old: if the old content is longer its tail survives and the  *)
(* file is no longer the text anybody wrote.                               *)
(***************************************************************************)

Absent  == [st |-> "absent"]
Empty   == [st |-> "empty"]
Garbled == [st |-> "garbled"]
Whole(v) == [st |-> "whole", val |-> v]

\* The files whose parsable contents are the members of V.
FileOf(V) == {Absent, Empty, Garbled} \cup [st : {"whole"}, val : V]

Exists(f) == f.st # "absent"

\* Reading a file that exists and parsing it succeeds only on a whole text.
Parses(f) == f.st = "whole"

\* What writing v into a file f opened earlier may leave.  tails holds the
\* possible answers to "is the text already in f longer than v's?"
Landing(f, v, tails) ==
  IF f.st \in {"absent", "empty"}
  THEN {Whole(v)}
  ELSE {IF longer THEN Garbled ELSE Whole(v) : longer \in tails}
=============================================================================
