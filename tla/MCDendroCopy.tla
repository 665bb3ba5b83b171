---------------------------- MODULE MCDendroCopy ----------------------------
(***************************************************************************)
(* DendroCopy, and the compaction passes under it, on small instances.  A  *)
(* stream's columns come and go, and one of them changes its nullability.  *)
(***************************************************************************)
EXTENDS DendroCopy

Is(null) == [def |-> "a", null |-> null]

MCWritten ==
  {[fields |-> [t |-> Is(FALSE), x |-> Is(FALSE)], kv |-> {}, indexed |-> TRUE],
   [fields |-> [t |-> Is(FALSE), x |-> Is(FALSE)], kv |-> {"k"}, indexed |-> FALSE],
   [fields |-> [t |-> Is(FALSE), x |-> Is(FALSE), y |-> Is(FALSE)],
    kv |-> {}, indexed |-> TRUE],
   [fields |-> [t |-> Is(FALSE), x |-> Is(TRUE)], kv |-> {}, indexed |-> FALSE]}

MCPolicies == {"StopAtChange", "UnionFields"} \X {"Identical", "Combining"}

\* Everything; a range; a range and the one column some segments lack.
MCCopySpecs ==
  {[start |-> 0, end |-> 9, streams |-> Streams, project |-> {}, columns |-> {}],
   [start |-> 2, end |-> 3, streams |-> Streams, project |-> {}, columns |-> {}],
   [start |-> 2, end |-> 9, streams |-> Streams, project |-> Streams,
    columns |-> {"t", "y"}]}
=============================================================================
