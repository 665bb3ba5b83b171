--------------------------- MODULE MCDendroReader ---------------------------
(***************************************************************************)
(* DendroReader on a small instance: every encoder writes the same columns *)
(* and no pass stops for them, so only what a merge commits is explored.   *)
(***************************************************************************)
EXTENDS DendroReader, TLC

StreamSymmetry == Permutations(Streams)

MCPolicies == {<<"StopAtChange", "Identical">>}

MCWritten ==
  {[fields |-> [t |-> [def |-> "a", null |-> FALSE]], kv |-> {}, indexed |-> FALSE]}
=============================================================================
