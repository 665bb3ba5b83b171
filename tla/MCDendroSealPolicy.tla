------------------------- MODULE MCDendroSealPolicy -------------------------
(***************************************************************************)
(* DendroSealPolicy on a small instance: a thin and a wide stream in       *)
(* different stagger buckets, on both sides of the epoch, under a policy   *)
(* for each of the caps and one that aligns.                               *)
(***************************************************************************)
EXTENDS DendroSealPolicy, TLC

CONSTANTS thin, wide

MCTimestamps == -2..6
MCNoTs == -9
MCRowBytes == (thin :> 1) @@ (wide :> 2)
MCBucket == (thin :> 0) @@ (wide :> 1)

MCPolicies ==
  {[maxRows |-> 4, maxBytes |-> 99, maxAge |-> 99, align |-> 0, asks |-> FALSE],
   [maxRows |-> 9, maxBytes |-> 4, maxAge |-> 99, align |-> -1, asks |-> FALSE],
   [maxRows |-> 9, maxBytes |-> 99, maxAge |-> 4, align |-> 0, asks |-> FALSE],
   [maxRows |-> 2, maxBytes |-> 99, maxAge |-> 99, align |-> 2, asks |-> TRUE],
   [maxRows |-> 9, maxBytes |-> 99, maxAge |-> 99, align |-> 2, asks |-> FALSE]}
=============================================================================
