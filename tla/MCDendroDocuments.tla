-------------------------- MODULE MCDendroDocuments --------------------------
(***************************************************************************)
(* DendroDocuments on small instances.  Files are interchangeable.         *)
(***************************************************************************)
EXTENDS DendroDocuments, TLC

FileSymmetry == Permutations(Files)
=============================================================================
