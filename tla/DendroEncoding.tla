--------------------------- MODULE DendroEncoding ---------------------------
(***************************************************************************)
(* What an encoder, which is the caller's code, may make of a stream's     *)
(* live rows and have sealed.  L is the set of the rows' timestamps, cap   *)
(* the row cap a seal asked for.                                           *)
(*                                                                         *)
(* An encoding is the parts it makes, the timestamp upto they reach and    *)
(* their count; part k, the k-th segment, holds the rows of L inside       *)
(* [first, last].  materialize accepts a span that starts no earlier than  *)
(* the oldest row and is not empty of rows.  A span that ends between two  *)
(* rows is accepted too, but no encoding: it makes seal_batch's expect     *)
(* fail, and the thread is gone before anything is committed.              *)
(***************************************************************************)
EXTENDS DendroCatalog, FiniteSets

Rank(L, t) == Cardinality({u \in L : u < t})

\* The rows split_seal hands to the encoder as part k.
Chunk(L, cap, k) == {t \in L : k * cap <= Rank(L, t) /\ Rank(L, t) < (k + 1) * cap}

IsOldest(t, S) == t \in S /\ \A u \in S : t <= u
IsNewest(t, S) == t \in S /\ \A u \in S : u <= t

\* The spans [f, l] an encoder may claim over L and have accepted.
Claimable(L, f, l) == f <= l /\ \E o \in L : o <= f

NoEncoding == [parts |-> {}, upto |-> NoTs, count |-> 0]

\* One segment over [f, l], however many rows there are.
Whole(f, l) ==
  [parts |-> {[k |-> 0, first |-> f, last |-> l]}, upto |-> l, count |-> 1]

\* n parts that tile the run: only the outer edges f and l are the encoder's.
Tiles(L, cap, f, l, n) ==
  [parts |-> {p \in [k : 0..(n - 1), first : L \cup {f}, last : L] :
                LET c == Chunk(L, cap, p.k)
                IN  /\ IF p.k = 0 THEN p.first = f ELSE IsOldest(p.first, c)
                    /\ IF p.k = n - 1 THEN p.last = l ELSE IsNewest(p.last, c)},
   upto |-> l, count |-> n]

\* A split is kept when f falls in the first chunk and l in the last.
Splits(L, cap, f, l, n) ==
  /\ (n - 1) * cap < Cardinality(L) /\ Cardinality(L) <= n * cap
  /\ \E t \in Chunk(L, cap, 0) : f <= t
  /\ l \in Chunk(L, cap, n - 1)

Encodings(L, cap) ==
  {NoEncoding}
    \cup {Whole(c[1], c[2]) :
            c \in {x \in Timestamps \X L : Claimable(L, x[1], x[2])}}
    \cup {Tiles(L, cap, c[1], c[2], c[3]) :
            c \in {x \in Timestamps \X L \X (2..Cardinality(L)) :
                     /\ Claimable(L, x[1], x[2])
                     /\ Splits(L, cap, x[1], x[2], x[3])}}

=============================================================================
