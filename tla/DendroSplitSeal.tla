-------------------------- MODULE DendroSplitSeal --------------------------
(***************************************************************************)
(* One stream's turn in seal_batch: its live rows are handed to the        *)
(* encoder, whole or in parts of at most cap rows, every answer is checked *)
(* by materialize, and what comes out is looked up for the batch's clock   *)
(* observation.  Nothing is committed before that has succeeded.           *)
(*                                                                         *)
(* The encoder is the caller's code.  Of the rows it is given it may drop  *)
(* any and claim any span around the ones it kept; the count it reports is *)
(* taken to be the number of rows in the bytes, which is the one thing     *)
(* materialize cannot look at.                                             *)
(***************************************************************************)
EXTENDS DendroEncoding, Sequences

CONSTANT MaxRows  \* the max_rows values a seal may be asked for, 0 included

ASSUME SplitSealAssumption == MaxRows \subseteq Nat /\ IsFiniteSet(Timestamps)

VARIABLES
  rows,   \* the stream's live rows
  cap,    \* max_rows
  at,     \* where split_seal is, or how it ended
  start,  \* rows handed to the encoder so far
  parts   \* the segments made so far, oldest first

vars == <<rows, cap, at, start, parts>>

Part == [first : Timestamps, last : Timestamps, rows : SUBSET Timestamps]

TypeOK ==
  /\ rows \in SUBSET Timestamps /\ rows # {}
  /\ cap \in Nat \ {0}
  /\ at \in {"parts", "whole", "made", "sealed", "nothing", "failed", "panicked"}
  /\ start \in 0..Cardinality(rows)
  /\ parts \in Seq(Part)
  /\ at = "sealed" => parts # <<>>
  /\ at \in {"whole", "nothing", "failed"} => parts = <<>>

\* The rows whose index is in from .. to - 1.
Slice(from, to) == {t \in rows : from <= Rank(rows, t) /\ Rank(rows, t) < to}

\* Where the part that starts at index from ends.
End(from) == IF from + cap <= Cardinality(rows) THEN from + cap ELSE Cardinality(rows)

Init ==
  /\ rows \in (SUBSET Timestamps) \ {{}}
  /\ cap \in {IF n = 0 THEN 1 ELSE n : n \in MaxRows}
  /\ at = IF Cardinality(rows) <= cap THEN "whole" ELSE "parts"
  /\ start = 0
  /\ parts = <<>>

(***************************************************************************)
(* materialize_after: what an encoder may return for the rows given, and   *)
(* which of it is let through.                                             *)
(***************************************************************************)
Answers(given) ==
  {a \in [first : Timestamps, last : Timestamps, rows : SUBSET given] :
     \A t \in a.rows : a.first <= t /\ t <= a.last}

\* A slip: the rows inside the claimed span are not counted.
AcceptedUncounted(given) ==
  {a \in Answers(given) :
     /\ a.rows # {}
     /\ a.first <= a.last
     /\ \E o \in given : o <= a.first
     /\ \E n \in given : a.last <= n}

Accepted(given) ==
  {a \in Answers(given) :
     /\ a.rows # {}
     /\ a.first <= a.last
     /\ \E o \in given : o <= a.first
     /\ \E n \in given : a.last <= n
     /\ a.rows = {t \in given : a.first <= t /\ t <= a.last}}

\* A slip: only the edge below a part is looked at.
MeetsBelow(given, a, from, to) == from = 0 \/ IsOldest(a.first, given)

\* The part covers what it was given up to the edges it shares.
Meets(given, a, from, to) ==
  /\ from = 0 \/ IsOldest(a.first, given)
  /\ to = Cardinality(rows) \/ IsNewest(a.last, given)

-----------------------------------------------------------------------------
EncodePart ==
  /\ at = "parts"
  /\ \E a \in Accepted(Slice(start, End(start))) :
       /\ Meets(Slice(start, End(start)), a, start, End(start))
       /\ parts' = Append(parts, a)
  /\ start' = End(start)
  /\ at' = IF start' = Cardinality(rows) THEN "made" ELSE "parts"
  /\ UNCHANGED <<rows, cap>>

\* No segment for a part, or one that drops a row at an inner edge.
Abandon ==
  /\ at = "parts"
  /\ at' = "whole"
  /\ parts' = <<>>
  /\ UNCHANGED <<rows, cap, start>>

EncodeWhole ==
  /\ at = "whole"
  /\ \E a \in Accepted(rows) : parts' = <<a>>
  /\ at' = "made"
  /\ UNCHANGED <<rows, cap, start>>

NoSegment ==
  /\ at = "whole"
  /\ at' = "nothing"
  /\ UNCHANGED <<rows, cap, start, parts>>

\* The encoder returned an error, panicked, or broke the contract.
EncoderFails ==
  /\ at \in {"parts", "whole"}
  /\ at' = "failed"
  /\ parts' = <<>>
  /\ UNCHANGED <<rows, cap, start>>

\* seal_batch looks for the row the last segment ends at, and expects one.
FindLast ==
  /\ at = "made"
  /\ at' = IF parts[Len(parts)].last \in rows THEN "sealed" ELSE "panicked"
  /\ UNCHANGED <<rows, cap, start, parts>>

Next ==
  \/ EncodePart
  \/ Abandon
  \/ EncodeWhole
  \/ NoSegment
  \/ EncoderFails
  \/ FindLast

Spec == Init /\ [][Next]_vars

-----------------------------------------------------------------------------
(***************************************************************************)
(* Safety.                                                                 *)
(***************************************************************************)
AsEncoding ==
  [parts |-> {[k |-> i - 1, first |-> parts[i].first, last |-> parts[i].last] :
                i \in 1..Len(parts)},
   upto  |-> parts[Len(parts)].last,
   count |-> Len(parts)]

\* AsEncoding is in Encodings(rows, cap), by the span and the count it has.
IsEncoding ==
  LET n == Len(parts)
      f == parts[1].first
      l == parts[n].last
  IN  /\ Claimable(rows, f, l) /\ l \in rows
      /\ IF n = 1 THEN AsEncoding = Whole(f, l)
         ELSE Splits(rows, cap, f, l, n) /\ AsEncoding = Tiles(rows, cap, f, l, n)

(***************************************************************************)
(* What split_seal gives seal_batch to commit is one of the encodings the  *)
(* writer's model chooses from, and a segment's bytes hold every live row  *)
(* inside its span: the set Encodings is the loop, abandoned splits        *)
(* included.                                                               *)
(***************************************************************************)
SealIsEncoding ==
  at = "sealed" =>
    /\ IsEncoding
    /\ \A i \in 1..Len(parts) :
         parts[i].rows = {t \in rows : parts[i].first <= t /\ t <= parts[i].last}

(***************************************************************************)
(* The prune deletes, and the watermark hides, every row up to the last    *)
(* segment's end.  Whatever the encoder dropped, such a row is in exactly  *)
(* one segment, unless it was dropped at the very front: no row is lost    *)
(* inside a part or between two ("The parts must tile the run with no gap  *)
(* between them", split_seal).                                             *)
(***************************************************************************)
NothingHidden ==
  at = "sealed" =>
    \A t \in rows :
      parts[1].first <= t /\ t <= parts[Len(parts)].last =>
        \E i \in 1..Len(parts) :
          /\ t \in parts[i].rows
          /\ \A j \in 1..Len(parts) : t \in parts[j].rows => j = i

(***************************************************************************)
(* What the comment at seal_batch's expect says: "the segment's last_ts is *)
(* one of the rows, by the check above".                                   *)
(***************************************************************************)
LastIsARow == at = "made" => parts[Len(parts)].last \in rows

=============================================================================
