----------------------- MODULE DendroSealPolicyProofs -----------------------
(***************************************************************************)
(* What is proved of a seal and of the policy that asks for it, for any    *)
(* rows, caps, streams and policies.  Of the seal: the parts are answers   *)
(* about successive chunks of the live rows, in the order of their rank,   *)
(* so that they tile the run whatever the encoder drops at its ends.  Of   *)
(* the policy: no row is of a time to come (Clock), an account stands for  *)
(* a set of its stream's live rows until its seal is asked for (Accounts), *)
(* and two streams in lockstep are apart by the difference of their        *)
(* staggers and some number of whole caps (Spaced).                        *)
(***************************************************************************)
EXTENDS DendroSealPolicy, FiniteSetTheorems, WellFoundedInduction, TLAPS

-----------------------------------------------------------------------------
(***************************************************************************)
(* The rank of a row among a stream's live rows, and the chunks of them.   *)
(***************************************************************************)
LEMMA RankType ==
  ASSUME NEW L \in SUBSET Timestamps, NEW t
  PROVE  /\ IsFiniteSet(L) /\ Cardinality(L) \in Nat
         /\ IsFiniteSet({u \in L : u < t}) /\ Rank(L, t) \in Nat
         /\ L \subseteq Int
<1>1. IsFiniteSet(Timestamps) /\ Timestamps \subseteq Int
  BY SplitSealAssumption, TimestampsAssumption
<1>2. IsFiniteSet(L)
  BY <1>1, FS_Subset
<1>3. {u \in L : u < t} \in SUBSET L
  OBVIOUS
<1>4. IsFiniteSet({u \in L : u < t})
  BY <1>2, <1>3, FS_Subset
<1>5. Cardinality(L) \in Nat /\ Cardinality({u \in L : u < t}) \in Nat
  BY <1>2, <1>4, FS_CardinalityType
<1> QED BY <1>1, <1>2, <1>4, <1>5 DEF Rank

LEMMA RankOrder ==
  ASSUME NEW L \in SUBSET Timestamps, NEW t \in L, NEW u \in L
  PROVE  /\ t < u => Rank(L, t) < Rank(L, u)
         /\ t <= u => Rank(L, t) <= Rank(L, u)
<1> DEFINE below(x) == {v \in L : v < x}
<1>1. t \in Int /\ u \in Int /\ L \subseteq Int
  BY RankType
<1>2. /\ IsFiniteSet(below(t)) /\ IsFiniteSet(below(u))
      /\ Rank(L, t) = Cardinality(below(t)) /\ Rank(L, u) = Cardinality(below(u))
      /\ Rank(L, t) \in Nat /\ Rank(L, u) \in Nat
  BY RankType DEF Rank
<1>3. ASSUME t <= u PROVE Rank(L, t) <= Rank(L, u)
  <2>1. \A v \in L : v < t => v < u
    BY <1>1, <1>3
  <2>2. below(t) \in SUBSET below(u)
    BY <2>1
  <2> QED BY <1>2, <2>2, FS_Subset
<1>4. ASSUME t < u PROVE Rank(L, t) < Rank(L, u)
  <2>1. below(t) \in SUBSET below(u) /\ t \in below(u) /\ t \notin below(t)
    <3>1. (\A v \in L : v < t => v < u) /\ ~ (t < t)
      BY <1>1, <1>4
    <3> QED BY <1>4, <3>1
  <2>2. Cardinality(below(t)) # Cardinality(below(u))
    BY <1>2, <2>1, FS_Subset
  <2>3. Cardinality(below(t)) <= Cardinality(below(u))
    BY <1>2, <2>1, FS_Subset
  <2> QED BY <1>2, <2>2, <2>3
<1> QED BY <1>3, <1>4

LEMMA RankBound ==
  ASSUME NEW L \in SUBSET Timestamps, NEW t \in L
  PROVE  Rank(L, t) < Cardinality(L)
<1> DEFINE below == {v \in L : v < t}
<1>1. t \in Int /\ IsFiniteSet(L) /\ Cardinality(L) \in Nat /\ Rank(L, t) \in Nat
  BY RankType
<1>2. below \in SUBSET L /\ t \notin below
  BY <1>1
<1>3. Cardinality(below) <= Cardinality(L) /\ Cardinality(below) # Cardinality(L)
  BY <1>1, <1>2, FS_Subset
<1> QED BY <1>1, <1>3 DEF Rank

LEMMA Least ==
  ASSUME NEW T, T \subseteq Nat, T # {}
  PROVE  \E x \in T : \A y \in T : x <= y
<1> DEFINE R == OpToRel(<, Nat)
<1>1. IsWellFoundedOn(R, Nat)
  BY NatLessThanWellFounded
<1>2. \A x, y \in Nat : x < y => <<x, y>> \in R
  BY DEF OpToRel
<1> HIDE DEF R
<1>3. PICK x \in T : \A y \in T : ~ (<<y, x>> \in R)
  BY <1>1, WFMin
<1>4. ASSUME NEW y \in T PROVE x <= y
  <2>1. x \in Nat /\ y \in Nat /\ ~ (y < x)
    BY <1>2, <1>3
  <2> QED BY <2>1
<1> QED BY <1>4

\* Products, one factor fixed.
LEMMA Multiples ==
  ASSUME NEW c \in Nat, NEW j \in Nat, NEW k \in Nat
  PROVE  /\ j * c \in Nat /\ (j + 1) * c = j * c + c
         /\ j < k => (j + 1) * c <= k * c
<1>1. j * c \in Nat /\ (j + 1) * c = j * c + c
  OBVIOUS
<1>2. ASSUME j < k PROVE (j + 1) * c <= k * c
  <2>1. PICK d \in Nat : k = (j + 1) + d
    <3>1. k - (j + 1) \in Nat /\ k = (j + 1) + (k - (j + 1))
      BY <1>2
    <3> QED BY <3>1
  <2>2. k * c = (j + 1) * c + d * c /\ d * c \in Nat /\ (j + 1) * c \in Nat
    BY <2>1
  <2> QED BY <2>2
<1> QED BY <1>1, <1>2

LEMMA Quotient ==
  ASSUME NEW c \in Nat \ {0}, NEW r \in Nat
  PROVE  \E k \in Nat : k * c <= r /\ r < (k + 1) * c
<1> DEFINE T == {k \in Nat : r < (k + 1) * c}
<1>1. r \in T
  <2>1. (r + 1) * c = r * c + c /\ r * c >= r
    BY Multiples
  <2> QED BY <2>1
<1>2. PICK k \in T : \A j \in T : k <= j
  <2>1. T \subseteq Nat /\ T # {}
    BY <1>1
  <2> HIDE DEF T
  <2> QED BY <2>1, Least
<1>3. k * c <= r
  <2>1. CASE k = 0
    BY <2>1
  <2>2. CASE k # 0
    <3>1. PICK j \in Nat : k = j + 1
      <4>1. k - 1 \in Nat /\ k = (k - 1) + 1
        BY <2>2
      <4> QED BY <4>1
    <3>2. j \notin T
      BY <1>2, <3>1
    <3>3. (j + 1) * c \in Nat
      BY <3>1, Multiples
    <3> QED BY <3>1, <3>2, <3>3
  <2> QED BY <2>1, <2>2
<1> QED BY <1>3

\* Every row is in one chunk, and a chunk has no gap.
LEMMA Chunks ==
  ASSUME NEW L \in SUBSET Timestamps, NEW c \in Nat \ {0}
  PROVE  /\ \A k : Chunk(L, c, k) \subseteq L
         /\ \A t \in L : \E k \in Nat : t \in Chunk(L, c, k)
         /\ \A j, k \in Nat : \A t \in Chunk(L, c, j), u \in Chunk(L, c, k) : j < k => t < u
         /\ \A k \in Nat : \A o, n \in Chunk(L, c, k), t \in L :
              o <= t /\ t <= n => t \in Chunk(L, c, k)
<1>1. \A t \in L : Rank(L, t) \in Nat /\ t \in Int
  BY RankType
<1>2. ASSUME NEW t \in L PROVE \E k \in Nat : t \in Chunk(L, c, k)
  BY <1>1, Quotient DEF Chunk
<1>3. ASSUME NEW j \in Nat, NEW k \in Nat, NEW t \in Chunk(L, c, j), NEW u \in Chunk(L, c, k), j < k
      PROVE  t < u
  <2>1. (j + 1) * c <= k * c /\ (j + 1) * c \in Nat /\ k * c \in Nat
    BY <1>3, Multiples
  <2>2. t \in L /\ u \in L /\ Rank(L, t) < (j + 1) * c /\ k * c <= Rank(L, u)
    BY DEF Chunk
  <2>3. ~ u <= t
    BY <1>1, <2>1, <2>2, RankOrder
  <2> QED BY <1>1, <2>2, <2>3
<1>4. ASSUME NEW k \in Nat, NEW o \in Chunk(L, c, k), NEW n \in Chunk(L, c, k), NEW t \in L,
             o <= t, t <= n
      PROVE  t \in Chunk(L, c, k)
  <2>1. o \in L /\ n \in L /\ k * c <= Rank(L, o) /\ Rank(L, n) < (k + 1) * c
    BY DEF Chunk
  <2>2. Rank(L, o) <= Rank(L, t) /\ Rank(L, t) <= Rank(L, n)
    BY <1>4, <2>1, RankOrder
  <2>3. k * c \in Nat /\ (k + 1) * c \in Nat
    BY Multiples
  <2>4. k * c <= Rank(L, t) /\ Rank(L, t) < (k + 1) * c
    BY <1>1, <2>1, <2>2, <2>3
  <2> QED BY <2>4 DEF Chunk
<1> QED BY <1>2, <1>3, <1>4 DEF Chunk

-----------------------------------------------------------------------------
(***************************************************************************)
(* One stream's turn.  Part p is an accepted answer about the rows c; of n *)
(* parts all but the first begin with their chunk, and all but the last    *)
(* end with it.                                                            *)
(***************************************************************************)
PartOf(p, c) ==
  /\ p.first \in Timestamps /\ p.last \in Timestamps
  /\ p.rows # {} /\ p.first <= p.last
  /\ \E o \in c : o <= p.first
  /\ \E m \in c : p.last <= m
  /\ p.rows = {t \in c : p.first <= t /\ t <= p.last}

Tiled(n) ==
  \A i \in 1..Len(parts) :
    LET c == Chunk(rows, cap, i - 1) IN
    /\ PartOf(parts[i], c)
    /\ i > 1 => IsOldest(parts[i].first, c)
    /\ i < n => IsNewest(parts[i].last, c)

SplitInv ==
  /\ rows \in SUBSET Timestamps /\ cap \in Nat \ {0} /\ parts \in Seq(Part)
  /\ at = "parts" =>
       /\ cap < Cardinality(rows)
       /\ start = Len(parts) * cap /\ start < Cardinality(rows)
       /\ Tiled(Len(parts) + 1)
  /\ at \in {"made", "sealed"} =>
       \/ Len(parts) = 1 /\ PartOf(parts[1], rows)
       \/ /\ Len(parts) >= 2 /\ Tiled(Len(parts))
          /\ (Len(parts) - 1) * cap < Cardinality(rows)
          /\ Cardinality(rows) <= Len(parts) * cap
  /\ at = "sealed" => parts[Len(parts)].last \in rows

LEMMA AcceptedIsPart ==
  ASSUME NEW given \in SUBSET Timestamps, NEW a \in Accepted(given)
  PROVE  PartOf(a, given) /\ a \in Part
BY DEF Accepted, Answers, PartOf, Part

\* The rows handed over as a part are the chunk with the part's number.
LEMMA SliceIsChunk ==
  ASSUME SplitInv, at = "parts"
  PROVE  /\ Slice(start, End(start)) = Chunk(rows, cap, Len(parts))
         /\ Len(parts) \in Nat
         /\ End(start) = Cardinality(rows) => Cardinality(rows) <= (Len(parts) + 1) * cap
         /\ End(start) # Cardinality(rows) =>
              End(start) = (Len(parts) + 1) * cap /\ End(start) < Cardinality(rows)
<1> DEFINE n == Len(parts)
<1>1. /\ n \in Nat /\ cap \in Nat /\ rows \in SUBSET Timestamps
      /\ start = n * cap /\ start < Cardinality(rows)
  BY DEF SplitInv
<1>2. (n + 1) * cap = n * cap + cap /\ n * cap \in Nat
  BY <1>1, Multiples
<1>3. \A t \in rows : Rank(rows, t) \in Nat /\ Rank(rows, t) < Cardinality(rows)
  BY <1>1, RankType, RankBound
<1>4. Cardinality(rows) \in Nat
  BY <1>1, RankType
<1> HIDE DEF n
<1>5. /\ End(start) = Cardinality(rows) => Cardinality(rows) <= (n + 1) * cap
      /\ End(start) # Cardinality(rows) =>
           End(start) = (n + 1) * cap /\ End(start) < Cardinality(rows)
  BY <1>1, <1>2, <1>4 DEF End
<1>6. \A t \in rows : Rank(rows, t) < End(start) <=> Rank(rows, t) < (n + 1) * cap
  BY <1>1, <1>2, <1>3, <1>4, <1>5
<1>7. Slice(start, End(start)) = Chunk(rows, cap, n)
  BY <1>1, <1>6 DEF Slice, Chunk
<1> QED BY <1>1, <1>5, <1>7 DEF n

LEMMA PartKeepsSplit ==
  ASSUME SplitInv, EncodePart
  PROVE  SplitInv'
<1> DEFINE n == Len(parts)
           c == Chunk(rows, cap, n)
<1>1. at = "parts" /\ rows' = rows /\ cap' = cap /\ start' = End(start)
      /\ at' = (IF start' = Cardinality(rows) THEN "made" ELSE "parts")
  BY DEF EncodePart
<1>2. /\ Slice(start, End(start)) = c /\ n \in Nat
      /\ End(start) = Cardinality(rows) => Cardinality(rows) <= (n + 1) * cap
      /\ End(start) # Cardinality(rows) =>
           End(start) = (n + 1) * cap /\ End(start) < Cardinality(rows)
  BY <1>1, SliceIsChunk
<1>3. PICK a \in Accepted(c) : Meets(c, a, start, End(start)) /\ parts' = Append(parts, a)
  BY <1>2 DEF EncodePart
<1>4. c \in SUBSET Timestamps /\ c \subseteq rows /\ cap \in Nat \ {0} /\ rows \in SUBSET Timestamps
  BY DEF Chunk, SplitInv
<1>5. PartOf(a, c) /\ a \in Part
  BY <1>3, <1>4, AcceptedIsPart
<1>6. /\ parts \in Seq(Part) /\ start = n * cap /\ start < Cardinality(rows)
      /\ cap < Cardinality(rows) /\ Tiled(n + 1)
  BY <1>1 DEF SplitInv
<1> HIDE DEF n
<1>7. /\ parts' \in Seq(Part) /\ Len(parts') = n + 1
      /\ \A i \in 1..n : parts'[i] = parts[i]
      /\ parts'[n + 1] = a
  BY <1>3, <1>5, <1>6 DEF n
<1>8. n > 0 => start # 0
  BY <1>2, <1>4, <1>6, Multiples
<1>9. /\ n + 1 > 1 => IsOldest(a.first, c)
      /\ End(start) # Cardinality(rows) => IsNewest(a.last, c)
  BY <1>2, <1>3, <1>8 DEF Meets
<1>10. ASSUME NEW i \in 1..(n + 1)
       PROVE  LET d == Chunk(rows, cap, i - 1) IN
              /\ PartOf(parts'[i], d)
              /\ i > 1 => IsOldest(parts'[i].first, d)
              /\ i < n + 1 => IsNewest(parts'[i].last, d)
              /\ End(start) # Cardinality(rows) => IsNewest(parts'[i].last, d)
  <2>1. CASE i \in 1..n
    BY <1>6, <1>7, <2>1 DEF Tiled, n
  <2>2. CASE i = n + 1
    <3>1. i - 1 = n
      BY <1>2, <2>2
    <3> QED BY <1>2, <1>5, <1>7, <1>9, <2>2, <3>1
  <2> QED BY <1>2, <2>1, <2>2
<1>11. CASE End(start) = Cardinality(rows)
  <2>1. Tiled(Len(parts))'
    BY <1>1, <1>7, <1>10 DEF Tiled
  <2>2. n >= 1
    <3>1. n = 0 => (n + 1) * cap = cap
      BY <1>4
    <3>2. Cardinality(rows) \in Nat
      BY <1>4, RankType
    <3> QED BY <1>2, <1>4, <1>6, <1>11, <3>1, <3>2
  <2>3. Len(parts') >= 2 /\ Len(parts') - 1 = n
    BY <1>2, <1>7, <2>2
  <2> QED BY <1>1, <1>2, <1>4, <1>6, <1>7, <1>11, <2>1, <2>3 DEF SplitInv
<1>12. CASE End(start) # Cardinality(rows)
  <2>1. Tiled(Len(parts) + 1)'
    BY <1>1, <1>7, <1>10, <1>12 DEF Tiled
  <2> QED BY <1>1, <1>2, <1>4, <1>6, <1>7, <1>12, <2>1 DEF SplitInv
<1> QED BY <1>11, <1>12

LEMMA WholeKeepsSplit ==
  ASSUME SplitInv, EncodeWhole
  PROVE  SplitInv'
<1>1. at' = "made" /\ rows' = rows /\ cap' = cap
  BY DEF EncodeWhole
<1>2. rows \in SUBSET Timestamps /\ cap \in Nat \ {0}
  BY DEF SplitInv
<1>3. PICK a \in Accepted(rows) : parts' = <<a>>
  BY DEF EncodeWhole
<1>4. PartOf(a, rows) /\ a \in Part
  BY <1>2, AcceptedIsPart
<1>5. parts' \in Seq(Part) /\ Len(parts') = 1 /\ parts'[1] = a
  BY <1>3, <1>4
<1> QED BY <1>1, <1>2, <1>4, <1>5 DEF SplitInv

LEMMA NextKeepsSplit ==
  ASSUME SplitInv, Next
  PROVE  SplitInv'
<1>1. CASE Abandon \/ EncoderFails
  <2>1. rows' = rows /\ cap' = cap /\ parts' = <<>> /\ at' \in {"whole", "failed"}
    BY <1>1 DEF Abandon, EncoderFails
  <2> QED BY <2>1 DEF SplitInv
<1>2. CASE NoSegment
  BY <1>2 DEF NoSegment, SplitInv
<1>3. CASE FindLast
  <2>1. /\ rows' = rows /\ cap' = cap /\ parts' = parts /\ at = "made"
        /\ at' = IF parts[Len(parts)].last \in rows THEN "sealed" ELSE "panicked"
    BY <1>3 DEF FindLast
  <2>2. Tiled(Len(parts))' <=> Tiled(Len(parts))
    BY <2>1 DEF Tiled
  <2> QED BY <2>1, <2>2 DEF SplitInv
<1> QED BY <1>1, <1>2, <1>3, PartKeepsSplit, WholeKeepsSplit DEF Next

LEMMA InitSplits == Init => SplitInv
<1> SUFFICES ASSUME Init PROVE SplitInv
  OBVIOUS
<1>1. /\ rows \in SUBSET Timestamps /\ start = 0 /\ parts = <<>>
      /\ at = IF Cardinality(rows) <= cap THEN "whole" ELSE "parts"
  BY DEF Init
<1>2. cap \in Nat \ {0}
  BY SplitSealAssumption DEF Init
<1>3. Cardinality(rows) \in Nat
  BY <1>1, RankType
<1>4. Len(parts) = 0 /\ 1..Len(parts) = {} /\ Len(parts) * cap = 0
  BY <1>1, <1>2
<1>5. at = "parts" => cap < Cardinality(rows) /\ start < Cardinality(rows)
  BY <1>1, <1>2, <1>3
<1> QED BY <1>1, <1>2, <1>4, <1>5 DEF SplitInv, Tiled

LEMMA SplitShape ==
  ASSUME SplitInv
  PROVE  /\ rows \in SUBSET Timestamps /\ cap \in Nat \ {0} /\ Len(parts) \in Nat
         /\ rows \subseteq Int
         /\ at \in {"made", "sealed"} => Len(parts) = 1 \/ Len(parts) >= 2
<1>1. rows \in SUBSET Timestamps /\ cap \in Nat \ {0} /\ parts \in Seq(Part)
  BY DEF SplitInv
<1>2. rows \subseteq Int
  BY <1>1, RankType
<1>3. at \in {"made", "sealed"} => Len(parts) = 1 \/ Len(parts) >= 2
  BY DEF SplitInv
<1> QED BY <1>1, <1>2, <1>3

\* What follows of a split that was kept.
LEMMA PartsInRun ==
  ASSUME SplitInv, at = "sealed", Len(parts) >= 2
  PROVE  /\ Tiled(Len(parts)) /\ Len(parts) \in Nat
         /\ (Len(parts) - 1) * cap < Cardinality(rows)
         /\ Cardinality(rows) <= Len(parts) * cap
BY DEF SplitInv

\* A part's rows are all the live rows in its span.
LEMMA PartIsWhole ==
  ASSUME SplitInv, at = "sealed", NEW i \in 1..Len(parts)
  PROVE  /\ parts[i].rows = {t \in rows : parts[i].first <= t /\ t <= parts[i].last}
         /\ parts[i].first \in Int /\ parts[i].last \in Int
<1>1. rows \in SUBSET Timestamps /\ cap \in Nat \ {0} /\ Len(parts) \in Nat /\ rows \subseteq Int
  BY SplitShape DEF SplitInv
<1>2. CASE Len(parts) = 1
  <2>1. PartOf(parts[1], rows) /\ i = 1
    BY <1>2 DEF SplitInv
  <2> QED BY <2>1, TimestampsAssumption DEF PartOf
<1>3. CASE Len(parts) >= 2
  <2> DEFINE c == Chunk(rows, cap, i - 1)
             p == parts[i]
  <2>1. Tiled(Len(parts)) /\ i - 1 \in Nat
    BY <1>1, <1>3, PartsInRun
  <2>2. PartOf(p, c)
    BY <2>1 DEF Tiled
  <2>3. p.first \in Int /\ p.last \in Int
    BY <2>2, TimestampsAssumption DEF PartOf
  <2>4. PICK o \in c : o <= p.first
    BY <2>2 DEF PartOf
  <2>5. PICK m \in c : p.last <= m
    BY <2>2 DEF PartOf
  <2>6. c \subseteq rows /\ c \subseteq Int
    BY <1>1 DEF Chunk
  <2>7. \A t \in rows : p.first <= t /\ t <= p.last => o <= t /\ t <= m
    BY <1>1, <2>3, <2>4, <2>5, <2>6
  <2>8. \A t \in rows : p.first <= t /\ t <= p.last => t \in c
    BY <1>1, <2>1, <2>4, <2>5, <2>7, Chunks
  <2>9. p.rows = {t \in c : p.first <= t /\ t <= p.last}
    BY <2>2 DEF PartOf
  <2> QED BY <2>3, <2>6, <2>8, <2>9
<1>4. Len(parts) = 1 \/ Len(parts) >= 2
  BY SplitShape
<1> QED BY <1>2, <1>3, <1>4

LEMMA EncodingOfOne ==
  ASSUME SplitInv, at = "sealed", Len(parts) = 1
  PROVE  IsEncoding
<1> DEFINE p == parts[1]
<1>1. PartOf(p, rows) /\ parts[Len(parts)].last \in rows
  BY DEF SplitInv
<1>2. Claimable(rows, p.first, p.last) /\ p.last \in rows
  BY <1>1 DEF PartOf, Claimable
<1>3. {[k |-> i - 1, first |-> parts[i].first, last |-> parts[i].last] : i \in 1..Len(parts)}
        = {[k |-> 0, first |-> p.first, last |-> p.last]}
  <2>1. 1..Len(parts) = {1} /\ 1 - 1 = 0
    OBVIOUS
  <2> QED BY <2>1
<1>4. AsEncoding = Whole(p.first, p.last)
  BY <1>3 DEF AsEncoding, Whole
<1> QED BY <1>2, <1>4 DEF IsEncoding

\* The parts of a kept split lie one after the other, from the first's start.
LEMMA EdgesInOrder ==
  ASSUME SplitInv, at = "sealed", Len(parts) >= 2
  PROVE  LET n == Len(parts)
             f == parts[1].first
             l == parts[n].last
         IN  Claimable(rows, f, l) /\ Splits(rows, cap, f, l, n)
<1> DEFINE n == Len(parts)
           f == parts[1].first
           l == parts[n].last
<1>1. /\ rows \in SUBSET Timestamps /\ cap \in Nat \ {0} /\ n \in Nat /\ rows \subseteq Int
      /\ l \in rows
  BY SplitShape DEF SplitInv
<1>2. /\ Tiled(n) /\ (n - 1) * cap < Cardinality(rows) /\ Cardinality(rows) <= n * cap
      /\ 1 \in 1..n /\ n \in 1..n /\ 1 - 1 = 0 /\ n - 1 \in Nat /\ 0 < n - 1
  BY <1>1, PartsInRun
<1>3. PartOf(parts[1], Chunk(rows, cap, 0)) /\ PartOf(parts[n], Chunk(rows, cap, n - 1))
  BY <1>2 DEF Tiled
<1>4. PICK o \in Chunk(rows, cap, 0), m \in Chunk(rows, cap, 0) :
        o <= f /\ f <= parts[1].last /\ parts[1].last <= m
  BY <1>3 DEF PartOf
<1>5. PICK a \in Chunk(rows, cap, n - 1), z \in Chunk(rows, cap, n - 1) :
        a <= parts[n].first /\ parts[n].first <= l /\ l <= z
  BY <1>3 DEF PartOf
<1>6. f \in Int /\ l \in Int /\ parts[1].last \in Int /\ parts[n].first \in Int
  BY <1>2, PartIsWhole
<1>7. o \in rows /\ m \in rows /\ a \in rows /\ z \in rows /\ m < a
  <2>1. o \in rows /\ m \in rows /\ a \in rows /\ z \in rows
    BY DEF Chunk
  <2>2. PICK k : k = n - 1
    OBVIOUS
  <2>3. k \in Nat /\ 0 \in Nat /\ 0 < k /\ a \in Chunk(rows, cap, k)
    BY <1>2, <2>2
  <2>4. \A i, j \in Nat : \A t \in Chunk(rows, cap, i), u \in Chunk(rows, cap, j) :
          i < j => t < u
    BY <1>1, Chunks
  <2>5. m < a
    BY <2>3, <2>4
  <2> QED BY <2>1, <2>5
<1> HIDE DEF f, l, n
<1>8. o \in Int /\ m \in Int /\ a \in Int /\ z \in Int
  BY <1>1, <1>7
<1>9. f <= m /\ a <= l
  <2>1. PICK p \in Int, q \in Int : p = parts[1].last /\ q = parts[n].first
    BY <1>6
  <2>2. f <= p /\ p <= m
    BY <1>4, <2>1
  <2>3. a <= q /\ q <= l
    BY <1>5, <2>1
  <2> QED BY <1>6, <1>8, <2>2, <2>3
<1>10. f <= l
  BY <1>6, <1>7, <1>8, <1>9
<1>11. l \in Chunk(rows, cap, n - 1)
  BY <1>1, <1>2, <1>5, <1>9, Chunks
<1>12. Claimable(rows, f, l)
  BY <1>4, <1>7, <1>10 DEF Claimable
<1>13. Splits(rows, cap, f, l, n)
  BY <1>2, <1>4, <1>9, <1>11 DEF Splits
<1> QED BY <1>12, <1>13 DEF n, f, l

LEMMA EncodingOfMany ==
  ASSUME SplitInv, at = "sealed", Len(parts) >= 2
  PROVE  IsEncoding
<1> DEFINE n == Len(parts)
           f == parts[1].first
           l == parts[n].last
           part(i) == [k |-> i - 1, first |-> parts[i].first, last |-> parts[i].last]
           Of(p) == LET c == Chunk(rows, cap, p.k)
                    IN  /\ IF p.k = 0 THEN p.first = f ELSE IsOldest(p.first, c)
                        /\ IF p.k = n - 1 THEN p.last = l ELSE IsNewest(p.last, c)
           Room == [k : 0..(n - 1), first : rows \cup {f}, last : rows]
<1>1. /\ rows \in SUBSET Timestamps /\ cap \in Nat \ {0} /\ n \in Nat /\ rows \subseteq Int
      /\ l \in rows
  BY SplitShape DEF SplitInv
<1>2. Tiled(n) /\ n >= 2
  BY PartsInRun
<1>3. \A i : part(i).k = i - 1 /\ part(i).first = parts[i].first /\ part(i).last = parts[i].last
  OBVIOUS
<1> HIDE DEF n, f, l
<1>4. ASSUME NEW i \in 1..n PROVE part(i) \in Room /\ Of(part(i))
  <2> DEFINE c == Chunk(rows, cap, i - 1)
  <2>1. /\ i > 1 => IsOldest(parts[i].first, c)
        /\ i < n => IsNewest(parts[i].last, c)
        /\ c \subseteq rows
    BY <1>2 DEF Tiled, Chunk, n
  <2>2. i - 1 = 0 => i = 1
    BY <1>1
  <2>3. i - 1 = n - 1 => i = n
    BY <1>1
  <2>4. IF i - 1 = 0 THEN parts[i].first = f ELSE IsOldest(parts[i].first, c)
    BY <1>1, <2>1, <2>2 DEF f
  <2>5. IF i - 1 = n - 1 THEN parts[i].last = l ELSE IsNewest(parts[i].last, c)
    BY <1>1, <2>1, <2>3 DEF l
  <2>6. parts[i].first \in rows \cup {f} /\ parts[i].last \in rows
    BY <1>1, <2>1, <2>4, <2>5 DEF IsOldest, IsNewest
  <2>7. i - 1 \in 0..(n - 1)
    BY <1>1
  <2> HIDE DEF c
  <2>8. part(i) \in Room
    BY <2>6, <2>7
  <2>9. Of(part(i))
    BY <1>3, <2>4, <2>5 DEF c
  <2> QED BY <2>8, <2>9
<1>5. ASSUME NEW p \in Room, Of(p) PROVE \E i \in 1..n : p = part(i)
  <2>1. PICK i \in 1..n : p.k = i - 1
    <3>1. p.k \in 0..(n - 1)
      OBVIOUS
    <3>2. p.k + 1 \in 1..n /\ p.k = (p.k + 1) - 1
      BY <1>1, <3>1
    <3> QED BY <3>2
  <2>2. Of(part(i)) /\ part(i) \in Room /\ part(i).k = i - 1
    BY <1>3, <1>4
  <2> DEFINE c == Chunk(rows, cap, i - 1)
             q == part(i)
  <2>3. c \subseteq Int
    BY <1>1 DEF Chunk
  <2> HIDE DEF part, c
  <2>4. \A x, y : IsOldest(x, c) /\ IsOldest(y, c) => x = y
    BY <2>3 DEF IsOldest
  <2>5. \A x, y : IsNewest(x, c) /\ IsNewest(y, c) => x = y
    BY <2>3 DEF IsNewest
  <2>6. p.first = q.first /\ p.last = q.last /\ p.k = q.k
    BY <1>5, <2>1, <2>2, <2>4, <2>5 DEF c
  <2>7. p = [k |-> p.k, first |-> p.first, last |-> p.last]
        /\ q = [k |-> q.k, first |-> q.first, last |-> q.last]
    BY <2>2
  <2> QED BY <2>6, <2>7
<1>6. {part(i) : i \in 1..n} = {p \in Room : Of(p)}
  BY <1>4, <1>5
<1>7. AsEncoding = [parts |-> {part(i) : i \in 1..n}, upto |-> l, count |-> n]
  BY DEF AsEncoding, n, l
<1>8. Tiles(rows, cap, f, l, n) = [parts |-> {p \in Room : Of(p)}, upto |-> l, count |-> n]
  BY DEF Tiles
<1>9. AsEncoding = Tiles(rows, cap, f, l, n)
  BY <1>6, <1>7, <1>8
<1>10. Claimable(rows, f, l) /\ Splits(rows, cap, f, l, n)
  BY <1>2, EdgesInOrder DEF n, f, l
<1>11. n # 1
  BY <1>2
<1> QED BY <1>1, <1>9, <1>10, <1>11 DEF IsEncoding, n, f, l

LEMMA SplitIsEncoding == SplitInv => SealIsEncoding
<1> SUFFICES ASSUME SplitInv, at = "sealed"
             PROVE  /\ IsEncoding
                    /\ \A i \in 1..Len(parts) :
                         parts[i].rows = {t \in rows : parts[i].first <= t /\ t <= parts[i].last}
  BY DEF SealIsEncoding
<1>1. Len(parts) = 1 \/ Len(parts) >= 2
  BY DEF SplitInv
<1> QED BY <1>1, EncodingOfOne, EncodingOfMany, PartIsWhole

LEMMA SplitHidesNothing == SplitInv => NothingHidden
<1> SUFFICES ASSUME SplitInv, at = "sealed", NEW t \in rows,
                    parts[1].first <= t, t <= parts[Len(parts)].last
             PROVE  \E i \in 1..Len(parts) :
                      /\ t \in parts[i].rows
                      /\ \A j \in 1..Len(parts) : t \in parts[j].rows => j = i
  BY DEF NothingHidden
<1>1. /\ rows \in SUBSET Timestamps /\ cap \in Nat \ {0} /\ Len(parts) \in Nat /\ rows \subseteq Int
  BY SplitShape DEF SplitInv
<1>2. CASE Len(parts) = 1
  <2>1. 1 \in 1..Len(parts) /\ \A j \in 1..Len(parts) : j = 1
    BY <1>2
  <2>2. t \in parts[1].rows
    BY <1>2, <2>1, PartIsWhole
  <2> QED BY <2>1, <2>2
<1>3. CASE Len(parts) >= 2
  <2> DEFINE n == Len(parts)
  <2>1. Tiled(n) /\ Cardinality(rows) <= n * cap /\ n \in Nat
    BY <1>3, PartsInRun
  <2> HIDE DEF n
  <2>2. PICK k \in Nat : t \in Chunk(rows, cap, k)
    BY <1>1, Chunks
  <2>3. k < n
    <3> SUFFICES ASSUME ~ k < n PROVE FALSE
      OBVIOUS
    <3>1. n * cap <= k * cap /\ n * cap \in Nat /\ k * cap \in Nat
      <4>1. CASE k = n
        BY <1>1, <2>1, <4>1, Multiples
      <4>2. CASE n < k
        <5>1. (n + 1) * cap <= k * cap /\ (n + 1) * cap = n * cap + cap
              /\ n * cap \in Nat /\ k * cap \in Nat
          BY <1>1, <2>1, <4>2, Multiples
        <5> QED BY <1>1, <5>1
      <4> QED BY <2>1, <4>1, <4>2
    <3>2. k * cap <= Rank(rows, t) /\ Rank(rows, t) < Cardinality(rows)
      BY <1>1, <2>2, RankBound DEF Chunk
    <3>3. Rank(rows, t) \in Nat /\ Cardinality(rows) \in Nat
      BY <1>1, RankType
    <3> QED BY <2>1, <3>1, <3>2, <3>3
  <2>4. PICK i \in 1..n : i - 1 = k
    <3>1. k + 1 \in 1..n /\ (k + 1) - 1 = k
      BY <2>1, <2>3
    <3> QED BY <3>1
  <2>5. t \in parts[i].rows
    <3> DEFINE c == Chunk(rows, cap, i - 1)
    <3>1. /\ PartOf(parts[i], c) /\ t \in c
          /\ i > 1 => IsOldest(parts[i].first, c)
          /\ i < n => IsNewest(parts[i].last, c)
      BY <2>1, <2>2, <2>4 DEF Tiled, n
    <3> HIDE DEF c
    <3>2. parts[i].first <= t
      BY <2>1, <3>1 DEF IsOldest
    <3>3. t <= parts[i].last
      BY <2>1, <3>1 DEF IsNewest, n
    <3> QED BY <3>1, <3>2, <3>3 DEF PartOf
  <2>6. ASSUME NEW j \in 1..n, t \in parts[j].rows PROVE j = i
    <3>1. PartOf(parts[j], Chunk(rows, cap, j - 1)) /\ j - 1 \in Nat
      BY <2>1 DEF Tiled, n
    <3>2. t \in Chunk(rows, cap, j - 1)
      BY <2>6, <3>1 DEF PartOf
    <3>3. ~ (j - 1 < k) /\ ~ (k < j - 1)
      <4>1. t \in Int /\ ~ (t < t)
        BY <1>1
      <4> QED BY <1>1, <2>2, <3>1, <3>2, <4>1, Chunks
    <3> QED BY <2>1, <2>4, <3>1, <3>3
  <2> QED BY <2>5, <2>6 DEF n
<1>4. Len(parts) = 1 \/ Len(parts) >= 2
  BY SplitShape
<1> QED BY <1>2, <1>3, <1>4

(***************************************************************************)
(* Of the loop over the parts on its own: what it gives to be committed is *)
(* one of the encodings a seal may choose from, and holds each live row in *)
(* its span once.  (split_seal, materialize_after)                         *)
(***************************************************************************)
THEOREM SplitsAreEncodings == Spec => [](SealIsEncoding /\ NothingHidden)
<1>1. SplitInv /\ [Next]_vars => SplitInv'
  <2>1. SplitInv /\ UNCHANGED vars => SplitInv'
    BY DEF vars, SplitInv, Tiled
  <2> QED BY <2>1, NextKeepsSplit
<1>2. SplitInv => SealIsEncoding /\ NothingHidden
  BY SplitIsEncoding, SplitHidesNothing
<1> QED BY <1>1, <1>2, InitSplits, PTL DEF Spec

-----------------------------------------------------------------------------
(***************************************************************************)
(* The hand-off: what is being sealed is what is live of its stream, and   *)
(* while a batch is under way no row is added.                             *)
(***************************************************************************)
HandOff ==
  /\ policy \in Policies
  /\ live \in [Streams -> SUBSET Timestamps]
  /\ batch \subseteq Streams /\ coming \subseteq Streams
  /\ phase \in {"wait", "ask", "add", "check"}
  /\ phase # "wait" => now \in Timestamps
  /\ phase \in {"ask", "check"} => Resting
  /\ at = "idle" => start = 0 /\ parts = <<>>
  /\ at # "idle" => batch # {} /\ rows = live[Turn]
  /\ \A m \in made :
       /\ m.str \in Streams \ batch /\ m.rows = live[m.str]
       /\ \A i \in 1..Len(m.parts) : m.parts[i].rows \subseteq m.rows

TurnInv == SplitInv /\ HandOff

LEMMA AtLeastOneIs ==
  ASSUME NEW n \in Nat
  PROVE  AtLeastOne(n) \in Nat \ {0} /\ AtLeastOne(n) >= n /\ (n > 0 => AtLeastOne(n) = n)
BY DEF AtLeastOne

LEMMA TakeKeepsTurn ==
  ASSUME TurnInv, TakeStream
  PROVE  TurnInv'
<1>1. /\ at = "idle" /\ batch # {} /\ parts' = <<>> /\ start' = 0
      /\ rows' = live[Turn] /\ cap' = AtLeastOne(policy.maxRows)
      /\ at' = (CASE live[Turn] = {} -> "nothing"
                  [] Cardinality(live[Turn]) > cap' -> "parts"
                  [] OTHER -> "whole")
      /\ UNCHANGED <<policy, live, batch, made, coming, phase, now>>
  BY DEF TakeStream, TurnInv, HandOff, caller
<1>2. policy.maxRows \in Nat
  BY SealPolicyAssumption DEF TurnInv, HandOff
<1>3. cap' \in Nat \ {0}
  BY <1>1, <1>2, AtLeastOneIs
<1>4. Turn \in Streams /\ Turn' = Turn
  BY <1>1 DEF Turn, TurnInv, HandOff
<1>5. rows' \in SUBSET Timestamps
  BY <1>1, <1>4 DEF TurnInv, HandOff
<1>6. Cardinality(rows') \in Nat
  BY <1>5, RankType
<1>7. at' \in {"nothing", "parts", "whole"} /\ (at' = "parts" => cap' < Cardinality(rows'))
  BY <1>1, <1>3, <1>6
<1>8. Len(parts') = 0 /\ parts' \in Seq(Part) /\ Len(parts') * cap' = 0 /\ 1..Len(parts') = {}
  BY <1>1, <1>3
<1>9. SplitInv'
  <2>1. Tiled(Len(parts) + 1)'
    BY <1>8 DEF Tiled
  <2>2. at' = "parts" => start' = Len(parts') * cap' /\ start' < Cardinality(rows')
    BY <1>1, <1>3, <1>6, <1>7, <1>8
  <2> QED BY <1>3, <1>5, <1>7, <1>8, <2>1, <2>2 DEF SplitInv
<1>10. phase \notin {"ask", "check"}
  BY <1>1 DEF TurnInv, HandOff, Resting
<1>11. HandOff'
  BY <1>1, <1>4, <1>7, <1>10 DEF TurnInv, HandOff
<1> QED BY <1>9, <1>11 DEF TurnInv

LEMMA EncodeKeepsTurn ==
  ASSUME TurnInv, EncodeStep
  PROVE  TurnInv'
<1>1. Next /\ UNCHANGED <<policy, live, batch, made, coming, phase, now>>
  BY DEF EncodeStep, caller
<1>2. at \notin {"idle"} /\ at' # "idle" /\ rows' = rows
  BY <1>1 DEF Next, EncodePart, Abandon, EncodeWhole, NoSegment, EncoderFails, FindLast
<1>3. SplitInv'
  BY <1>1, NextKeepsSplit DEF TurnInv
<1>4. Turn' = Turn
  BY <1>1 DEF Turn
<1>5. HandOff'
  BY <1>1, <1>2, <1>4 DEF TurnInv, HandOff, Resting
<1> QED BY <1>3, <1>5 DEF TurnInv

LEMMA EndKeepsTurn ==
  ASSUME TurnInv, EndTurn
  PROVE  TurnInv'
<1>1. /\ at \in {"sealed", "nothing"} /\ at' = "idle" /\ rows' = {} /\ start' = 0 /\ parts' = <<>>
      /\ batch' = batch \ {Turn} /\ cap' = cap
      /\ UNCHANGED <<policy, live, coming, phase, now>>
  BY DEF EndTurn, caller
<1>2. SplitInv'
  <2>1. cap \in Nat \ {0}
    BY DEF TurnInv, SplitInv
  <2> QED BY <1>1, <2>1 DEF SplitInv
<1>3. batch # {} /\ rows = live[Turn] /\ Turn \in batch /\ batch \subseteq Streams
  BY <1>1 DEF TurnInv, HandOff, Turn
<1>4. phase \notin {"ask", "check"}
  BY <1>1 DEF TurnInv, HandOff, Resting
<1>5. ASSUME NEW m \in made'
      PROVE  /\ m.str \in Streams \ batch' /\ m.rows = live[m.str]
             /\ \A i \in 1..Len(m.parts) : m.parts[i].rows \subseteq m.rows
  <2>1. CASE m \in made
    BY <1>1, <2>1 DEF TurnInv, HandOff
  <2>2. CASE m \notin made
    <3>1. at = "sealed" /\ m = [str |-> Turn, rows |-> rows, parts |-> parts]
      BY <2>2 DEF EndTurn
    <3>2. m.str = Turn /\ m.rows = rows /\ m.parts = parts
      BY <3>1
    <3>3. \A i \in 1..Len(parts) : parts[i].rows \subseteq rows
      BY <3>1, PartIsWhole DEF TurnInv
    <3> QED BY <1>1, <1>3, <3>2, <3>3
  <2> QED BY <2>1, <2>2
<1>6. HandOff'
  BY <1>1, <1>3, <1>4, <1>5 DEF TurnInv, HandOff
<1> QED BY <1>2, <1>6 DEF TurnInv

\* The steps of the caller, and the commit, leave the encoder where it is.
LEMMA CallerKeepsSplit ==
  ASSUME SplitInv, UNCHANGED sealing
  PROVE  SplitInv'
BY DEF SplitInv, sealing, Tiled

LEMMA CallerKeepsTurn ==
  ASSUME TurnInv, TickComes \/ AskFirst \/ AddRows \/ Check \/ CommitBatch
  PROVE  TurnInv'
<1>1. UNCHANGED sealing /\ policy' = policy
  BY DEF TickComes, AskFirst, AddRows, Check, CommitBatch
<1>2. SplitInv'
  BY <1>1, CallerKeepsSplit DEF TurnInv
<1>3. CASE TickComes
  BY <1>1, <1>2, <1>3 DEF TickComes, TurnInv, HandOff, Resting, sealing
<1>4. CASE AskFirst
  <2>1. Resting /\ batch' \subseteq Streams /\ made' = made
    BY <1>4 DEF AskFirst, Ask, TurnInv, HandOff
  <2> QED BY <1>1, <1>2, <1>4, <2>1 DEF AskFirst, TurnInv, HandOff, Resting, sealing
<1>5. CASE AddRows
  <2>1. now \in Timestamps /\ live' \in [Streams -> SUBSET Timestamps]
    BY <1>5 DEF AddRows, TurnInv, HandOff
  <2> QED BY <1>1, <1>2, <1>5, <2>1 DEF AddRows, TurnInv, HandOff, Resting, sealing
<1>6. CASE Check
  <2>1. Resting /\ batch' \subseteq Streams /\ made' = made
    BY <1>6 DEF Check, Ask, TurnInv, HandOff
  <2> QED BY <1>1, <1>2, <1>6, <2>1 DEF Check, TurnInv, HandOff, Resting, sealing
<1>7. CASE CommitBatch
  <2>1. live' \in [Streams -> SUBSET Timestamps]
    BY <1>7 DEF CommitBatch, TurnInv, HandOff
  <2> QED BY <1>1, <1>2, <1>7, <2>1 DEF CommitBatch, TurnInv, HandOff, Resting, sealing, caller
<1> QED BY <1>2, <1>3, <1>4, <1>5, <1>6, <1>7 DEF TurnInv

LEMMA TurnKept == TurnInv /\ [PolicyNext]_policyVars => TurnInv'
<1> SUFFICES ASSUME TurnInv, [PolicyNext]_policyVars PROVE TurnInv'
  OBVIOUS
<1>1. CASE UNCHANGED policyVars
  BY <1>1, CallerKeepsSplit DEF policyVars, caller, sealing, TurnInv, HandOff, Resting, Turn
<1> QED BY <1>1, TakeKeepsTurn, EncodeKeepsTurn, EndKeepsTurn, CallerKeepsTurn DEF PolicyNext

LEMMA PolicyInitTurn == PolicyInit => TurnInv
<1> SUFFICES ASSUME PolicyInit PROVE TurnInv
  OBVIOUS
<1>1. SplitInv
  BY DEF PolicyInit, SplitInv
<1>2. HandOff
  BY DEF PolicyInit, HandOff
<1> QED BY <1>1, <1>2 DEF TurnInv

\* The loop over the parts keeps its invariant between the caller's ticks too,
\* and the batch its live rows.  (seal_batch)
THEOREM TurnHolds == PolicySpec => []TurnInv
BY PolicyInitTurn, TurnKept, PTL DEF PolicySpec

(***************************************************************************)
(* What split_seal gives a batch to commit is one of the encodings the     *)
(* writer's model chooses from, abandoned splits included, and a segment's *)
(* bytes hold every live row inside its span.  (split_seal)                *)
(***************************************************************************)
THEOREM SealsAreEncodings == PolicySpec => []SealIsEncoding
<1>1. TurnInv => SealIsEncoding
  BY SplitIsEncoding DEF TurnInv
<1> QED BY <1>1, TurnHolds, PTL

(***************************************************************************)
(* Whatever the encoder drops, every row that the prune deletes and the    *)
(* watermark hides is in exactly one segment, unless it was dropped at the *)
(* very front: "the parts must tile the run with no gap between them".     *)
(* (split_seal)                                                            *)
(***************************************************************************)
THEOREM SealsHideNothing == PolicySpec => []NothingHidden
<1>1. TurnInv => NothingHidden
  BY SplitHidesNothing DEF TurnInv
<1> QED BY <1>1, TurnHolds, PTL

-----------------------------------------------------------------------------
(***************************************************************************)
(* The clock starts before the first timestamp, and runs past every row.   *)
(***************************************************************************)
LEMMA StartIsBefore ==
  ASSUME Timestamps # {}
  PROVE  Start \in Int /\ \A t \in Timestamps : Start < t
<1>1. Timestamps \in SUBSET Timestamps /\ Timestamps \subseteq Int
  BY TimestampsAssumption
<1> DEFINE T == {Rank(Timestamps, t) : t \in Timestamps}
<1>2. \A t \in Timestamps : Rank(Timestamps, t) \in Nat
  BY <1>1, RankType
<1>3. T \subseteq Nat /\ T # {}
  BY <1>2
<1>4. PICK m \in Timestamps : \A t \in Timestamps : Rank(Timestamps, m) <= Rank(Timestamps, t)
  <2>1. PICK x \in T : \A y \in T : x <= y
    <3> HIDE DEF T
    <3> QED BY <1>3, Least
  <2> QED BY <2>1
<1>5. \A t \in Timestamps : m <= t
  <2> SUFFICES ASSUME NEW t \in Timestamps, t < m PROVE FALSE
    BY <1>1
  <2>1. Rank(Timestamps, t) < Rank(Timestamps, m)
    BY <1>1, RankOrder
  <2> QED BY <1>2, <1>4, <2>1
<1>6. Min(Timestamps) \in Timestamps /\ \A t \in Timestamps : Min(Timestamps) <= t
  BY <1>5 DEF Min
<1>7. PICK k \in Timestamps : k = Min(Timestamps) /\ \A t \in Timestamps : k <= t
  BY <1>6
<1>8. k \in Int /\ \A t \in Timestamps : t \in Int /\ k <= t
  BY <1>1, <1>7
<1>9. Start = k - 1
  BY <1>7 DEF Start
<1> HIDE DEF T
<1> QED BY <1>8, <1>9

Clock ==
  /\ Timestamps # {} =>
       /\ now \in Int /\ Start \in Int /\ Start <= now
       /\ Start + 1 .. now \subseteq Timestamps
  /\ phase # "wait" => Start < now
  /\ \A str \in Streams : \A t \in live[str] :
       t <= now /\ (phase \in {"ask", "add"} => t < now)

LEMMA PolicyInitClock == PolicyInit => Clock
<1> SUFFICES ASSUME PolicyInit, Timestamps # {}
             PROVE  now \in Int /\ Start \in Int /\ Start <= now
                    /\ Start + 1 .. now \subseteq Timestamps
  BY DEF PolicyInit, Clock
<1>1. now = Start /\ Start \in Int
  BY StartIsBefore DEF PolicyInit
<1> HIDE DEF Start
<1> QED BY <1>1

LEMMA ClockKept ==
  ASSUME TurnInv, Clock, [PolicyNext]_policyVars
  PROVE  Clock'
<1>1. \A str \in Streams : live[str] \subseteq Timestamps
  BY DEF TurnInv, HandOff
<1>2. Timestamps \subseteq Int
  BY TimestampsAssumption
<1>3. CASE TickComes
  <2>1. now + 1 \in Timestamps /\ now' = now + 1 /\ live' = live /\ phase = "wait"
    BY <1>3 DEF TickComes
  <2>2. now \in Int /\ Start \in Int /\ Start <= now /\ Start + 1 .. now \subseteq Timestamps
    BY <2>1 DEF Clock
  <2> HIDE DEF Start
  <2>3. /\ now' \in Int /\ Start < now' /\ Start <= now'
        /\ \A t \in Start + 1 .. now' : t \in Start + 1 .. now \/ t = now'
    BY <2>1, <2>2
  <2>4. \A str \in Streams : \A t \in live[str] : t < now' /\ t <= now'
    <3> SUFFICES ASSUME NEW str \in Streams, NEW t \in live[str] PROVE t < now' /\ t <= now'
      OBVIOUS
    <3>1. t <= now /\ t \in Int
      BY <1>1, <1>2 DEF Clock
    <3> QED BY <2>1, <2>2, <3>1
  <2> QED BY <2>1, <2>2, <2>3, <2>4 DEF Clock
<1>4. CASE AddRows
  <2>1. /\ now' = now /\ phase' # "ask" /\ phase' # "add" /\ phase = "add"
        /\ live' = [str \in Streams |->
                      IF str \in coming THEN live[str] \cup {now} ELSE live[str]]
    BY <1>4 DEF AddRows
  <2>2. now \in Int
    BY <1>2, <2>1 DEF TurnInv, HandOff
  <2>3. \A str \in Streams : \A t \in live'[str] : t <= now
    BY <2>1, <2>2 DEF Clock
  <2> QED BY <2>1, <2>3 DEF Clock
<1>5. CASE CommitBatch
  <2>1. now' = now /\ phase' = phase /\ \A str \in Streams : live'[str] \subseteq live[str]
    BY <1>5 DEF CommitBatch, caller
  <2> QED BY <2>1 DEF Clock
<1>6. CASE AskFirst \/ Check
  <2>1. /\ now' = now /\ live' = live
        /\ \/ phase' = "wait"
           \/ phase = "ask" /\ phase' = "add"
    BY <1>6 DEF AskFirst, Check
  <2> QED BY <2>1 DEF Clock
<1>7. CASE TakeStream \/ EncodeStep \/ EndTurn \/ UNCHANGED policyVars
  <2>1. now' = now /\ live' = live /\ phase' = phase
    BY <1>7 DEF TakeStream, EncodeStep, EndTurn, policyVars, caller
  <2> QED BY <2>1 DEF Clock
<1> QED BY <1>3, <1>4, <1>5, <1>6, <1>7 DEF PolicyNext

-----------------------------------------------------------------------------
(***************************************************************************)
(* An account stands for some of the live rows of its stream: as many as   *)
(* it counts, from the bucket it has as its first to the one it has as its *)
(* last; of one bucket if the caller asks before it adds, and of those two *)
(* alone if it checks after every tick.                                    *)
(***************************************************************************)
BucketIn(p, t) == IF p.align > 0 THEN {t \div p.align} ELSE {}

StandsFor(p, h, A, a) ==
  /\ a.rows = Cardinality(A)
  /\ A = {} => a.first = {} /\ a.last = {}
  /\ A # {} => \E t, u \in A : a.first = BucketIn(p, t) /\ a.last = BucketIn(p, u)
  /\ p.asks => \A t \in A : BucketIn(p, t) = a.first
  /\ h # "late" => \A t \in A : BucketIn(p, t) \in {a.first, a.last}

Stands(p, h, L, a) ==
  /\ DOMAIN a = {"rows", "bytes", "opened", "first", "last", "maxRows", "maxBytes", "maxAge"}
  /\ \E A \in SUBSET L : StandsFor(p, h, A, a)

LEMMA BucketsAlike ==
  ASSUME NEW p, NEW t, NEW u
  PROVE  BucketIn(p, t) = {} <=> BucketIn(p, u) = {}
BY DEF BucketIn

LEMMA StandsInit ==
  ASSUME NEW p, NEW h, NEW L, NEW a, a.rows = 0, a.first = {}, a.last = {},
         DOMAIN a = {"rows", "bytes", "opened", "first", "last", "maxRows", "maxBytes", "maxAge"}
  PROVE  Stands(p, h, L, a)
<1>1. {} \in SUBSET L /\ StandsFor(p, h, {}, a)
  BY FS_EmptySet DEF StandsFor
<1> QED BY <1>1 DEF Stands

\* What stands for rows that are none stands for them wherever.
LEMMA StandsMoves ==
  ASSUME NEW p, NEW h, NEW L \in SUBSET Timestamps, NEW a, Stands(p, h, L, a)
  PROVE  /\ a.rows \in Nat
         /\ a.rows = 0 => a.first = {} /\ a.last = {}
         /\ a.first # {} => a.rows > 0
         /\ \A M : L \subseteq M \/ a.rows = 0 => Stands(p, h, M, a)
         /\ \A g : (g # "late" => h # "late") => Stands(p, g, L, a)
<1>1. PICK A \in SUBSET L : StandsFor(p, h, A, a)
  BY DEF Stands
<1>2. A \in SUBSET Timestamps
  OBVIOUS
<1>3. IsFiniteSet(A) /\ Cardinality(A) \in Nat
  BY <1>2, RankType
<1>4. Cardinality(A) = 0 <=> A = {}
  BY <1>3, FS_EmptySet
<1>5. a.rows = Cardinality(A)
  BY <1>1 DEF StandsFor
<1>6. a.rows = 0 => A = {} /\ a.first = {} /\ a.last = {}
  BY <1>1, <1>4, <1>5 DEF StandsFor
<1>7. ASSUME NEW M, L \subseteq M \/ a.rows = 0 PROVE Stands(p, h, M, a)
  <2>1. A \in SUBSET M
    BY <1>6, <1>7
  <2> QED BY <1>1, <2>1 DEF Stands
<1>8. ASSUME NEW g, g # "late" => h # "late" PROVE Stands(p, g, L, a)
  <2>1. StandsFor(p, g, A, a)
    BY <1>1, <1>8 DEF StandsFor
  <2> QED BY <2>1 DEF Stands
<1>9. a.first # {} => a.rows > 0
  BY <1>3, <1>5, <1>6
<1> QED BY <1>3, <1>5, <1>6, <1>7, <1>8, <1>9

\* A row counted is a row more that the account stands for.
LEMMA StandsAdd ==
  ASSUME NEW p, NEW h, NEW L \in SUBSET Timestamps, NEW a, Stands(p, h, L, a),
         NEW n \in Timestamps, n \notin L,
         p.asks => ~ (a.first # {} /\ BucketIn(p, n) # {} /\ BucketIn(p, n) # a.first),
         h # "late" => a.first = a.last,
         NEW b, DOMAIN b = DOMAIN a, b.rows = a.rows + 1, b.last = BucketIn(p, n),
         b.first = IF a.first = {} THEN BucketIn(p, n) ELSE a.first
  PROVE  Stands(p, h, L \cup {n}, b)
<1>1. PICK A \in SUBSET L : StandsFor(p, h, A, a)
  BY DEF Stands
<1> DEFINE B == A \cup {n}
<1>2. A \in SUBSET Timestamps /\ n \notin A
  OBVIOUS
<1>3. IsFiniteSet(A)
  BY <1>2, RankType
<1>4. Cardinality(B) = Cardinality(A) + 1
  BY <1>2, <1>3, FS_AddElement
<1>5. b.rows = Cardinality(B)
  BY <1>1, <1>4 DEF StandsFor
<1>6. \E t, u \in B : b.first = BucketIn(p, t) /\ b.last = BucketIn(p, u)
  <2>1. CASE a.first = {}
    BY <2>1
  <2>2. CASE a.first # {}
    BY <1>1, <2>2 DEF StandsFor
  <2> QED BY <2>1, <2>2
<1>7. ASSUME \A t \in A : BucketIn(p, t) = a.first,
             a.first # {} => BucketIn(p, n) = {} \/ BucketIn(p, n) = a.first
      PROVE  \A t \in B : BucketIn(p, t) = b.first
  <2>1. CASE A = {}
    <3>1. a.first = {}
      BY <1>1, <2>1 DEF StandsFor
    <3> QED BY <2>1, <3>1
  <2>2. CASE A # {}
    <3>1. PICK t \in A : BucketIn(p, t) = a.first
      BY <1>7, <2>2
    <3>2. a.first = {} <=> BucketIn(p, n) = {}
      BY <3>1, BucketsAlike
    <3> QED BY <1>7, <3>2
  <2> QED BY <2>1, <2>2
<1>8. p.asks => \A t \in B : BucketIn(p, t) = b.first
  <2> SUFFICES ASSUME p.asks PROVE \A t \in B : BucketIn(p, t) = b.first
    OBVIOUS
  <2>1. \A t \in A : BucketIn(p, t) = a.first
    BY <1>1 DEF StandsFor
  <2> QED BY <1>7, <2>1
<1>9. h # "late" => \A t \in B : BucketIn(p, t) \in {b.first, b.last}
  <2> SUFFICES ASSUME h # "late", NEW t \in A PROVE BucketIn(p, t) \in {b.first, b.last}
    OBVIOUS
  <2>1. BucketIn(p, t) = a.first
    BY <1>1 DEF StandsFor
  <2>2. a.first = {} => BucketIn(p, n) = {}
    BY <2>1, BucketsAlike
  <2> QED BY <2>1, <2>2
<1>10. StandsFor(p, h, B, b)
  BY <1>5, <1>6, <1>8, <1>9 DEF StandsFor
<1>11. B \in SUBSET (L \cup {n})
  OBVIOUS
<1>12. DOMAIN b = {"rows", "bytes", "opened", "first", "last", "maxRows", "maxBytes", "maxAge"}
  BY DEF Stands
<1> HIDE DEF B
<1> QED BY <1>10, <1>11, <1>12 DEF Stands

-----------------------------------------------------------------------------
(***************************************************************************)
(* The accounts: each stands for live rows of its stream; its targets are  *)
(* staggered while it is the first, and the policy's from then on; what    *)
(* was checked is of one bucket, and so is what is about to get a row if   *)
(* the caller asked.  An account that was asked for stands for rows that   *)
(* are live until the commit, and what replaced it is empty until then.    *)
(***************************************************************************)
Targets(p, a, str) ==
  IF a.opened = Start
    THEN /\ a.maxRows  = AtLeastOne(Less(p.maxRows, Offset(p.maxRows, str)))
         /\ a.maxBytes = AtLeastOne(Less(p.maxBytes, Offset(p.maxBytes, str)))
         /\ a.maxAge   = Less(p.maxAge, Offset(p.maxAge, str))
    ELSE /\ a.opened \in Int /\ Start < a.opened
         /\ a.maxRows = p.maxRows /\ a.maxBytes = p.maxBytes /\ a.maxAge = p.maxAge

Charged(a, str) == a.bytes = RowBytes[str] * a.rows

Kept(a, str) ==
  /\ Stands(policy, habit, live[str], a)
  /\ Targets(policy, a, str)
  /\ Charged(a, str)

Accounts ==
  /\ habit \in {"lockstep", "checks", "late"}
  /\ phase = "ask" => policy.asks
  /\ \A str \in Streams : Kept(account[str], str)
  /\ habit # "late" /\ phase # "check" =>
       \A str \in Streams : account[str].first = account[str].last
  /\ policy.asks /\ phase = "add" =>
       \A str \in coming : ~ StartsNewBucket(account[str], now)
  /\ \A str \in batch : account[str].rows = 0 /\ Kept(asked[str], str)
  /\ \A m \in made : account[m.str].rows = 0 /\ Kept(asked[m.str], m.str)

LEMMA NoneCharged == \A str \in Streams : RowBytes[str] * 0 = 0
<1>1. \A str \in Streams : RowBytes[str] \in Nat
  BY SealPolicyAssumption
<1> QED BY <1>1

LEMMA OneMoreCharged ==
  ASSUME NEW str \in Streams, NEW n \in Nat
  PROVE  RowBytes[str] * (n + 1) = RowBytes[str] * n + RowBytes[str]
<1>1. PICK b \in Nat : b = RowBytes[str]
  BY SealPolicyAssumption
<1>2. b * (n + 1) = b * n + b
  OBVIOUS
<1> QED BY <1>1, <1>2

LEMMA PolicyInitAccounts == PolicyInit => Accounts
<1> SUFFICES ASSUME PolicyInit PROVE Accounts
  OBVIOUS
<1>1. ASSUME NEW str \in Streams
      PROVE  Kept(account[str], str) /\ account[str].first = account[str].last
  <2>1. account[str] = OpenedFirst(str, policy, Start)
    BY DEF PolicyInit
  <2>2. Stands(policy, habit, live[str], account[str])
    BY <2>1, StandsInit DEF OpenedFirst
  <2>3. Targets(policy, account[str], str)
    BY <2>1 DEF OpenedFirst, Targets
  <2>4. account[str].bytes = 0 /\ account[str].rows = 0
    BY <2>1 DEF OpenedFirst
  <2>5. Charged(account[str], str)
    BY <2>4, NoneCharged DEF Charged
  <2> QED BY <2>1, <2>2, <2>3, <2>5 DEF OpenedFirst, Kept
<1> QED BY <1>1 DEF PolicyInit, Accounts

\* What the encoder does is nothing to the accounts, and the end of a turn
\* moves a stream from the batch to what the batch has made.
LEMMA SealingKeepsAccounts ==
  ASSUME TurnInv, Accounts,
         TakeStream \/ EncodeStep \/ EndTurn \/ UNCHANGED policyVars
  PROVE  Accounts'
<1>1. UNCHANGED <<policy, account, live, now, coming, phase, asked, habit>>
  BY DEF TakeStream, EncodeStep, EndTurn, policyVars, caller
<1>2. batch' \subseteq batch
  BY DEF TakeStream, EncodeStep, EndTurn, policyVars
<1>3. \A m \in made' : m \in made \/ m.str \in batch
  <2>1. CASE EndTurn
    <3>1. batch # {}
      BY <2>1 DEF EndTurn, TurnInv, HandOff
    <3>2. Turn \in batch
      BY <3>1 DEF Turn
    <3>3. \A m \in made' : m \in made \/ m = [str |-> Turn, rows |-> rows, parts |-> parts]
      BY <2>1 DEF EndTurn
    <3> QED BY <3>2, <3>3
  <2>2. CASE ~ EndTurn
    BY <2>2 DEF TakeStream, EncodeStep, policyVars
  <2> QED BY <2>1, <2>2
<1>6. \A str \in Streams : Kept(account[str], str)'
  BY <1>1 DEF Kept, Charged, Accounts
<1>7. \A str \in batch' : (account[str].rows = 0 /\ Kept(asked[str], str))'
  BY <1>1, <1>2 DEF Kept, Charged, Accounts
<1>8. \A m \in made' : (account[m.str].rows = 0 /\ Kept(asked[m.str], m.str))'
  BY <1>1, <1>3 DEF Kept, Charged, Accounts
<1>9. (policy.asks /\ phase = "add" =>
       \A str \in coming : ~ StartsNewBucket(account[str], now))'
  BY <1>1 DEF StartsNewBucket, BucketOf, Accounts
<1> QED BY <1>1, <1>6, <1>7, <1>8, <1>9 DEF Accounts

LEMMA TickKeepsAccounts ==
  ASSUME TurnInv, Clock, Accounts, TickComes
  PROVE  Accounts'
<1>1. /\ batch = {} /\ made = {} /\ batch' = {} /\ made' = {} /\ phase = "wait"
      /\ UNCHANGED <<policy, account, live>>
      /\ habit' \in {"lockstep", "checks", "late"}
      /\ (habit' # "late" => habit # "late")
      /\ phase' = IF policy.asks THEN "ask" ELSE "add"
  BY DEF TickComes, Resting, Accounts
<1>2. \A str \in Streams : Kept(account[str], str)'
  <2> SUFFICES ASSUME NEW str \in Streams PROVE Kept(account[str], str)'
    OBVIOUS
  <2>1. /\ Stands(policy, habit, live[str], account[str])
        /\ Targets(policy, account[str], str) /\ Charged(account[str], str)
    BY DEF Accounts, Kept
  <2>2. live[str] \in SUBSET Timestamps
    BY DEF TurnInv, HandOff
  <2>3. Stands(policy, habit', live[str], account[str])
    BY <1>1, <2>1, <2>2, StandsMoves
  <2> QED BY <1>1, <2>1, <2>3 DEF Kept, Charged
<1> QED BY <1>1, <1>2 DEF Accounts

\* What Ask leaves, and what it asks for.
LEMMA AskKeeps ==
  ASSUME TurnInv, Clock, Accounts, phase \in {"ask", "check"},
         NEW strs \in SUBSET Streams, Ask(strs),
         UNCHANGED <<policy, live, now, coming, made, habit>>
  PROVE  /\ made' = {}
         /\ \A str \in Streams : Kept(account[str], str)'
         /\ \A str \in strs :
              /\ account'[str].rows = 0 /\ account'[str].first = {} /\ account'[str].last = {}
         /\ \A str \in Streams \ strs : account'[str] = account[str]
         /\ \A str \in batch' : (account[str].rows = 0 /\ Kept(asked[str], str))'
<1>1. made' = {}
  BY DEF TurnInv, HandOff, Resting
<1>2. /\ batch' = strs
      /\ \A str \in strs : asked'[str] = account[str]
      /\ \A str \in strs : account'[str] = Rotated(account[str])
      /\ \A str \in Streams \ strs : account'[str] = account[str]
  BY DEF Ask
<1>3. now # Start /\ now \in Int /\ Start < now
  <2>1. now \in Timestamps /\ phase # "wait"
    BY DEF TurnInv, HandOff
  <2>2. Start < now /\ Start \in Int /\ now \in Int
    BY <2>1 DEF Clock
  <2> HIDE DEF Start
  <2> QED BY <2>2
<1>4. ASSUME NEW str \in strs
      PROVE  /\ account'[str].rows = 0 /\ account'[str].first = {} /\ account'[str].last = {}
             /\ Kept(account[str], str)'
             /\ Kept(asked[str], str)'
  <2>1. account'[str] = Rotated(account[str])
    BY <1>2
  <2>2. /\ account'[str].rows = 0 /\ account'[str].first = {} /\ account'[str].last = {}
        /\ account'[str].bytes = 0
        /\ DOMAIN account'[str] = {"rows", "bytes", "opened", "first", "last",
                                   "maxRows", "maxBytes", "maxAge"}
        /\ account'[str].opened = now
        /\ account'[str].maxRows = policy.maxRows /\ account'[str].maxBytes = policy.maxBytes
        /\ account'[str].maxAge = policy.maxAge
    BY <2>1 DEF Rotated
  <2>3. Stands(policy, habit, live[str], account'[str])
    BY <2>2, StandsInit
  <2>4. Targets(policy, account'[str], str)
    BY <1>3, <2>2 DEF Targets
  <2>5. Kept(asked[str], str)'
    BY <1>2 DEF Accounts, Kept, Charged
  <2>6. Charged(account'[str], str)
    BY <2>2, NoneCharged DEF Charged
  <2> QED BY <2>2, <2>3, <2>4, <2>5, <2>6 DEF Kept, Charged
<1>5. \A str \in Streams \ strs : Kept(account[str], str)'
  BY <1>2 DEF Accounts, Kept, Charged
<1> QED BY <1>1, <1>2, <1>4, <1>5

LEMMA AskFirstKeepsAccounts ==
  ASSUME TurnInv, Clock, Accounts, AskFirst
  PROVE  Accounts'
<1> DEFINE strs == {str \in coming : StartsNewBucket(account[str], now)}
<1>1. /\ phase = "ask" /\ phase' = "add" /\ Ask(strs)
      /\ UNCHANGED <<policy, live, now, coming, made, habit>>
  BY DEF AskFirst
<1>2. strs \in SUBSET Streams
  BY DEF TurnInv, HandOff
<1>3. \A str \in coming \ strs : ~ StartsNewBucket(account[str], now)
  OBVIOUS
<1>4. coming \subseteq Streams
  BY DEF TurnInv, HandOff
<1> HIDE DEF strs
<1>5. /\ made' = {}
      /\ \A str \in Streams : Kept(account[str], str)'
      /\ \A str \in strs :
           /\ account'[str].rows = 0 /\ account'[str].first = {} /\ account'[str].last = {}
      /\ \A str \in Streams \ strs : account'[str] = account[str]
      /\ \A str \in batch' : (account[str].rows = 0 /\ Kept(asked[str], str))'
  BY <1>1, <1>2, AskKeeps
<1>6. habit' # "late" => \A str \in Streams : account'[str].first = account'[str].last
  <2> SUFFICES ASSUME habit # "late", NEW str \in Streams
               PROVE  account'[str].first = account'[str].last
    BY <1>1
  <2>1. account[str].first = account[str].last
    BY <1>1 DEF Accounts
  <2> QED BY <1>5, <2>1
<1>7. \A str \in coming' : ~ StartsNewBucket(account[str], now)'
  <2> SUFFICES ASSUME NEW str \in coming PROVE ~ StartsNewBucket(account[str], now)'
    BY <1>1
  <2>1. CASE str \in strs
    BY <1>5, <2>1 DEF StartsNewBucket
  <2>2. CASE str \notin strs
    <3>1. account'[str] = account[str] /\ ~ StartsNewBucket(account[str], now)
      BY <1>3, <1>4, <1>5, <2>2
    <3> QED BY <1>1, <3>1 DEF StartsNewBucket, BucketOf
  <2> QED BY <2>1, <2>2
<1> QED BY <1>1, <1>5, <1>6, <1>7 DEF Accounts

LEMMA CheckKeepsAccounts ==
  ASSUME TurnInv, Clock, Accounts, Check
  PROVE  Accounts'
<1> DEFINE strs == {str \in Streams : IsDue(account[str])}
<1>1. /\ phase = "check" /\ phase' = "wait" /\ Ask(strs)
      /\ UNCHANGED <<policy, live, now, coming, made, habit>>
  BY DEF Check
<1>2. strs \in SUBSET Streams
  OBVIOUS
<1>3. \A str \in Streams \ strs : ~ IsDue(account[str])
  OBVIOUS
<1> HIDE DEF strs
<1>5. /\ made' = {}
      /\ \A str \in Streams : Kept(account[str], str)'
      /\ \A str \in strs :
           /\ account'[str].rows = 0 /\ account'[str].first = {} /\ account'[str].last = {}
      /\ \A str \in Streams \ strs : account'[str] = account[str]
      /\ \A str \in batch' : (account[str].rows = 0 /\ Kept(asked[str], str))'
  BY <1>1, <1>2, AskKeeps
<1>6. \A str \in Streams : account'[str].first = account'[str].last
  <2> SUFFICES ASSUME NEW str \in Streams \ strs
               PROVE  account[str].first = account[str].last
    BY <1>5
  <2>1. Stands(policy, habit, live[str], account[str])
    BY DEF Accounts, Kept
  <2>2. live[str] \in SUBSET Timestamps
    BY DEF TurnInv, HandOff
  <2>3. /\ account[str].rows \in Nat
        /\ account[str].rows = 0 => account[str].first = {} /\ account[str].last = {}
    BY <2>1, <2>2, StandsMoves
  <2>4. ~ (account[str].rows > 0) \/ account[str].first = account[str].last
    BY <1>3 DEF IsDue
  <2> QED BY <2>3, <2>4
<1> QED BY <1>1, <1>5, <1>6 DEF Accounts

LEMMA AddKeepsAccounts ==
  ASSUME TurnInv, Clock, Accounts, AddRows
  PROVE  Accounts'
<1>1. /\ phase = "add" /\ phase' \in {"check", "wait"} /\ now' = now /\ policy' = policy
      /\ batch' = {} /\ made' = {}
      /\ habit' \in {habit, "late"}
      /\ phase' = "check" \/ habit' = "late"
  BY DEF AddRows, Resting
<1>2. \A str \in Streams :
        IF str \in coming
          THEN /\ live'[str] = live[str] \cup {now}
               /\ account'[str] = Added(account[str], RowBytes[str], now)
          ELSE live'[str] = live[str] /\ account'[str] = account[str]
  BY DEF AddRows
<1>3. now \in Timestamps /\ \A str \in Streams : live[str] \in SUBSET Timestamps
  BY <1>1 DEF TurnInv, HandOff
<1>4. \A str \in Streams : now \notin live[str]
  <2>1. now \in Int
    BY <1>3, TimestampsAssumption
  <2> QED BY <1>1, <2>1 DEF Clock
<1>5. ASSUME NEW str \in Streams PROVE Kept(account[str], str)'
  <2> DEFINE a == account[str]
             b == account'[str]
  <2>1. Stands(policy, habit, live[str], a) /\ Targets(policy, a, str) /\ Charged(a, str)
    BY DEF Accounts, Kept
  <2>2. DOMAIN a = {"rows", "bytes", "opened", "first", "last", "maxRows", "maxBytes", "maxAge"}
    BY <2>1 DEF Stands
  <2>3. CASE str \in coming
    <3>1. b = Added(a, RowBytes[str], now)
      BY <1>2, <2>3
    <3>2. BucketOf(now) = BucketIn(policy, now)
      BY DEF BucketOf, BucketIn
    <3>3. /\ DOMAIN b = DOMAIN a /\ b.rows = a.rows + 1 /\ b.last = BucketIn(policy, now)
          /\ b.first = IF a.first = {} THEN BucketIn(policy, now) ELSE a.first
          /\ b.bytes = a.bytes + RowBytes[str]
          /\ b.opened = a.opened /\ b.maxRows = a.maxRows /\ b.maxBytes = a.maxBytes
          /\ b.maxAge = a.maxAge
      <4> HIDE DEF a, b
      <4> QED BY <2>2, <3>1, <3>2 DEF Added
    <3>4. policy.asks =>
            ~ (a.first # {} /\ BucketIn(policy, now) # {} /\ BucketIn(policy, now) # a.first)
      BY <1>1, <2>3, <3>2 DEF Accounts, StartsNewBucket
    <3>5. habit # "late" => a.first = a.last
      BY <1>1 DEF Accounts
    <3>6. Stands(policy, habit, live[str] \cup {now}, b)
      <4>1. live[str] \in SUBSET Timestamps /\ now \in Timestamps /\ now \notin live[str]
        BY <1>3, <1>4
      <4> HIDE DEF a, b
      <4> QED BY <2>1, <3>3, <3>4, <3>5, <4>1, StandsAdd
    <3>7. Stands(policy, habit', live'[str], b)
      <4>1. live'[str] = live[str] \cup {now} /\ live'[str] \in SUBSET Timestamps
        BY <1>2, <1>3, <2>3
      <4>2. habit' # "late" => habit # "late"
        BY <1>1
      <4>3. Stands(policy, habit, live'[str], b)
        BY <3>6, <4>1
      <4> HIDE DEF b
      <4> QED BY <4>1, <4>2, <4>3, StandsMoves
    <3>8. Targets(policy, b, str)
      <4> HIDE DEF a, b
      <4> QED BY <2>1, <3>3 DEF Targets
    <3>9. Charged(b, str)
      <4>1. a.rows \in Nat
        <5>1. live[str] \in SUBSET Timestamps
          BY <1>3
        <5> HIDE DEF a
        <5> QED BY <2>1, <5>1, StandsMoves
      <4> HIDE DEF a, b
      <4>2. RowBytes[str] * (a.rows + 1) = RowBytes[str] * a.rows + RowBytes[str]
        BY <4>1, OneMoreCharged
      <4> QED BY <2>1, <3>3, <4>2 DEF Charged
    <3> QED BY <1>1, <3>7, <3>8, <3>9 DEF Kept, Charged
  <2>4. CASE str \notin coming
    <3>1. habit' # "late" => habit # "late"
      BY <1>1
    <3>2. live[str] \in SUBSET Timestamps
      BY <1>3
    <3>3. Stands(policy, habit', live[str], a)
      <4> HIDE DEF a
      <4> QED BY <2>1, <3>1, <3>2, StandsMoves
    <3> QED BY <1>1, <1>2, <2>1, <2>4, <3>3 DEF Kept, Charged
  <2> QED BY <2>3, <2>4
<1>6. habit' \in {"lockstep", "checks", "late"}
  BY <1>1 DEF Accounts
<1> QED BY <1>1, <1>5, <1>6 DEF Accounts

\* The commit takes rows only from streams whose account is empty.
LEMMA CommitKeepsAccounts ==
  ASSUME TurnInv, Accounts, CommitBatch
  PROVE  Accounts'
<1>1. /\ batch = {} /\ batch' = {} /\ made' = {}
      /\ UNCHANGED <<policy, account, now, coming, phase, habit>>
  BY DEF CommitBatch, caller
<1>2. ASSUME NEW str \in Streams PROVE Kept(account[str], str)'
  <2>1. /\ Stands(policy, habit, live[str], account[str])
        /\ Targets(policy, account[str], str) /\ Charged(account[str], str)
    BY DEF Accounts, Kept
  <2>2. live[str] \in SUBSET Timestamps
    BY DEF TurnInv, HandOff
  <2>3. live'[str] = {t \in live[str] :
                        \A m \in made : m.str = str => m.parts[Len(m.parts)].last < t}
    BY DEF CommitBatch
  <2>4. live[str] \subseteq live'[str] \/ account[str].rows = 0
    <3>1. CASE \E m \in made : m.str = str
      BY <3>1 DEF Accounts
    <3>2. CASE ~ \E m \in made : m.str = str
      BY <2>3, <3>2
    <3> QED BY <3>1, <3>2
  <2>5. Stands(policy, habit, live'[str], account[str])
    BY <2>1, <2>2, <2>4, StandsMoves
  <2> QED BY <1>1, <2>1, <2>5 DEF Kept, Charged
<1>3. (policy.asks /\ phase = "add" =>
       \A str \in coming : ~ StartsNewBucket(account[str], now))'
  BY <1>1 DEF StartsNewBucket, BucketOf, Accounts
<1> QED BY <1>1, <1>2, <1>3 DEF Accounts

AccountsInv == TurnInv /\ Clock /\ Accounts

LEMMA AccountsKept == AccountsInv /\ [PolicyNext]_policyVars => AccountsInv'
<1> SUFFICES ASSUME TurnInv, Clock, Accounts, [PolicyNext]_policyVars
             PROVE  TurnInv' /\ Clock' /\ Accounts'
  BY DEF AccountsInv
<1>1. TurnInv'
  BY TurnKept
<1>2. Clock'
  BY ClockKept
<1>3. Accounts'
  BY SealingKeepsAccounts, TickKeepsAccounts, AskFirstKeepsAccounts, CheckKeepsAccounts,
     AddKeepsAccounts, CommitKeepsAccounts DEF PolicyNext
<1> QED BY <1>1, <1>2, <1>3

(***************************************************************************)
(* An account stands for rows that are live of its stream, whatever the    *)
(* order of ticks, checks, seals and commits: the caller rotates it when   *)
(* it asks for the seal and not when the seal is done, and loses no count  *)
(* by it.  (SegmentAccount)                                                *)
(***************************************************************************)
THEOREM AccountsStand == PolicySpec => []AccountsInv
<1>1. PolicyInit => AccountsInv
  BY PolicyInitTurn, PolicyInitClock, PolicyInitAccounts DEF AccountsInv
<1> QED BY <1>1, AccountsKept, PTL DEF PolicySpec

-----------------------------------------------------------------------------
(***************************************************************************)
(* What an account that has counted every live row says of the rows'       *)
(* buckets.                                                                *)
(***************************************************************************)
LEMMA AtMostOne ==
  ASSUME NEW x, NEW S \in SUBSET {x}
  PROVE  Cardinality(S) <= 1
<1>2. IsFiniteSet({x}) /\ Cardinality({x}) = 1
  BY FS_Singleton
<1>3. Cardinality(S) \in Nat /\ Cardinality(S) <= Cardinality({x})
  BY <1>2, FS_Subset, FS_CardinalityType
<1> QED BY <1>2, <1>3

LEMMA AtMostTwo ==
  ASSUME NEW x, NEW z, NEW S \in SUBSET {x, z}
  PROVE  Cardinality(S) <= 2
<1>1. S \subseteq {x} \cup {z}
  OBVIOUS
<1>2. IsFiniteSet({x}) /\ Cardinality({x}) = 1
  BY FS_Singleton
<1>3. IsFiniteSet({x} \cup {z}) /\ Cardinality({x} \cup {z}) \in {1, 2}
  BY <1>2, FS_AddElement
<1>4. Cardinality(S) \in Nat /\ Cardinality(S) <= Cardinality({x} \cup {z})
  BY <1>1, <1>3, FS_Subset, FS_CardinalityType
<1> QED BY <1>3, <1>4

LEMMA AllCounted ==
  ASSUME NEW p, NEW h, NEW L \in SUBSET Timestamps, NEW a, Stands(p, h, L, a),
         a.rows = Cardinality(L)
  PROVE  StandsFor(p, h, L, a)
<1>1. PICK A \in SUBSET L : StandsFor(p, h, A, a)
  BY DEF Stands
<1>2. IsFiniteSet(L)
  BY RankType
<1>3. Cardinality(A) = Cardinality(L)
  BY <1>1 DEF StandsFor
<1>4. A = L
  BY <1>2, <1>3, FS_Subset
<1> QED BY <1>1, <1>4

(***************************************************************************)
(* Under alignment a segment holds rows of one bucket if the caller asked  *)
(* before each row, of two at most if it checks after each tick, on either *)
(* side of the epoch, as long as the account has counted every live row.   *)
(* (SealPolicy.align)                                                      *)
(***************************************************************************)
THEOREM SegmentsKeepBuckets == PolicySpec => []BucketsKept
<1>1. AccountsInv => BucketsKept
  <2> SUFFICES ASSUME AccountsInv, NEW m \in made, policy.align > 0,
                      asked[m.str].rows = Cardinality(m.rows),
                      NEW i \in 1..Len(m.parts)
               PROVE  /\ policy.asks => Spanned(m.parts[i].rows) <= 1
                      /\ habit # "late" => Spanned(m.parts[i].rows) <= 2
    BY DEF BucketsKept
  <2> DEFINE a == asked[m.str]
             L == live[m.str]
             S == m.parts[i].rows
  <2>1. m.str \in Streams /\ m.rows = L /\ S \subseteq L /\ L \in SUBSET Timestamps
    BY DEF AccountsInv, TurnInv, HandOff
  <2>2. Stands(policy, habit, L, a)
    BY DEF AccountsInv, Accounts, Kept
  <2>3. StandsFor(policy, habit, L, a)
    <3>1. a.rows = Cardinality(L)
      BY <2>1
    <3> HIDE DEF a, L
    <3> QED BY <2>1, <2>2, <3>1, AllCounted
  <2> HIDE DEF a, L, S
  <2>0. PICK Q : Q = {t \div policy.align : t \in S}
    OBVIOUS
  <2>4. \A t : BucketIn(policy, t) = {t \div policy.align}
    BY DEF BucketIn
  <2>5. ASSUME policy.asks PROVE Cardinality(Q) <= 1
    <3>1. \A y \in Q : {y} = a.first
      BY <2>0, <2>1, <2>3, <2>4, <2>5 DEF StandsFor
    <3>2. PICK x : Q \in SUBSET {x}
      <4>1. CASE Q = {}
        BY <4>1
      <4>2. CASE Q # {}
        <5>1. PICK x \in Q : TRUE
          BY <4>2
        <5>2. \A y \in Q : {y} = {x}
          BY <3>1
        <5>3. Q \in SUBSET {x}
          BY <5>2
        <5> QED BY <5>3
      <4> QED BY <4>1, <4>2
    <3> QED BY <3>2, AtMostOne
  <2>6. ASSUME habit # "late" PROVE Cardinality(Q) <= 2
    <3>1. \A y \in Q : {y} = a.first \/ {y} = a.last
      BY <2>0, <2>1, <2>3, <2>4, <2>6 DEF StandsFor
    <3>2. L # {} => \E x, z : a.first = {x} /\ a.last = {z}
      BY <2>3, <2>4 DEF StandsFor
    <3>3. PICK x, z : Q \in SUBSET {x, z}
      <4>1. CASE L = {}
        BY <2>0, <2>1, <4>1
      <4>2. CASE L # {}
        <5>1. PICK x, z : a.first = {x} /\ a.last = {z}
          BY <3>2, <4>2
        <5>2. \A y \in Q : {y} = {x} \/ {y} = {z}
          BY <3>1, <5>1
        <5>3. Q \in SUBSET {x, z}
          BY <5>2
        <5> QED BY <5>3
      <4> QED BY <4>1, <4>2
    <3> QED BY <3>3, AtMostTwo
  <2> QED BY <2>0, <2>5, <2>6 DEF Spanned, S
<1> QED BY <1>1, AccountsStand, PTL

-----------------------------------------------------------------------------
(***************************************************************************)
(* The stagger takes off less than half of a target.                       *)
(***************************************************************************)
LEMMA TimesMonotone ==
  ASSUME NEW q \in Nat, NEW x \in Nat, NEW y \in Nat, x <= y
  PROVE  q * x \in Nat /\ q * x <= q * y
<1>1. PICK d \in Nat : y = x + d
  <2>1. y - x \in Nat /\ y = x + (y - x)
    OBVIOUS
  <2> QED BY <2>1
<1>2. q * x \in Nat /\ q * d \in Nat
  OBVIOUS
<1>3. q * (x + d) = q * x + q * d
  OBVIOUS
<1> QED BY <1>1, <1>2, <1>3

LEMMA HalfTaken ==
  ASSUME NEW str \in Streams, NEW n \in Nat
  PROVE  Offset(n, str) \in Nat /\ 2 * Offset(n, str) <= n
<1>1. PICK sb \in Nat \ {0} : sb = StaggerBuckets
  BY SealPolicyAssumption
<1>2. PICK b \in Nat : b = Bucket[str] /\ b <= sb
  <2>1. Bucket[str] \in 0..(sb - 1)
    BY <1>1, SealPolicyAssumption
  <2> QED BY <2>1
<1>3. PICK c \in Nat \ {0} : c = 2 * sb
  <2>1. 2 * sb \in Nat \ {0}
    OBVIOUS
  <2> QED BY <2>1
<1>4. n \div c \in Nat /\ c * (n \div c) <= n
  OBVIOUS
<1>5. PICK q \in Nat : q = n \div c
  BY <1>4
<1>6. c * q <= n
  BY <1>4, <1>5
<1>7. q * b \in Nat /\ q * b <= q * sb
  BY <1>2, TimesMonotone
<1>8. c * q = 2 * (q * sb) /\ q * sb \in Nat
  BY <1>3
<1>9. 2 * (q * b) <= n
  BY <1>6, <1>7, <1>8
<1> QED BY <1>1, <1>2, <1>3, <1>5, <1>7, <1>9 DEF Offset

LEMMA HalfLeft ==
  ASSUME NEW str \in Streams, NEW n \in Nat
  PROVE  /\ Less(n, Offset(n, str)) \in Nat /\ 2 * Less(n, Offset(n, str)) >= n
         /\ AtLeastOne(Less(n, Offset(n, str))) \in Nat
         /\ 2 * AtLeastOne(Less(n, Offset(n, str))) >= n
<1>1. PICK o \in Nat : o = Offset(n, str) /\ 2 * o <= n
  BY HalfTaken
<1>2. ~ o > n /\ n - o \in Nat /\ 2 * (n - o) >= n
  BY <1>1
<1>3. Less(n, o) = n - o
  BY <1>2 DEF Less
<1>4. AtLeastOne(n - o) \in Nat /\ AtLeastOne(n - o) >= n - o
  BY <1>2, AtLeastOneIs
<1> QED BY <1>1, <1>2, <1>3, <1>4

\* What a seal is asked for on was due, or at a boundary.
Reasons(a, str) ==
  LET of == IF a.opened = Start THEN 2 ELSE 1
  IN  /\ a.rows > 0
      /\ \/ of * a.rows >= policy.maxRows
         \/ of * a.bytes >= policy.maxBytes
         \/ of * (now - a.opened) >= policy.maxAge
         \/ \E t, u \in live[str] \cup {now} : Apart(t, u)

LEMMA BoundaryIsAReason ==
  ASSUME AccountsInv, NEW str \in coming, StartsNewBucket(account[str], now)
  PROVE  Reasons(account[str], str)
<1> DEFINE a == account[str]
           L == live[str]
<1>1. str \in Streams /\ L \in SUBSET Timestamps
  BY DEF AccountsInv, TurnInv, HandOff
<1>2. Stands(policy, habit, L, a)
  BY <1>1 DEF AccountsInv, Accounts, Kept
<1>3. a.first # {} /\ BucketIn(policy, now) # {} /\ BucketIn(policy, now) # a.first
  BY DEF StartsNewBucket, BucketOf, BucketIn
<1>4. a.rows \in Nat /\ a.rows > 0
  <2> HIDE DEF a, L
  <2> QED BY <1>1, <1>2, <1>3, StandsMoves
<1>5. PICK t \in L : a.first = BucketIn(policy, t)
  <2>1. PICK A \in SUBSET L : StandsFor(policy, habit, A, a)
    BY <1>2 DEF Stands
  <2> QED BY <1>3, <2>1 DEF StandsFor
<1>6. Apart(t, now)
  BY <1>3, <1>5 DEF Apart, BucketIn
<1>7. \E v, u \in L \cup {now} : Apart(v, u)
  BY <1>6
<1> QED BY <1>4, <1>7 DEF Reasons

LEMMA DueIsAReason ==
  ASSUME AccountsInv, phase = "check", NEW str \in Streams, IsDue(account[str])
  PROVE  Reasons(account[str], str)
<1> DEFINE L == live[str]
<1>0. PICK a : a = account[str]
  OBVIOUS
<1>1. L \in SUBSET Timestamps /\ now \in Timestamps /\ policy \in Policies
  BY DEF AccountsInv, TurnInv, HandOff
<1>2. Stands(policy, habit, L, a) /\ Targets(policy, a, str) /\ Charged(a, str)
  BY <1>0 DEF AccountsInv, Accounts, Kept, Charged
<1>3. /\ a.rows > 0
      /\ \/ a.bytes >= a.maxBytes
         \/ a.rows >= a.maxRows
         \/ now - a.opened >= a.maxAge
         \/ a.first # a.last
  BY <1>0 DEF IsDue
<1>4. a.rows \in Nat
  <2> HIDE DEF L
  <2> QED BY <1>1, <1>2, StandsMoves
<1>5. a.bytes \in Nat
  <2>1. PICK b \in Nat : b = RowBytes[str]
    BY SealPolicyAssumption
  <2>2. b * a.rows \in Nat
    BY <1>4
  <2> QED BY <1>2, <2>1, <2>2 DEF Charged
<1>6. a.opened \in Int /\ now \in Int
  <2>1. Start \in Int /\ now \in Int
    BY <1>1, TimestampsAssumption, StartIsBefore
  <2> QED BY <1>2, <2>1 DEF Targets
<1>7. policy.maxRows \in Nat /\ policy.maxBytes \in Nat /\ policy.maxAge \in Nat
  BY <1>1, SealPolicyAssumption
<1>8. CASE a.first # a.last
  <2>1. PICK A \in SUBSET L : StandsFor(policy, habit, A, a)
    BY <1>2 DEF Stands
  <2>2. PICK t \in L, u \in L : a.first = BucketIn(policy, t) /\ a.last = BucketIn(policy, u)
    BY <1>8, <2>1 DEF StandsFor
  <2>3. Apart(t, u)
    BY <1>8, <2>2 DEF Apart, BucketIn
  <2>4. \E v, w \in live[str] \cup {now} : Apart(v, w)
    BY <2>3
  <2> QED BY <1>0, <1>3, <2>4 DEF Reasons
<1>9. CASE a.first = a.last
  <2> DEFINE of == IF a.opened = Start THEN 2 ELSE 1
  <2>1. /\ a.maxRows \in Nat /\ of * a.maxRows >= policy.maxRows
        /\ a.maxBytes \in Nat /\ of * a.maxBytes >= policy.maxBytes
        /\ a.maxAge \in Nat /\ of * a.maxAge >= policy.maxAge
    <3>1. CASE a.opened = Start
      <4>1. /\ a.maxRows  = AtLeastOne(Less(policy.maxRows, Offset(policy.maxRows, str)))
            /\ a.maxBytes = AtLeastOne(Less(policy.maxBytes, Offset(policy.maxBytes, str)))
            /\ a.maxAge   = Less(policy.maxAge, Offset(policy.maxAge, str))
        BY <1>2, <3>1 DEF Targets
      <4>2. /\ a.maxRows \in Nat /\ 2 * a.maxRows >= policy.maxRows
            /\ a.maxBytes \in Nat /\ 2 * a.maxBytes >= policy.maxBytes
            /\ a.maxAge \in Nat /\ 2 * a.maxAge >= policy.maxAge
        BY <1>7, <4>1, HalfLeft
      <4> QED BY <3>1, <4>2
    <3>2. CASE a.opened # Start
      <4>1. /\ a.maxRows  = policy.maxRows /\ a.maxBytes = policy.maxBytes
            /\ a.maxAge   = policy.maxAge
        BY <1>2, <3>2 DEF Targets
      <4> QED BY <1>7, <3>2, <4>1
    <3> QED BY <3>1, <3>2
  <2>2. of \in {1, 2} /\ now - a.opened \in Int
    BY <1>6
  <2> HIDE DEF of
  <2>3. \/ of * a.rows >= policy.maxRows
        \/ of * a.bytes >= policy.maxBytes
        \/ of * (now - a.opened) >= policy.maxAge
    <3>1. \/ a.bytes >= a.maxBytes
          \/ a.rows >= a.maxRows
          \/ now - a.opened >= a.maxAge
      BY <1>3, <1>9
    <3> QED BY <1>4, <1>5, <1>7, <2>1, <2>2, <3>1
  <2> QED BY <1>0, <1>3, <2>3 DEF Reasons, of
<1> QED BY <1>8, <1>9

LEMMA EarnedKept == AccountsInv /\ SealsAreEarned /\ [PolicyNext]_policyVars => SealsAreEarned'
<1> SUFFICES ASSUME AccountsInv, SealsAreEarned, [PolicyNext]_policyVars,
                    NEW str \in batch'
             PROVE  Reasons(asked[str], str)'
  BY DEF SealsAreEarned, Reasons
<1>1. CASE TakeStream \/ EncodeStep \/ EndTurn \/ UNCHANGED policyVars
  <2>1. UNCHANGED <<policy, live, now, asked>> /\ str \in batch
    BY <1>1 DEF TakeStream, EncodeStep, EndTurn, policyVars, caller
  <2>2. Reasons(asked[str], str)
    BY <2>1 DEF SealsAreEarned, Reasons
  <2> QED BY <2>1, <2>2 DEF Reasons, Apart
<1>2. CASE TickComes \/ AddRows \/ CommitBatch
  BY <1>2 DEF TickComes, AddRows, CommitBatch, Resting
<1>3. CASE AskFirst
  <2>1. /\ UNCHANGED <<policy, live, now>> /\ str \in coming
        /\ StartsNewBucket(account[str], now) /\ asked'[str] = account[str]
    BY <1>3 DEF AskFirst, Ask
  <2>2. Reasons(account[str], str)
    BY <2>1, BoundaryIsAReason
  <2> QED BY <2>1, <2>2 DEF Reasons, Apart
<1>4. CASE Check
  <2>1. /\ UNCHANGED <<policy, live, now>> /\ str \in Streams /\ phase = "check"
        /\ IsDue(account[str]) /\ asked'[str] = account[str]
    BY <1>4 DEF Check, Ask
  <2>2. Reasons(account[str], str)
    BY <2>1, DueIsAReason
  <2> QED BY <2>1, <2>2 DEF Reasons, Apart
<1> QED BY <1>1, <1>2, <1>3, <1>4 DEF PolicyNext

(***************************************************************************)
(* A seal is asked for a reason: there is a row, and a cap or the age has  *)
(* been reached, or half of it in the stream's first segment, or the rows  *)
(* are at a boundary; whatever the policy and the stagger, and however     *)
(* late the caller is.  (open_first, rotate)                               *)
(***************************************************************************)
THEOREM SealsHaveReasons == PolicySpec => []SealsAreEarned
<1>1. PolicyInit => SealsAreEarned
  BY DEF PolicyInit, SealsAreEarned
<1> QED BY <1>1, EarnedKept, AccountsStand, PTL DEF PolicySpec

-----------------------------------------------------------------------------
(***************************************************************************)
(* Streams bound by the row cap: how many rows each has left, and by how   *)
(* much one stream is ahead of another, which a seal of either changes by  *)
(* one whole cap.                                                          *)
(***************************************************************************)
Left(str) == account[str].maxRows - account[str].rows

Ahead(s, u) == Offset(policy.maxRows, u) - Offset(policy.maxRows, s)

Spaced ==
  RowBound /\ habit = "lockstep" =>
    /\ phase \in {"ask", "add"} => coming = Streams
    /\ \A str \in Streams :
         Left(str) \in 0..policy.maxRows /\ (phase # "check" => Left(str) > 0)
    /\ \A s, u \in Streams :
         Left(s) - Left(u) \in {Ahead(s, u), Ahead(s, u) + policy.maxRows,
                                Ahead(s, u) - policy.maxRows}
    /\ \A s, u \in batch : Bucket[s] # Bucket[u] => s = u

LEMMA TimesApart ==
  ASSUME NEW q \in Nat \ {0}, NEW x \in Nat, NEW y \in Nat, q * x = q * y
  PROVE  x = y
<1>1. ASSUME NEW v \in Nat, NEW w \in Nat, v < w PROVE q * v < q * w
  <2>1. PICK d \in Nat \ {0} : w = v + d
    <3>1. w - v \in Nat \ {0} /\ w = v + (w - v)
      BY <1>1
    <3> QED BY <3>1
  <2>2. q * v \in Nat /\ q * d \in Nat \ {0}
    OBVIOUS
  <2>3. q * (v + d) = q * v + q * d
    OBVIOUS
  <2> QED BY <2>1, <2>2, <2>3
<1>2. ~ x < y /\ ~ y < x
  <2>1. q * x \in Nat /\ q * y \in Nat
    OBVIOUS
  <2> QED BY <1>1, <2>1
<1> QED BY <1>2

\* Streams with different staggers are ahead of each other by less than a
\* cap, and not by nothing.
LEMMA OffsetsApart ==
  ASSUME NEW n \in Nat, n >= 2 * StaggerBuckets, NEW s \in Streams, NEW u \in Streams
  PROVE  /\ Offset(n, s) \in 0..n /\ 2 * Offset(n, s) <= n /\ n > 0
         /\ Bucket[s] # Bucket[u] => Offset(n, s) # Offset(n, u)
<1>1. PICK sb \in Nat \ {0} : sb = StaggerBuckets
  BY SealPolicyAssumption
<1>2. Bucket[s] \in Nat /\ Bucket[u] \in Nat
  <2>1. Bucket[s] \in 0..(sb - 1) /\ Bucket[u] \in 0..(sb - 1)
    BY <1>1, SealPolicyAssumption
  <2> QED BY <2>1
<1>3. PICK c \in Nat \ {0} : c = 2 * sb
  <2>1. 2 * sb \in Nat \ {0}
    OBVIOUS
  <2> QED BY <2>1
<1>4. n \div c \in Nat /\ (c <= n => n \div c > 0)
  OBVIOUS
<1>5. PICK q \in Nat \ {0} : q = n \div c
  BY <1>1, <1>3, <1>4
<1>6. Offset(n, s) = q * Bucket[s] /\ Offset(n, u) = q * Bucket[u]
  BY <1>1, <1>3, <1>5 DEF Offset
<1>7. Bucket[s] # Bucket[u] => Offset(n, s) # Offset(n, u)
  BY <1>2, <1>5, <1>6, TimesApart
<1>8. Offset(n, s) \in Nat /\ 2 * Offset(n, s) <= n
  BY HalfTaken
<1>9. n > 0
  BY <1>1
<1> QED BY <1>7, <1>8, <1>9

\* What a seal of streams that have nothing left does to the distances.
LEMMA DistancesKept ==
  ASSUME NEW n \in Nat, n > 0, NEW d \in Int, -n < d, d < n,
         NEW x \in 0..n, NEW y \in 0..n, x - y \in {d, d + n, d - n}
  PROVE  /\ x = 0 /\ y = 0 => d = 0
         /\ (IF x = 0 THEN n ELSE x) - (IF y = 0 THEN n ELSE y) \in {d, d + n, d - n}
<1>1. CASE x = 0 /\ y = 0
  BY <1>1
<1>2. CASE x = 0 /\ y # 0
  BY <1>2
<1>3. CASE x # 0 /\ y = 0
  BY <1>3
<1>4. CASE x # 0 /\ y # 0
  BY <1>4
<1> QED BY <1>1, <1>2, <1>3, <1>4

LEMMA TargetsAreHalf ==
  ASSUME NEW p \in Policies, NEW a, NEW str \in Streams, Targets(p, a, str)
  PROVE  /\ a.maxRows \in Nat /\ 2 * a.maxRows >= p.maxRows
         /\ a.maxBytes \in Nat /\ 2 * a.maxBytes >= p.maxBytes
         /\ a.maxAge \in Nat /\ 2 * a.maxAge >= p.maxAge
<1>1. p.maxRows \in Nat /\ p.maxBytes \in Nat /\ p.maxAge \in Nat
  BY SealPolicyAssumption
<1>2. CASE a.opened = Start
  BY <1>1, <1>2, HalfLeft DEF Targets
<1>3. CASE a.opened # Start
  BY <1>1, <1>3 DEF Targets
<1> QED BY <1>2, <1>3

\* The clock has not run further than there are timestamps.
LEMMA ClockBound ==
  ASSUME AccountsInv, now \in Timestamps
  PROVE  /\ Start \in Int /\ now \in Int /\ Cardinality(Timestamps) \in Nat
         /\ now - Start <= Cardinality(Timestamps)
<1>1. now \in Int /\ Start \in Int /\ Start <= now /\ Start + 1 .. now \subseteq Timestamps
  BY DEF AccountsInv, Clock
<1> HIDE DEF Start
<1>2. PICK k \in Int : k = Start + 1
  BY <1>1
<1>3. IsFiniteSet(Timestamps)
  BY SplitSealAssumption
<1>4. Cardinality(k .. now) = IF k > now THEN 0 ELSE now - k + 1
  BY <1>1, FS_Interval
<1>5. (k .. now) \in SUBSET Timestamps
  BY <1>1, <1>2
<1>6. Cardinality(k .. now) <= Cardinality(Timestamps) /\ Cardinality(Timestamps) \in Nat
  BY <1>3, <1>5, FS_Subset, FS_CardinalityType
<1> QED BY <1>1, <1>2, <1>4, <1>6

\* With nothing but the row cap to reach, the due streams are those that
\* have no row left.
LEMMA DueWhenNoneLeft ==
  ASSUME AccountsInv, RowBound, phase = "check", NEW str \in Streams, Left(str) \in Nat
  PROVE  IsDue(account[str]) <=> Left(str) = 0
<1>0. PICK a : a = account[str]
  OBVIOUS
<1>1. live[str] \in SUBSET Timestamps /\ now \in Timestamps /\ policy \in Policies
  BY DEF AccountsInv, TurnInv, HandOff
<1>2. Stands(policy, habit, live[str], a) /\ Targets(policy, a, str) /\ Charged(a, str)
  BY <1>0 DEF AccountsInv, Accounts, Kept, Charged
<1>3. PICK A \in SUBSET live[str] : StandsFor(policy, habit, A, a)
  BY <1>2 DEF Stands
<1>4. /\ IsFiniteSet(Timestamps) /\ Cardinality(Timestamps) \in Nat
      /\ Cardinality(A) \in Nat /\ Cardinality(A) <= Cardinality(Timestamps)
  <2>1. IsFiniteSet(Timestamps)
    BY SplitSealAssumption
  <2>2. A \in SUBSET Timestamps
    BY <1>1
  <2>3. IsFiniteSet(A) /\ Cardinality(A) <= Cardinality(Timestamps)
    BY <2>1, <2>2, FS_Subset
  <2> QED BY <2>1, <2>3, FS_CardinalityType
<1>5. a.rows \in Nat /\ a.rows <= Cardinality(Timestamps)
  BY <1>3, <1>4 DEF StandsFor
<1>6. a.first = a.last
  <2>1. policy.align \in Int /\ policy.align <= 0
    BY <1>1, SealPolicyAssumption DEF RowBound
  <2>2. ~ policy.align > 0
    BY <2>1
  <2>3. \A t : BucketIn(policy, t) = {}
    BY <2>2 DEF BucketIn
  <2> QED BY <1>3, <2>3 DEF StandsFor
<1>7. /\ policy.maxRows \in Nat /\ policy.maxBytes \in Nat /\ policy.maxAge \in Nat
      /\ policy.maxRows > 0
  BY <1>1, SealPolicyAssumption DEF RowBound
<1>8. /\ a.maxRows \in Nat /\ 2 * a.maxRows >= policy.maxRows
      /\ a.maxBytes \in Nat /\ 2 * a.maxBytes >= policy.maxBytes
      /\ a.maxAge \in Nat /\ 2 * a.maxAge >= policy.maxAge
  BY <1>1, <1>2, TargetsAreHalf
<1>9. ~ a.bytes >= a.maxBytes
  <2>1. PICK b \in Nat : b = RowBytes[str]
    BY SealPolicyAssumption
  <2>2. b * a.rows \in Nat /\ b * a.rows <= b * Cardinality(Timestamps)
    BY <1>4, <1>5, TimesMonotone
  <2>3. b * Cardinality(Timestamps) \in Nat
        /\ b * Cardinality(Timestamps) < policy.maxBytes \div 2
    BY <1>4, <2>1 DEF RowBound
  <2>4. a.bytes = b * a.rows
    BY <1>2, <2>1 DEF Charged
  <2> QED BY <1>7, <1>8, <2>2, <2>3, <2>4
<1>10. ~ now - a.opened >= a.maxAge
  <2>1. /\ Start \in Int /\ now \in Int /\ Cardinality(Timestamps) \in Nat
        /\ now - Start <= Cardinality(Timestamps)
    BY <1>1, ClockBound
  <2>2. a.opened \in Int /\ Start <= a.opened
    <3>1. CASE a.opened = Start
      <4> HIDE DEF Start
      <4> QED BY <2>1, <3>1
    <3>2. CASE a.opened # Start
      <4>1. a.opened \in Int /\ Start < a.opened
        BY <1>2, <3>2 DEF Targets
      <4> HIDE DEF Start
      <4> QED BY <2>1, <4>1
    <3> QED BY <3>1, <3>2
  <2>3. Cardinality(Timestamps) < policy.maxAge \div 2
    BY DEF RowBound
  <2> HIDE DEF Start
  <2> QED BY <1>7, <1>8, <2>1, <2>2, <2>3
<1>11. IsDue(account[str]) <=> a.rows > 0 /\ a.rows >= a.maxRows
  BY <1>0, <1>6, <1>9, <1>10 DEF IsDue
<1>12. a.maxRows - a.rows \in Nat
  BY <1>0 DEF Left
<1>13. a.maxRows > 0
  BY <1>7, <1>8
<1>14. IsDue(account[str]) <=> a.maxRows - a.rows = 0
  BY <1>5, <1>8, <1>11, <1>12, <1>13
<1> QED BY <1>0, <1>14 DEF Left

LEMMA PolicyInitSpaced == PolicyInit => Spaced
<1> SUFFICES ASSUME PolicyInit, RowBound PROVE Spaced
  BY DEF Spaced
<1>1. PICK n \in Nat : n = policy.maxRows /\ n >= 2 * StaggerBuckets
  BY SealPolicyAssumption DEF PolicyInit, RowBound
<1>2. ASSUME NEW str \in Streams
      PROVE  /\ Left(str) = n - Offset(n, str)
             /\ Offset(n, str) \in 0..n /\ 2 * Offset(n, str) <= n /\ n > 0
  <2>1. account[str].maxRows = AtLeastOne(Less(n, Offset(n, str))) /\ account[str].rows = 0
    BY <1>1 DEF PolicyInit, OpenedFirst
  <2>2. PICK o \in 0..n : o = Offset(n, str) /\ 2 * o <= n /\ n > 0
    BY <1>1, OffsetsApart
  <2>3. Less(n, o) = n - o /\ n - o \in Nat \ {0}
    BY <2>2 DEF Less
  <2>4. AtLeastOne(n - o) = n - o
    BY <2>3 DEF AtLeastOne
  <2> QED BY <2>1, <2>2, <2>3, <2>4 DEF Left
<1>3. \A str \in Streams : Left(str) \in 0..n /\ Left(str) > 0
  BY <1>2
<1>4. \A s, u \in Streams : Left(s) - Left(u) = Ahead(s, u)
  BY <1>1, <1>2 DEF Ahead
<1>5. phase = "wait" /\ batch = {}
  BY DEF PolicyInit
<1> QED BY <1>1, <1>3, <1>4, <1>5 DEF Spaced

\* What does not touch the accounts or the phase.
LEMMA SealingKeepsSpaced ==
  ASSUME Spaced, TakeStream \/ EncodeStep \/ EndTurn \/ CommitBatch \/ UNCHANGED policyVars
  PROVE  Spaced'
<1>1. UNCHANGED <<policy, account, phase, coming, habit>>
  BY DEF TakeStream, EncodeStep, EndTurn, CommitBatch, policyVars, caller
<1>2. batch' \subseteq batch
  BY DEF TakeStream, EncodeStep, EndTurn, CommitBatch, policyVars
<1> QED BY <1>1, <1>2 DEF Spaced, RowBound, Left, Ahead

LEMMA TickKeepsSpaced ==
  ASSUME Spaced, TickComes
  PROVE  Spaced'
<1>1. /\ batch' = {} /\ phase = "wait" /\ phase' \in {"ask", "add"}
      /\ UNCHANGED <<policy, account>>
      /\ habit' = "lockstep" => habit = "lockstep" /\ coming' = Streams
  BY DEF TickComes, Resting
<1> QED BY <1>1 DEF Spaced, RowBound, Left, Ahead

LEMMA AddKeepsSpaced ==
  ASSUME AccountsInv, Spaced, AddRows
  PROVE  Spaced'
<1> SUFFICES ASSUME RowBound, habit' = "lockstep" PROVE Spaced'
  BY DEF Spaced, RowBound, AddRows
<1>1. /\ phase = "add" /\ phase' = "check" /\ habit = "lockstep" /\ coming = Streams
      /\ policy' = policy /\ batch' = {}
  BY DEF AddRows, Resting, Spaced
<1>2. policy.maxRows \in Nat
  BY SealPolicyAssumption DEF AccountsInv, TurnInv, HandOff
<1>3. ASSUME NEW str \in Streams
      PROVE  Left(str)' = Left(str) - 1 /\ Left(str) \in 0..policy.maxRows /\ Left(str) > 0
  <2> DEFINE a == account[str]
  <2>1. account'[str] = Added(a, RowBytes[str], now)
    BY <1>1 DEF AddRows
  <2>2. Stands(policy, habit, live[str], a) /\ Targets(policy, a, str)
    BY DEF AccountsInv, Accounts, Kept
  <2>3. DOMAIN a = {"rows", "bytes", "opened", "first", "last", "maxRows", "maxBytes", "maxAge"}
    BY <2>2 DEF Stands
  <2>4. live[str] \in SUBSET Timestamps /\ policy \in Policies
    BY DEF AccountsInv, TurnInv, HandOff
  <2> HIDE DEF a
  <2>5. a.rows \in Nat
    BY <2>2, <2>4, StandsMoves
  <2>6. a.maxRows \in Nat
    BY <2>2, <2>4, TargetsAreHalf
  <2>7. account'[str].rows = a.rows + 1 /\ account'[str].maxRows = a.maxRows
    BY <2>1, <2>3 DEF Added
  <2>8. Left(str)' = Left(str) - 1
    BY <2>5, <2>6, <2>7 DEF Left, a
  <2> QED BY <1>1, <2>8 DEF Spaced
<1>4. \A str \in Streams : Left(str)' \in 0..policy.maxRows
  BY <1>2, <1>3
<1>5. \A s, u \in Streams : Ahead(s, u)' = Ahead(s, u)
  BY <1>1 DEF Ahead
<1>6. ASSUME NEW s \in Streams, NEW u \in Streams
      PROVE  Left(s)' - Left(u)' \in {Ahead(s, u), Ahead(s, u) + policy.maxRows,
                                      Ahead(s, u) - policy.maxRows}
  <2>1. Left(s) - Left(u) \in {Ahead(s, u), Ahead(s, u) + policy.maxRows,
                                Ahead(s, u) - policy.maxRows}
    BY <1>1 DEF Spaced
  <2>2. Left(s)' - Left(u)' = Left(s) - Left(u)
    BY <1>2, <1>3
  <2> QED BY <2>1, <2>2
<1> QED BY <1>1, <1>4, <1>5, <1>6 DEF Spaced

LEMMA AskFirstKeepsSpaced ==
  ASSUME AccountsInv, Spaced, AskFirst
  PROVE  Spaced'
<1> SUFFICES ASSUME RowBound, habit = "lockstep" PROVE Spaced'
  BY DEF Spaced, RowBound, AskFirst
<1>1. /\ phase = "ask" /\ phase' = "add" /\ habit' = habit /\ coming' = coming
      /\ policy' = policy
      /\ Ask({str \in coming : StartsNewBucket(account[str], now)})
  BY DEF AskFirst
<1>2. policy.align \in Int /\ policy.align <= 0
  BY SealPolicyAssumption DEF AccountsInv, TurnInv, HandOff, RowBound
<1>3. \A a : ~ StartsNewBucket(a, now)
  BY <1>2 DEF StartsNewBucket, BucketOf
<1>4. {str \in coming : StartsNewBucket(account[str], now)} = {}
  BY <1>3
<1>5. batch' = {} /\ \A str \in Streams : account'[str] = account[str]
  BY <1>1, <1>4 DEF Ask
<1>6. \A str \in Streams : Left(str)' = Left(str)
  BY <1>5 DEF Left
<1>7. \A s, u \in Streams : Ahead(s, u)' = Ahead(s, u)
  BY <1>1 DEF Ahead
<1> QED BY <1>1, <1>5, <1>6, <1>7 DEF Spaced

LEMMA CheckKeepsSpaced ==
  ASSUME AccountsInv, Spaced, Check
  PROVE  Spaced'
<1> SUFFICES ASSUME RowBound, habit = "lockstep" PROVE Spaced'
  BY DEF Spaced, RowBound, Check
<1>1. /\ phase = "check" /\ phase' = "wait" /\ habit' = habit /\ policy' = policy
      /\ Ask({str \in Streams : IsDue(account[str])})
  BY DEF Check
<1>2. PICK n \in Nat : n = policy.maxRows /\ n >= 2 * StaggerBuckets
  BY SealPolicyAssumption DEF AccountsInv, TurnInv, HandOff, RowBound
<1>3. \A str \in Streams : Left(str) \in 0..n
  BY <1>2 DEF Spaced
<1>4. \A str \in Streams : IsDue(account[str]) <=> Left(str) = 0
  BY <1>1, <1>3, DueWhenNoneLeft
<1>5. \A str \in Streams : Left(str)' = IF Left(str) = 0 THEN n ELSE Left(str)
  <2> SUFFICES ASSUME NEW str \in Streams
               PROVE  Left(str)' = IF Left(str) = 0 THEN n ELSE Left(str)
    OBVIOUS
  <2>1. CASE Left(str) = 0
    <3>1. account'[str] = Rotated(account[str])
      BY <1>1, <1>4, <2>1 DEF Ask
    <3>2. account'[str].rows = 0 /\ account'[str].maxRows = n
      BY <1>2, <3>1 DEF Rotated
    <3> QED BY <2>1, <3>2 DEF Left
  <2>2. CASE Left(str) # 0
    <3>1. account'[str] = account[str]
      BY <1>1, <1>4, <2>2 DEF Ask
    <3> QED BY <2>2, <3>1 DEF Left
  <2> QED BY <2>1, <2>2
<1>6. ASSUME NEW s \in Streams, NEW u \in Streams
      PROVE  /\ Ahead(s, u)' = Ahead(s, u)
             /\ Left(s)' - Left(u)' \in {Ahead(s, u), Ahead(s, u) + n, Ahead(s, u) - n}
             /\ Left(s) = 0 /\ Left(u) = 0 => Bucket[s] = Bucket[u]
  <2>1. PICK v \in 0..n, w \in 0..n :
          /\ v = Offset(n, s) /\ w = Offset(n, u) /\ 2 * v <= n /\ 2 * w <= n /\ n > 0
          /\ Bucket[s] # Bucket[u] => v # w
    BY <1>2, OffsetsApart
  <2>2. PICK d \in Int : d = w - v /\ -n < d /\ d < n
    <3>1. w - v \in Int /\ -n < w - v /\ w - v < n
      BY <2>1
    <3> QED BY <3>1
  <2>3. Ahead(s, u) = d /\ Ahead(s, u)' = d
    BY <1>1, <1>2, <2>1, <2>2 DEF Ahead
  <2>4. Left(s) - Left(u) \in {d, d + n, d - n}
    BY <1>2, <2>3 DEF Spaced
  <2>5. PICK x \in 0..n, y \in 0..n : x = Left(s) /\ y = Left(u)
    BY <1>3
  <2>6. /\ x = 0 /\ y = 0 => d = 0
        /\ (IF x = 0 THEN n ELSE x) - (IF y = 0 THEN n ELSE y) \in {d, d + n, d - n}
    <3>1. n > 0 /\ x - y \in {d, d + n, d - n}
      BY <2>1, <2>4, <2>5
    <3> QED BY <2>2, <3>1, DistancesKept
  <2>7. Left(s)' - Left(u)' \in {d, d + n, d - n}
    BY <1>5, <2>5, <2>6
  <2>8. d = 0 => Bucket[s] = Bucket[u]
    BY <2>1, <2>2
  <2> QED BY <2>3, <2>5, <2>6, <2>7, <2>8
<1>7. \A str \in batch' : str \in Streams /\ Left(str) = 0
  BY <1>1, <1>4 DEF Ask
<1>8. \A s, u \in batch' : Bucket[s] = Bucket[u]
  BY <1>6, <1>7
<1>9. \A str \in Streams : Left(str)' \in 0..n /\ Left(str)' > 0
  <2>1. n > 0
    BY <1>2, SealPolicyAssumption
  <2> QED BY <1>3, <1>5, <2>1
<1> QED BY <1>1, <1>2, <1>6, <1>8, <1>9 DEF Spaced

LEMMA SpacedKept == AccountsInv /\ Spaced /\ [PolicyNext]_policyVars => Spaced'
<1> SUFFICES ASSUME AccountsInv, Spaced, [PolicyNext]_policyVars PROVE Spaced'
  OBVIOUS
<1> QED BY SealingKeepsSpaced, TickKeepsSpaced, AddKeepsSpaced, AskFirstKeepsSpaced,
           CheckKeepsSpaced DEF PolicyNext

(***************************************************************************)
(* Streams bound by the row cap alone, with different staggers, that get a *)
(* row in every tick and are checked after it never come due in the same   *)
(* one, in their first segment or any later, however many streams and      *)
(* ticks there are: a seal of one changes how far it is ahead of another   *)
(* by one whole cap, and the staggers differ by less than that.            *)
(* (open_first)                                                            *)
(***************************************************************************)
THEOREM StaggeredSealApart == PolicySpec => []NeverTogether
<1>1. Spaced => NeverTogether
  BY DEF Spaced, NeverTogether
<1> QED BY <1>1, AccountsStand, PolicyInitSpaced, SpacedKept, PTL DEF PolicySpec
=============================================================================
