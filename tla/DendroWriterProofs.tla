------------------------- MODULE DendroWriterProofs -------------------------
(***************************************************************************)
(* Theorems of DendroWriter, for every set of sources, streams and         *)
(* timestamps and every bound.                                             *)
(***************************************************************************)
EXTENDS DendroWriter, FiniteSetTheorems, TLAPS

-----------------------------------------------------------------------------
(***************************************************************************)
(* Encodings: what seal_batch may rely on, whatever the encoder returns.   *)
(***************************************************************************)

\* A later row has at least as many rows before it, so a smaller rank is an
\* earlier row.  (split_seal's chunks, taken in timestamp order)
LEMMA RankOrders ==
  ASSUME NEW L \in SUBSET Timestamps, NEW t \in L, NEW u \in L,
         Rank(L, t) < Rank(L, u)
  PROVE  t < u
<1>1. IsFiniteSet(L)
  BY FS_Subset, WriterAssumption
<1>2. L \subseteq Int /\ t \in Int /\ u \in Int
  BY TimestampsAssumption
<1>3. CASE u <= t
  <2>1. {x \in L : x < u} \subseteq {x \in L : x < t}
    <3> SUFFICES ASSUME NEW x \in L, x < u  PROVE x < t
      OBVIOUS
    <3> QED BY <1>2, <1>3
  <2>2. IsFiniteSet({x \in L : x < t})
    BY <1>1, FS_Subset
  <2>3. Rank(L, u) <= Rank(L, t)
    BY <2>1, <2>2, FS_Subset DEF Rank
  <2>4. Rank(L, u) \in Int /\ Rank(L, t) \in Int
    BY <2>1, <2>2, FS_Subset, FS_CardinalityType DEF Rank
  <2> QED BY <2>3, <2>4
<1> QED BY <1>2, <1>3

\* Rows of an earlier chunk are earlier.  (split_seal)
LEMMA ChunksOrdered ==
  ASSUME NEW L \in SUBSET Timestamps, NEW cap \in Nat,
         NEW j \in Nat, NEW k \in Nat, j < k,
         NEW t \in Chunk(L, cap, j), NEW u \in Chunk(L, cap, k)
  PROVE  t < u
<1>1. t \in L /\ u \in L
  BY DEF Chunk
<1>2. Rank(L, t) < (j + 1) * cap /\ k * cap <= Rank(L, u)
  BY DEF Chunk
<1>3. (j + 1) * cap <= k * cap
  <2>1. j + 1 <= k
    OBVIOUS
  <2>2. PICK d \in Nat : k = j + 1 + d
    <3>1. k - (j + 1) \in Nat /\ k = j + 1 + (k - (j + 1))
      BY <2>1
    <3> QED BY <3>1
  <2>3. k * cap = (j + 1) * cap + d * cap
    BY <2>2
  <2>4. d * cap \in Nat /\ (j + 1) * cap \in Nat
    OBVIOUS
  <2> QED BY <2>3, <2>4
<1>4. Rank(L, t) \in Int /\ Rank(L, u) \in Int
  <2>1. IsFiniteSet({x \in L : x < t}) /\ IsFiniteSet({x \in L : x < u})
    BY FS_Subset, WriterAssumption
  <2> QED BY <2>1, FS_CardinalityType DEF Rank
<1>5. (j + 1) * cap \in Int /\ k * cap \in Int
  OBVIOUS
<1>6. Rank(L, t) < Rank(L, u)
  BY <1>2, <1>3, <1>4, <1>5
<1> QED BY <1>1, <1>6, RankOrders

\* A chunk has an oldest row, which is where its segment starts.
LEMMA OldestExists ==
  ASSUME NEW T \in SUBSET Timestamps, T # {}
  PROVE  \E o \in T : IsOldest(o, T)
<1> DEFINE before(u) == {x \in T : x < u}
<1> DEFINE B == {before(u) : u \in T}
<1>1. IsFiniteSet(T) /\ T \subseteq Int
  BY FS_Subset, WriterAssumption, TimestampsAssumption
<1>2. B \subseteq FiniteSubsetsOf(T)
  <2>1. \A u \in T : before(u) \in SUBSET T /\ IsFiniteSet(before(u))
    BY <1>1, FS_Subset
  <2> QED BY <2>1 DEF FiniteSubsetsOf
<1>3. IsWellFoundedOn(StrictSubsetOrdering(T), FiniteSubsetsOf(T))
  BY FS_StrictSubsetOrderingWellFounded
<1>4. PICK b \in B : \A c \in B : ~ (<<c, b>> \in StrictSubsetOrdering(T))
  <2>1. B # {}
    OBVIOUS
  <2> HIDE DEF B
  <2> QED BY <1>2, <1>3, <2>1, WFMin
<1>5. PICK o \in T : b = before(o)
  OBVIOUS
<1>6. ASSUME NEW u \in T, ~ (o <= u)  PROVE FALSE
  <2>1. u < o /\ u \in Int /\ o \in Int
    <3>1. u \in Int /\ o \in Int
      BY <1>1
    <3> QED BY <1>6, <3>1
  <2>2. before(u) \subseteq before(o) /\ u \in before(o) /\ u \notin before(u)
    <3>1. ASSUME NEW x \in T, x < u  PROVE x < o
      <4>1. x \in Int
        BY <1>1
      <4> QED BY <2>1, <3>1, <4>1
    <3>2. ~ (u < u)
      BY <2>1
    <3> QED BY <2>1, <3>1, <3>2
  <2>3. before(u) \in SUBSET T /\ before(o) \in SUBSET T /\ before(u) # before(o)
    BY <2>2
  <2>4. <<before(u), before(o)>> \in StrictSubsetOrdering(T)
    BY <2>2, <2>3 DEF StrictSubsetOrdering
  <2> QED BY <1>4, <1>5, <2>4
<1> QED BY <1>6 DEF IsOldest

\* What the rest of the proof uses of an encoding: its parts are numbered
\* below its count, in time order, end at rows, and reach no further than
\* upto, which is a row.
Sound(L, e) ==
  /\ e.upto \in L
  /\ e.count \in Nat \ {0}
  /\ \A p \in e.parts :
        /\ p.k \in Nat /\ p.k < e.count
        /\ p.first \in Timestamps /\ \E o \in L : o <= p.first
        /\ p.last \in L /\ p.last <= e.upto /\ p.first <= p.last
  /\ \E p \in e.parts : p.last = e.upto
  /\ \A p, q \in e.parts :
        \/ p = q
        \/ p.k < q.k /\ p.last < q.first
        \/ q.k < p.k /\ q.last < p.first

\* A split that split_seal keeps is sound: the inner edges come from the
\* chunks, and only the outer ones from the encoder.
LEMMA TilesSound ==
  ASSUME NEW L \in SUBSET Timestamps, NEW cap \in Nat,
         NEW f \in Timestamps, NEW l \in L, NEW n \in Nat, 2 <= n,
         Claimable(L, f, l), Splits(L, cap, f, l, n)
  PROVE  Sound(L, Tiles(L, cap, f, l, n))
<1> DEFINE e == Tiles(L, cap, f, l, n)
<1>1. e.upto = l /\ e.count = n
  BY DEF Tiles
<1>2. L \subseteq Int /\ Timestamps \subseteq Int
  BY TimestampsAssumption
<1>3. ASSUME NEW p \in e.parts
      PROVE  /\ p \in [k : 0..(n - 1), first : L \cup {f}, last : L]
             /\ p.last \in Chunk(L, cap, p.k)
             /\ p.k = 0 => p.first = f
             /\ p.k # 0 => IsOldest(p.first, Chunk(L, cap, p.k))
             /\ p.k = n - 1 => p.last = l
             /\ p.k # n - 1 => IsNewest(p.last, Chunk(L, cap, p.k))
  <2>1. /\ p \in [k : 0..(n - 1), first : L \cup {f}, last : L]
        /\ p.k = 0 => p.first = f
        /\ p.k # 0 => IsOldest(p.first, Chunk(L, cap, p.k))
        /\ p.k = n - 1 => p.last = l
        /\ p.k # n - 1 => IsNewest(p.last, Chunk(L, cap, p.k))
    BY DEF Tiles
  <2>2. l \in Chunk(L, cap, n - 1)
    BY DEF Splits
  <2> QED BY <2>1, <2>2 DEF IsNewest
<1>4. ASSUME NEW p \in e.parts
      PROVE  /\ p.k \in Nat /\ p.k < n
             /\ p.first \in Timestamps /\ \E o \in L : o <= p.first
             /\ p.last \in L /\ p.last <= l /\ p.first <= p.last
  <2>1. p.k \in Nat /\ p.k < n /\ p.first \in L \cup {f} /\ p.last \in L
    BY <1>3
  <2>2. \E o \in L : o <= p.first
    <3>1. \E o \in L : o <= f
      BY DEF Claimable
    <3>2. CASE p.first \in L
      <4>1. p.first \in Int
        BY <3>2, <1>2
      <4>2. p.first <= p.first
        BY <4>1
      <4> QED BY <3>2, <4>2
    <3>3. CASE p.first = f
      BY <3>1, <3>3
    <3> QED BY <2>1, <3>2, <3>3
  <2>3. ASSUME p.k = n - 1  PROVE p.last <= l
    <3>1. p.last = l /\ l \in Int
      BY <1>2, <1>3, <2>3
    <3> QED BY <3>1
  <2>4. ASSUME p.k # n - 1  PROVE p.last <= l
    <3>1. p.k < n - 1 /\ n - 1 \in Nat
      BY <2>1, <2>4
    <3>2. p.last \in Chunk(L, cap, p.k) /\ l \in Chunk(L, cap, n - 1)
      BY <1>3 DEF Splits
    <3>3. p.last < l
      BY <3>1, <3>2, <2>1, ChunksOrdered
    <3>4. p.last \in Int /\ l \in Int
      BY <2>1, <1>2
    <3> QED BY <3>3, <3>4
  <2>5. p.last <= l
    BY <2>3, <2>4
  <2>6. p.first <= p.last
    <3>1. p.first \in Int /\ p.last \in Int
      BY <1>2, <2>1
    <3>2. CASE p.k = 0
      <4>1. p.first = f /\ IsNewest(p.last, Chunk(L, cap, 0))
        BY <1>3, <3>2
      <4>2. PICK t \in Chunk(L, cap, 0) : f <= t
        BY DEF Splits
      <4>3. t \in Int /\ t <= p.last
        BY <1>2, <4>1 DEF IsNewest, Chunk
      <4> QED BY <3>1, <4>1, <4>2, <4>3
    <3>3. CASE p.k # 0
      <4>1. IsOldest(p.first, Chunk(L, cap, p.k)) /\ p.last \in Chunk(L, cap, p.k)
        BY <1>3, <3>3
      <4> QED BY <4>1 DEF IsOldest
    <3> QED BY <3>2, <3>3
  <2> QED BY <2>1, <2>2, <2>5, <2>6
<1>5. ASSUME NEW p \in e.parts, NEW q \in e.parts, p.k < q.k
      PROVE  p.last < q.first
  <2>1. p.k \in Nat /\ q.k \in Nat /\ q.k # 0
    BY <1>4, <1>5
  <2>2. p.last \in Chunk(L, cap, p.k) /\ q.first \in Chunk(L, cap, q.k)
    BY <1>3, <2>1 DEF IsOldest
  <2> QED BY <1>5, <2>1, <2>2, ChunksOrdered
<1>6. ASSUME NEW p \in e.parts, NEW q \in e.parts, p.k = q.k
      PROVE  p = q
  <2>1. p.first = q.first
    <3>1. p.first \in Int /\ q.first \in Int
      BY <1>4, <1>2
    <3>2. CASE p.k = 0
      <4>1. p.first = f
        BY <1>3, <3>2
      <4>2. q.first = f
        BY <1>3, <1>6, <3>2
      <4> QED BY <4>1, <4>2
    <3>3. CASE p.k # 0
      <4>1. IsOldest(p.first, Chunk(L, cap, p.k))
        BY <1>3, <3>3
      <4>2. IsOldest(q.first, Chunk(L, cap, p.k))
        BY <1>3, <1>6, <3>3
      <4>3. p.first <= q.first /\ q.first <= p.first
        BY <4>1, <4>2 DEF IsOldest
      <4> QED BY <3>1, <4>3
    <3> QED BY <3>2, <3>3
  <2>2. p.last = q.last
    <3>1. p.last \in Int /\ q.last \in Int
      BY <1>4, <1>2
    <3>2. CASE p.k = n - 1
      <4>1. p.last = l
        BY <1>3, <3>2
      <4>2. q.last = l
        BY <1>3, <1>6, <3>2
      <4> QED BY <4>1, <4>2
    <3>3. CASE p.k # n - 1
      <4>1. IsNewest(p.last, Chunk(L, cap, p.k))
        BY <1>3, <3>3
      <4>2. IsNewest(q.last, Chunk(L, cap, p.k))
        BY <1>3, <1>6, <3>3
      <4>3. p.last <= q.last /\ q.last <= p.last
        BY <4>1, <4>2 DEF IsNewest
      <4> QED BY <3>1, <4>3
    <3> QED BY <3>2, <3>3
  <2> QED BY <2>1, <2>2, <1>3, <1>6
<1>7. \A p, q \in e.parts :
        \/ p = q
        \/ p.k < q.k /\ p.last < q.first
        \/ q.k < p.k /\ q.last < p.first
  <2> SUFFICES ASSUME NEW p \in e.parts, NEW q \in e.parts
               PROVE  \/ p = q
                      \/ p.k < q.k /\ p.last < q.first
                      \/ q.k < p.k /\ q.last < p.first
    OBVIOUS
  <2>1. p.k \in Nat /\ q.k \in Nat
    BY <1>4
  <2>2. p.k < q.k \/ q.k < p.k \/ p.k = q.k
    BY <2>1
  <2> QED BY <2>2, <1>5, <1>6
<1>8. \E p \in e.parts : p.last = l
  <2>1. n - 1 \in 0..(n - 1) /\ n - 1 # 0
    OBVIOUS
  <2>2. Chunk(L, cap, n - 1) \in SUBSET Timestamps /\ Chunk(L, cap, n - 1) # {}
    BY DEF Splits, Chunk
  <2>3. PICK o \in Chunk(L, cap, n - 1) : IsOldest(o, Chunk(L, cap, n - 1))
    BY <2>2, OldestExists
  <2>4. [k |-> n - 1, first |-> o, last |-> l] \in e.parts
    BY <2>1, <2>3 DEF Tiles, Chunk
  <2> QED BY <2>4
<1> HIDE DEF e
<1>9. Sound(L, e)
  BY <1>1, <1>4, <1>7, <1>8 DEF Sound
<1> QED BY <1>9 DEF e

\* Everything seal_batch commits is sound.  (encode_after, split_seal)
LEMMA EncodingsSound ==
  ASSUME NEW L \in SUBSET Timestamps, NEW cap \in Nat,
         NEW e \in Encodings(L, cap), e.parts # {}
  PROVE  Sound(L, e)
<1>1. L \subseteq Int /\ Timestamps \subseteq Int
  BY TimestampsAssumption
<1>2. CASE e = NoEncoding
  BY <1>2 DEF NoEncoding
<1>3. ASSUME NEW f \in Timestamps, NEW l \in L, Claimable(L, f, l), e = Whole(f, l)
      PROVE  Sound(L, e)
  <2>1. \E o \in L : o <= f
    BY <1>3 DEF Claimable
  <2>2. e = [parts |-> {[k |-> 0, first |-> f, last |-> l]}, upto |-> l, count |-> 1]
    BY <1>3 DEF Whole
  <2>3. l <= l /\ f <= l
    BY <1>1, <1>3 DEF Claimable
  <2> QED BY <2>1, <2>2, <2>3 DEF Sound
<1>4. ASSUME NEW f \in Timestamps, NEW l \in L, NEW n \in 2..Cardinality(L),
             Claimable(L, f, l), Splits(L, cap, f, l, n),
             e = Tiles(L, cap, f, l, n)
      PROVE  Sound(L, e)
  <2>1. n \in Nat /\ 2 <= n
    <3>1. Cardinality(L) \in Nat
      BY FS_Subset, FS_CardinalityType, WriterAssumption
    <3> QED BY <3>1
  <2> QED BY <1>4, <2>1, TilesSound
<1>5. \/ e = NoEncoding
      \/ \E c \in Timestamps \X L : Claimable(L, c[1], c[2]) /\ e = Whole(c[1], c[2])
      \/ \E c \in Timestamps \X L \X (2..Cardinality(L)) :
            /\ Claimable(L, c[1], c[2]) /\ Splits(L, cap, c[1], c[2], c[3])
            /\ e = Tiles(L, cap, c[1], c[2], c[3])
  BY DEF Encodings
<1>6. ASSUME NEW c \in Timestamps \X L,
             Claimable(L, c[1], c[2]), e = Whole(c[1], c[2])
      PROVE  Sound(L, e)
  BY <1>3, <1>6
<1>7. ASSUME NEW c \in Timestamps \X L \X (2..Cardinality(L)),
             Claimable(L, c[1], c[2]), Splits(L, cap, c[1], c[2], c[3]),
             e = Tiles(L, cap, c[1], c[2], c[3])
      PROVE  Sound(L, e)
  BY <1>4, <1>7
<1>8. CASE \E c \in Timestamps \X L : Claimable(L, c[1], c[2]) /\ e = Whole(c[1], c[2])
  BY <1>6, <1>8
<1>9. CASE \E c \in Timestamps \X L \X (2..Cardinality(L)) :
              /\ Claimable(L, c[1], c[2]) /\ Splits(L, cap, c[1], c[2], c[3])
              /\ e = Tiles(L, cap, c[1], c[2], c[3])
  BY <1>7, <1>9
<1> QED BY <1>2, <1>5, <1>8, <1>9

-----------------------------------------------------------------------------
(***************************************************************************)
(* Committing a seal.                                                      *)
(***************************************************************************)

\* The effect of seal_batch's commit on the segments and the caches, without
\* the encodings that caused it: every new segment takes a number and a span
\* between the caches' old values and their new ones.
LEMMA CommitSealEffect ==
  ASSUME TypeOK, NEW src \in Sources, NEW batch \in SUBSET Streams,
         NEW cap \in Nat, CommitSeal(src, batch, cap)
  PROVE  /\ segs \subseteq segs'
         /\ nextSeq' \in [Keys -> Nat]
         /\ watermarks' \in [Keys -> Timestamps \cup {NoTs}]
         /\ \A k \in Keys :
              \/ nextSeq'[k] = nextSeq[k] /\ watermarks'[k] = watermarks[k]
              \/ /\ nextSeq'[k] > nextSeq[k]
                 /\ watermarks'[k] \in LiveTimes(wal, segs, k[1], k[2])
         /\ \A x \in segs' \ segs :
              LET k == <<x.src, x.str>>
                  L == LiveTimes(wal, segs, x.src, x.str)
              IN  /\ x \in Segment /\ x.first <= x.last
                  /\ nextSeq[k] <= x.seq /\ x.seq < nextSeq'[k]
                  /\ \E o \in L : o <= x.first
                  /\ x.last \in L /\ x.last <= watermarks'[k]
                  /\ x.rows = {t \in L : x.first <= t /\ t <= x.last}
         /\ \A x, y \in segs' \ segs : SameStream(x, y) =>
              \/ x = y
              \/ x.seq < y.seq /\ x.last < y.first
              \/ y.seq < x.seq /\ y.last < x.first
         /\ \A p \in prunes' :
              /\ p \in Row
              /\ watermarks'[<<p.src, p.str>>] = p.ts
              /\ \E x \in segs' : SameStream(x, p) /\ x.last = p.ts
         /\ clock' \subseteq ClockEntry
<1> DEFINE live(s) == LiveTimes(wal, segs, src, s)
<1>1. PICK enc \in [batch -> UNION {Encodings(live(s), cap) : s \in batch}] :
        LET sealed == {s \in batch : enc[s].parts # {}}
            ends == {enc[s].upto : s \in sealed}
        IN
        /\ \A s \in batch : enc[s] \in Encodings(live(s), cap)
        /\ segs' = segs \cup UNION {Built(src, s, live(s), enc[s].parts) : s \in sealed}
        /\ clock' = clock \cup {c \in ClockEntry : c.src = src /\ IsNewest(c.ts, ends)}
        /\ nextSeq' = [k \in Keys |->
                         IF k[1] = src /\ k[2] \in sealed
                           THEN nextSeq[k] + enc[k[2]].count ELSE nextSeq[k]]
        /\ watermarks' = [k \in Keys |->
                            IF k[1] = src /\ k[2] \in sealed
                              THEN enc[k[2]].upto ELSE watermarks[k]]
        /\ prunes' = {[src |-> src, str |-> s, ts |-> enc[s].upto] : s \in sealed}
  BY DEF CommitSeal
<1> DEFINE sealed == {s \in batch : enc[s].parts # {}}
<1>2. /\ segs' = segs \cup UNION {Built(src, s, live(s), enc[s].parts) : s \in sealed}
      /\ clock' \subseteq clock \cup ClockEntry
      /\ nextSeq' = [k \in Keys |->
                       IF k[1] = src /\ k[2] \in sealed
                         THEN nextSeq[k] + enc[k[2]].count ELSE nextSeq[k]]
      /\ watermarks' = [k \in Keys |->
                          IF k[1] = src /\ k[2] \in sealed
                            THEN enc[k[2]].upto ELSE watermarks[k]]
      /\ prunes' = {[src |-> src, str |-> s, ts |-> enc[s].upto] : s \in sealed}
  BY <1>1
<1>3. ASSUME NEW s \in sealed  PROVE Sound(live(s), enc[s])
  <2>1. live(s) \in SUBSET Timestamps
    BY DEF LiveTimes
  <2>2. enc[s] \in Encodings(live(s), cap) /\ enc[s].parts # {}
    BY <1>1
  <2> QED BY <2>1, <2>2, EncodingsSound
<1>4. sealed \subseteq Streams
  OBVIOUS
<1> HIDE DEF sealed, live
<1>5. ASSUME NEW s \in sealed
      PROVE  /\ enc[s].upto \in live(s) /\ enc[s].upto \in Timestamps
             /\ enc[s].count \in Nat \ {0}
  <2>1. live(s) \subseteq Timestamps
    BY DEF LiveTimes, live
  <2> QED BY <1>3, <2>1 DEF Sound
<1>6. nextSeq \in [Keys -> Nat] /\ watermarks \in [Keys -> Timestamps \cup {NoTs}]
  BY DEF TypeOK
<1>7. \A k \in Keys : k[1] \in Sources /\ k[2] \in Streams /\ k = <<k[1], k[2]>>
  BY DEF Keys
<1>8. nextSeq' \in [Keys -> Nat]
  BY <1>2, <1>5, <1>6
<1>9. watermarks' \in [Keys -> Timestamps \cup {NoTs}]
  BY <1>2, <1>5, <1>6
<1>10. ASSUME NEW k \in Keys
       PROVE  \/ nextSeq'[k] = nextSeq[k] /\ watermarks'[k] = watermarks[k]
              \/ /\ nextSeq'[k] > nextSeq[k]
                 /\ watermarks'[k] \in LiveTimes(wal, segs, k[1], k[2])
  <2>1. CASE k[1] = src /\ k[2] \in sealed
    <3>1. nextSeq'[k] = nextSeq[k] + enc[k[2]].count /\ watermarks'[k] = enc[k[2]].upto
      BY <1>2, <2>1
    <3>2. nextSeq[k] \in Nat /\ enc[k[2]].count \in Nat \ {0}
      BY <1>5, <1>6, <2>1
    <3> QED BY <3>1, <3>2, <1>5, <2>1 DEF live
  <2>2. CASE ~ (k[1] = src /\ k[2] \in sealed)
    BY <1>2, <2>2
  <2> QED BY <2>1, <2>2
<1>11. ASSUME NEW x \in segs' \ segs
       PROVE  \E s \in sealed : \E p \in enc[s].parts :
                 x = [src |-> src, str |-> s, seq |-> nextSeq[<<src, s>>] + p.k,
                      first |-> p.first, last |-> p.last,
                      rows |-> {t \in live(s) : p.first <= t /\ t <= p.last}]
  <2>1. PICK s \in sealed : x \in Built(src, s, live(s), enc[s].parts)
    BY <1>2, <1>11
  <2> QED BY <2>1 DEF Built
<1>12. ASSUME NEW x \in segs' \ segs
       PROVE  LET k == <<x.src, x.str>>
                  L == LiveTimes(wal, segs, x.src, x.str)
              IN  /\ x \in Segment /\ x.first <= x.last
                  /\ nextSeq[k] <= x.seq /\ x.seq < nextSeq'[k]
                  /\ \E o \in L : o <= x.first
                  /\ x.last \in L /\ x.last <= watermarks'[k]
                  /\ x.rows = {t \in L : x.first <= t /\ t <= x.last}
  <2>a. PICK s \in sealed : \E p \in enc[s].parts :
                 x = [src |-> src, str |-> s, seq |-> nextSeq[<<src, s>>] + p.k,
                      first |-> p.first, last |-> p.last,
                      rows |-> {t \in live(s) : p.first <= t /\ t <= p.last}]
    BY <1>11
  <2>1. PICK p \in enc[s].parts :
                 x = [src |-> src, str |-> s, seq |-> nextSeq[<<src, s>>] + p.k,
                      first |-> p.first, last |-> p.last,
                      rows |-> {t \in live(s) : p.first <= t /\ t <= p.last}]
    BY <2>a
  <2>2. /\ p.k \in Nat /\ p.k < enc[s].count
        /\ p.first \in Timestamps /\ \E o \in live(s) : o <= p.first
        /\ p.last \in live(s) /\ p.last <= enc[s].upto /\ p.first <= p.last
    BY <1>3 DEF Sound
  <2>3. /\ x.src = src /\ x.str = s /\ x.seq = nextSeq[<<src, s>>] + p.k
        /\ x.first = p.first /\ x.last = p.last
        /\ x.rows = {t \in live(s) : p.first <= t /\ t <= p.last}
    BY <2>1
  <2>4. <<src, s>> \in Keys /\ <<src, s>>[1] = src /\ <<src, s>>[2] = s
    BY <1>4 DEF Keys
  <2>5. /\ nextSeq'[<<src, s>>] = nextSeq[<<src, s>>] + enc[s].count
        /\ watermarks'[<<src, s>>] = enc[s].upto
    BY <1>2, <2>4
  <2>6. nextSeq[<<src, s>>] \in Nat /\ enc[s].count \in Nat
    BY <1>5, <1>6, <2>4
  <2>7. nextSeq[<<src, s>>] <= x.seq /\ x.seq < nextSeq'[<<src, s>>] /\ x.seq \in Nat
    BY <2>2, <2>3, <2>5, <2>6
  <2>8. live(s) = LiveTimes(wal, segs, x.src, x.str) /\ live(s) \subseteq Timestamps
    BY <2>3 DEF live, LiveTimes
  <2>9. x \in Segment
    <3>1. x.rows \in SUBSET Timestamps /\ x.last \in Timestamps /\ s \in Streams
      BY <2>2, <2>3, <2>8, <1>4
    <3> QED BY <2>1, <2>2, <2>3, <2>7, <3>1 DEF Segment
  <2> QED BY <2>2, <2>3, <2>5, <2>7, <2>8, <2>9
<1>13. ASSUME NEW x \in segs' \ segs, NEW y \in segs' \ segs, SameStream(x, y)
       PROVE  \/ x = y
              \/ x.seq < y.seq /\ x.last < y.first
              \/ y.seq < x.seq /\ y.last < x.first
  <2>a. PICK s \in sealed : \E p \in enc[s].parts :
                 x = [src |-> src, str |-> s, seq |-> nextSeq[<<src, s>>] + p.k,
                      first |-> p.first, last |-> p.last,
                      rows |-> {t \in live(s) : p.first <= t /\ t <= p.last}]
    BY <1>11
  <2>1. PICK p \in enc[s].parts :
                 x = [src |-> src, str |-> s, seq |-> nextSeq[<<src, s>>] + p.k,
                      first |-> p.first, last |-> p.last,
                      rows |-> {t \in live(s) : p.first <= t /\ t <= p.last}]
    BY <2>a
  <2>b. PICK z \in sealed : \E q \in enc[z].parts :
                 y = [src |-> src, str |-> z, seq |-> nextSeq[<<src, z>>] + q.k,
                      first |-> q.first, last |-> q.last,
                      rows |-> {t \in live(z) : q.first <= t /\ t <= q.last}]
    BY <1>11
  <2>2. PICK q \in enc[z].parts :
                 y = [src |-> src, str |-> z, seq |-> nextSeq[<<src, z>>] + q.k,
                      first |-> q.first, last |-> q.last,
                      rows |-> {t \in live(z) : q.first <= t /\ t <= q.last}]
    BY <2>b
  <2>3. s = z
    BY <1>13, <2>1, <2>2 DEF SameStream
  <2>4. /\ x.seq = nextSeq[<<src, s>>] + p.k /\ x.first = p.first /\ x.last = p.last
        /\ y.seq = nextSeq[<<src, s>>] + q.k /\ y.first = q.first /\ y.last = q.last
    BY <2>1, <2>2, <2>3
  <2>5. \/ p = q
        \/ p.k < q.k /\ p.last < q.first
        \/ q.k < p.k /\ q.last < p.first
    BY <1>3, <2>3 DEF Sound
  <2>6. p.k \in Nat /\ q.k \in Nat
    BY <1>3, <2>3 DEF Sound
  <2>7. nextSeq[<<src, s>>] \in Nat
    <3>1. <<src, s>> \in Keys
      BY <1>4 DEF Keys
    <3> QED BY <3>1, <1>6
  <2>8. CASE p = q
    BY <2>1, <2>2, <2>3, <2>8
  <2>9. CASE p.k < q.k /\ p.last < q.first
    BY <2>4, <2>6, <2>7, <2>9
  <2>10. CASE q.k < p.k /\ q.last < p.first
    BY <2>4, <2>6, <2>7, <2>10
  <2> QED BY <2>5, <2>8, <2>9, <2>10
<1>14. ASSUME NEW p \in prunes'
       PROVE  /\ p \in Row /\ watermarks'[<<p.src, p.str>>] = p.ts
              /\ \E x \in segs' : SameStream(x, p) /\ x.last = p.ts
  <2>1. PICK s \in sealed : p = [src |-> src, str |-> s, ts |-> enc[s].upto]
    BY <1>2
  <2>2. <<src, s>> \in Keys /\ <<src, s>>[1] = src /\ <<src, s>>[2] = s
    BY <1>4 DEF Keys
  <2>3. watermarks'[<<src, s>>] = enc[s].upto
    BY <1>2, <2>2
  <2>4. PICK q \in enc[s].parts : q.last = enc[s].upto
    BY <1>3 DEF Sound
  <2>5. PICK x \in Built(src, s, live(s), enc[s].parts) :
          x.src = src /\ x.str = s /\ x.last = q.last
    <3> DEFINE y == [src |-> src, str |-> s, seq |-> nextSeq[<<src, s>>] + q.k,
                     first |-> q.first, last |-> q.last,
                     rows |-> {t \in live(s) : q.first <= t /\ t <= q.last}]
    <3>1. y \in Built(src, s, live(s), enc[s].parts)
      BY DEF Built
    <3>2. y.src = src /\ y.str = s /\ y.last = q.last
      OBVIOUS
    <3> QED BY <3>1, <3>2
  <2>6. x \in segs' /\ SameStream(x, p) /\ x.last = p.ts
    <3>1. x \in segs'
      BY <1>2, <2>5
    <3>2. p.src = src /\ p.str = s /\ p.ts = enc[s].upto
      BY <2>1
    <3> QED BY <2>4, <2>5, <3>1, <3>2 DEF SameStream
  <2> QED BY <2>1, <2>3, <2>6, <1>4, <1>5 DEF Row
<1>15. clock' \subseteq ClockEntry
  BY <1>2 DEF TypeOK
<1>16. segs \subseteq segs'
  BY <1>2
<1> QED BY <1>8, <1>9, <1>10, <1>12, <1>13, <1>14, <1>15, <1>16

-----------------------------------------------------------------------------
(***************************************************************************)
(* Type correctness.                                                       *)
(***************************************************************************)

\* The resting values of the thread's work are well typed.
LEMMA NoWorkType ==
  /\ NoJob \in [src : Sources, batch : SUBSET Streams, cap : Nat]
  /\ NoPass \in [on : BOOLEAN, src : Sources, strs : SUBSET Streams,
                 whole : BOOLEAN, floored : BOOLEAN,
                 cutoff : Cutoffs \cup {NoTs}, untried : SUBSET Streams]
<1>1. (CHOOSE s \in Sources : TRUE) \in Sources
  BY WriterAssumption
<1> QED BY <1>1 DEF NoJob, NoPass

\* A freshly created archive is well typed.  (Writer::create)
LEMMA InitTypeOK == Init => TypeOK
<1> SUFFICES ASSUME Init  PROVE TypeOK
  OBVIOUS
<1>1. /\ nextSeq \in [Keys -> Nat]
      /\ watermarks \in [Keys -> Timestamps \cup {NoTs}]
      /\ floors \in [Sources -> Timestamps \cup {NoTs}]
      /\ deferred \in [Keys -> Nat]
  BY DEF Init, Blank
<1>2. /\ job \in [src : Sources, batch : SUBSET Streams, cap : Nat]
      /\ pass \in [on : BOOLEAN, src : Sources, strs : SUBSET Streams,
                   whole : BOOLEAN, floored : BOOLEAN,
                   cutoff : Cutoffs \cup {NoTs}, untried : SUBSET Streams]
  BY NoWorkType DEF Init
<1> QED BY <1>1, <1>2 DEF Init, TypeOK

\* A list entry keeps a positive cap, the smallest asked for.  (deferred)
LEMMA SmallerType ==
  ASSUME NEW a \in Nat, NEW b \in Nat
  PROVE  Smaller(a, b) \in Nat
BY DEF Smaller

\* A committed seal leaves the file and the caches well typed.  (seal_batch)
LEMMA CommitSealTypeOK ==
  ASSUME TypeOK, NEW src \in Sources, NEW batch \in SUBSET Streams,
         NEW cap \in Nat, CommitSeal(src, batch, cap)
  PROVE  TypeOK'
<1>1. /\ segs' \subseteq Segment /\ clock' \subseteq ClockEntry
      /\ nextSeq' \in [Keys -> Nat]
      /\ watermarks' \in [Keys -> Timestamps \cup {NoTs}]
      /\ prunes' \subseteq Row
  BY CommitSealEffect DEF TypeOK
<1>2. /\ UNCHANGED <<known, wal, callers, up, floors, dropped, tick, landed>>
      /\ pass' = [pass EXCEPT !.untried = @ \ batch]
      /\ \/ SealDone(src, batch)
         \/ /\ op' = "prune"
            /\ job' = [src |-> src, batch |-> batch, cap |-> cap]
            /\ UNCHANGED deferred
  BY DEF CommitSeal
<1>3. op' \in {"idle", "split", "prune", "seal", "evict"}
  BY <1>2 DEF SealDone
<1>4. job' \in [src : Sources, batch : SUBSET Streams, cap : Nat]
  BY <1>2, NoWorkType DEF SealDone
<1>5. deferred' \in [Keys -> Nat]
  BY <1>2 DEF SealDone, TypeOK
<1>6. pass' \in [on : BOOLEAN, src : Sources, strs : SUBSET Streams,
                 whole : BOOLEAN, floored : BOOLEAN,
                 cutoff : Cutoffs \cup {NoTs}, untried : SUBSET Streams]
  BY <1>2 DEF TypeOK
<1> QED BY <1>1, <1>2, <1>3, <1>4, <1>5, <1>6 DEF TypeOK

\* A deferred seal leaves the list and the pass well typed.  (Msg::Seal)
LEMMA DeferSealTypeOK ==
  ASSUME TypeOK, NEW src \in Sources, NEW batch \in SUBSET Streams,
         NEW cap \in Nat, DeferSeal(src, batch, cap)
  PROVE  TypeOK'
<1>1. deferred' \in [Keys -> Nat]
  <2>1. deferred \in [Keys -> Nat]
    BY DEF TypeOK
  <2> QED BY <2>1, SmallerType DEF DeferSeal
<1>2. pass' \in [on : BOOLEAN, src : Sources, strs : SUBSET Streams,
                 whole : BOOLEAN, floored : BOOLEAN,
                 cutoff : Cutoffs \cup {NoTs}, untried : SUBSET Streams]
  BY DEF DeferSeal, TypeOK
<1> QED BY <1>1, <1>2, NoWorkType DEF DeferSeal, TypeOK, file, caches

\* The next-state relation, one named disjunct per action.
Step ==
  \/ \E src \in Sources : AddSource(src)
  \/ \E src \in Sources : ResumeSource(src)
  \/ \E src \in Sources : CommitSourceTick(src)
  \/ \E rows \in TickRows : CommitTick(rows)
  \/ \E rows \in TickRows : SplitTick(rows)
  \/ DropCommit
  \/ \E src \in Sources, batch \in SUBSET Streams, cap \in Nat :
        up /\ op \in {"idle", "seal", "evict"} /\ CommitSeal(src, batch, cap)
  \/ \E src \in Sources, batch \in SUBSET Streams, cap \in Nat :
        up /\ op # "split" /\ DeferSeal(src, batch, cap)
  \/ FailPrune
  \/ \E p \in prunes : Prune(p)
  \/ \E src \in Sources, str \in Streams, rows \in (SUBSET Timestamps) \ {{}} :
        AdoptSegment(src, str, rows)
  \/ \E src \in Sources, strs \in SUBSET Streams, cutoff \in Cutoffs,
        whole, floored \in BOOLEAN : Evict(src, strs, whole, floored, cutoff)
  \/ \E str \in Streams : AbandonDeferred(str)
  \/ EvictCommit
  \/ EvictFails
  \/ \E c \in ClockEntry : ClockOffset(c.src, c.ts)
  \/ \E c \in CallerRow : CallerRows(c)
  \/ Stop
  \/ Reopen

\* A seal asked for, retried or deferred is one case: a commit or a deferral.
LEMMA NextIsStep ==
  ASSUME TypeOK, Next  PROVE Step
<1>1. ASSUME NEW src \in Sources, NEW batch \in (SUBSET Streams) \ {{}},
             NEW cap \in Caps, Seal(src, batch, cap)
      PROVE  Step
  <2>1. cap \in Nat
    BY WriterAssumption
  <2> QED BY <1>1, <2>1 DEF Seal, Idle, Step
<1>2. ASSUME RetrySeal  PROVE Step
  <2>1. job.src \in Sources /\ job.batch \in SUBSET Streams /\ job.cap \in Nat
    BY DEF TypeOK
  <2> QED BY <1>2, <2>1 DEF RetrySeal, Step
<1>3. ASSUME NEW str \in Streams, RetryDeferred(str)  PROVE Step
  <2>1. pass.src \in Sources /\ {str} \in SUBSET Streams
    BY DEF TypeOK
  <2>2. deferred[<<pass.src, str>>] \in Nat
    BY <2>1 DEF TypeOK, Keys
  <2> QED BY <1>3, <2>1, <2>2 DEF RetryDeferred, Step
<1> QED BY <1>1, <1>2, <1>3 DEF Next, Step

\* Every step of the writer, the seals taken apart, keeps the types.
LEMMA StepTypeOK ==
  ASSUME TypeOK, Step  PROVE TypeOK'
<1>1. ASSUME NEW src \in Sources, AddSource(src)  PROVE TypeOK'
  BY <1>1 DEF AddSource, TypeOK, memory, work
<1>2. ASSUME NEW src \in Sources, ResumeSource(src)  PROVE TypeOK'
  <2>1. floors' \in [Sources -> Timestamps \cup {NoTs}]
    BY <1>2 DEF ResumeSource, TypeOK
  <2> QED BY <1>2, <2>1 DEF ResumeSource, TypeOK, file, work
<1>3. ASSUME NEW src \in Sources, CommitSourceTick(src)  PROVE TypeOK'
  <2>1. ASSUME NEW rest, rest \subseteq tick, NEW some \in BOOLEAN, NEW count \in Nat,
               SplitOn(rest, some, count)
        PROVE  /\ tick' \subseteq Row /\ op' \in {"idle", "split"}
               /\ landed' \in BOOLEAN /\ dropped' \in Nat
    BY <2>1 DEF SplitOn, TypeOK
  <2>2. /\ wal' \subseteq Row
        /\ tick' \subseteq Row /\ op' \in {"idle", "split"}
        /\ landed' \in BOOLEAN /\ dropped' \in Nat
    <3> DEFINE rows == {r \in tick : r.src = src}
    <3>1. /\ tick \ rows \subseteq tick /\ landed \in BOOLEAN /\ rows \subseteq Row
          /\ dropped \in Nat /\ dropped + 1 \in Nat /\ wal \subseteq Row
      BY DEF TypeOK
    <3>2. \/ wal' = wal \cup rows /\ SplitOn(tick \ rows, TRUE, dropped)
          \/ wal' = wal /\ SplitOn(tick \ rows, landed, dropped)
          \/ wal' = wal /\ SplitOn(tick \ rows, landed, dropped + 1)
      BY <1>3 DEF CommitSourceTick
    <3> HIDE DEF rows
    <3> QED BY <2>1, <3>1, <3>2
  <2> QED BY <1>3, <2>2 DEF CommitSourceTick, TypeOK, caches
<1>4. ASSUME NEW rows \in TickRows, CommitTick(rows)  PROVE TypeOK'
  <2>1. Admitted(rows) \subseteq Row
    BY DEF Admitted, TickRows
  <2> QED BY <1>4, <2>1 DEF CommitTick, TypeOK, caches, work
<1>5. ASSUME NEW rows \in TickRows, SplitTick(rows)  PROVE TypeOK'
  <2>1. Admitted(rows) \subseteq Row
    BY DEF Admitted, TickRows
  <2> QED BY <1>5, <2>1 DEF SplitTick, TypeOK, file, memory
<1>6. ASSUME DropCommit  PROVE TypeOK'
  BY <1>6 DEF DropCommit, TypeOK, file, caches, work
<1>7. ASSUME NEW src \in Sources, NEW batch \in SUBSET Streams, NEW cap \in Nat,
             CommitSeal(src, batch, cap)
      PROVE  TypeOK'
  BY <1>7, CommitSealTypeOK
<1>8. ASSUME NEW src \in Sources, NEW batch \in SUBSET Streams, NEW cap \in Nat,
             DeferSeal(src, batch, cap)
      PROVE  TypeOK'
  BY <1>8, DeferSealTypeOK
<1>9. ASSUME FailPrune  PROVE TypeOK'
  <2>1. job.src \in Sources /\ job.batch \in SUBSET Streams /\ job.cap \in Nat
    BY DEF TypeOK
  <2>2. CASE DeferSeal(job.src, job.batch, job.cap)
    BY <2>1, <2>2, DeferSealTypeOK
  <2>3. CASE /\ op' = "seal" /\ prunes' = {}
             /\ UNCHANGED <<file, memory, tick, landed, job, pass>>
    BY <2>3 DEF TypeOK, file, memory
  <2> QED BY <1>9, <2>2, <2>3 DEF FailPrune
<1>10. ASSUME NEW p \in prunes, Prune(p)  PROVE TypeOK'
  <2>1. /\ op' \in {"idle", "split", "prune", "seal", "evict"}
        /\ job' \in [src : Sources, batch : SUBSET Streams, cap : Nat]
        /\ deferred' \in [Keys -> Nat]
    <3>1. CASE SealDone(job.src, job.batch)
      BY <3>1, NoWorkType DEF SealDone, TypeOK
    <3>2. CASE UNCHANGED <<op, job, deferred>>
      BY <3>2 DEF TypeOK
    <3> QED BY <1>10, <3>1, <3>2 DEF Prune
  <2> QED BY <1>10, <2>1 DEF Prune, TypeOK, caches
<1>11. ASSUME NEW src \in Sources, NEW str \in Streams,
              NEW rows \in SUBSET Timestamps, AdoptSegment(src, str, rows)
       PROVE  TypeOK'
  <2>1. PICK f \in rows, l \in rows :
          /\ segs' = segs \cup {[src |-> src, str |-> str, seq |-> nextSeq[<<src, str>>],
                                 first |-> f, last |-> l, rows |-> rows]}
          /\ nextSeq' = [nextSeq EXCEPT ![<<src, str>>] = @ + 1]
          /\ watermarks' = [watermarks EXCEPT ![<<src, str>>] = l]
    BY <1>11 DEF AdoptSegment
  <2>2. <<src, str>> \in Keys
    BY DEF Keys
  <2>3. nextSeq \in [Keys -> Nat] /\ watermarks \in [Keys -> Timestamps \cup {NoTs}]
    BY DEF TypeOK
  <2>4. nextSeq' \in [Keys -> Nat] /\ watermarks' \in [Keys -> Timestamps \cup {NoTs}]
    BY <2>1, <2>2, <2>3
  <2>5. segs' \subseteq Segment
    BY <2>1, <2>2, <2>3 DEF TypeOK, Segment
  <2> QED BY <1>11, <2>4, <2>5 DEF AdoptSegment, TypeOK, work
<1>12. ASSUME NEW src \in Sources, NEW strs \in SUBSET Streams, NEW cutoff \in Cutoffs,
              NEW whole \in BOOLEAN, NEW floored \in BOOLEAN,
              Evict(src, strs, whole, floored, cutoff)
       PROVE  TypeOK'
  <2>1. Listed(src) \in SUBSET Streams
    BY DEF Listed
  <2>2. pass' \in [on : BOOLEAN, src : Sources, strs : SUBSET Streams,
                   whole : BOOLEAN, floored : BOOLEAN,
                   cutoff : Cutoffs \cup {NoTs}, untried : SUBSET Streams]
    BY <1>12, <2>1 DEF Evict
  <2> QED BY <1>12, <2>2 DEF Evict, TypeOK, file, memory
<1>13. ASSUME NEW str \in Streams, AbandonDeferred(str)  PROVE TypeOK'
  <2>1. /\ deferred' \in [Keys -> Nat]
        /\ pass' \in [on : BOOLEAN, src : Sources, strs : SUBSET Streams,
                      whole : BOOLEAN, floored : BOOLEAN,
                      cutoff : Cutoffs \cup {NoTs}, untried : SUBSET Streams]
    BY <1>13 DEF AbandonDeferred, TypeOK
  <2> QED BY <1>13, <2>1, NoWorkType DEF AbandonDeferred, TypeOK, file, caches
<1>14. ASSUME EvictCommit  PROVE TypeOK'
  BY <1>14, NoWorkType DEF EvictCommit, TypeOK, memory
<1>15. ASSUME EvictFails  PROVE TypeOK'
  BY <1>15, NoWorkType DEF EvictFails, TypeOK, file, memory
<1>16. ASSUME NEW c \in ClockEntry, ClockOffset(c.src, c.ts)  PROVE TypeOK'
  <2>1. [src |-> c.src, ts |-> c.ts] \in ClockEntry
    BY DEF ClockEntry
  <2> QED BY <1>16, <2>1 DEF ClockOffset, TypeOK, caches, work
<1>17. ASSUME NEW c \in CallerRow, CallerRows(c)  PROVE TypeOK'
  BY <1>17 DEF CallerRows, TypeOK, caches, work
<1>18. ASSUME Stop  PROVE TypeOK'
  <2>1. /\ nextSeq' \in [Keys -> Nat] /\ watermarks' \in [Keys -> Timestamps \cup {NoTs}]
        /\ floors' \in [Sources -> Timestamps \cup {NoTs}] /\ deferred' \in [Keys -> Nat]
    BY <1>18 DEF Stop
  <2> QED BY <1>18, <2>1, NoWorkType DEF Stop, TypeOK, file
<1>19. ASSUME Reopen  PROVE TypeOK'
  <2>1. \A s \in segs : s.seq + 1 \in Nat /\ s.last \in Timestamps
    BY DEF TypeOK, Segment
  <2>2. /\ {0} \cup {s.seq + 1 : s \in segs} \subseteq Nat
        /\ {NoTs} \cup {s.last : s \in segs} \subseteq Timestamps \cup {NoTs}
    BY <2>1
  <2>3. nextSeq' \in [Keys -> Nat] /\ watermarks' \in [Keys -> Timestamps \cup {NoTs}]
    BY <1>19, <2>2 DEF Reopen
  <2> QED BY <1>19, <2>3 DEF Reopen, TypeOK, file, work
<1> QED BY <1>1, <1>2, <1>3, <1>4, <1>5, <1>6, <1>7, <1>8, <1>9, <1>10, <1>11, <1>12,
           <1>13, <1>14, <1>15, <1>16, <1>17, <1>18, <1>19 DEF Step

\* Every table, cache and work list keeps its type through every handler,
\* failure, kill and reopening.
THEOREM TypeCorrect == Spec => []TypeOK
<1>1. TypeOK /\ Next => TypeOK'
  BY NextIsStep, StepTypeOK
<1>2. TypeOK /\ UNCHANGED vars => TypeOK'
  BY DEF TypeOK, vars, file, memory, work
<1> QED BY InitTypeOK, <1>1, <1>2, PTL DEF Spec

-----------------------------------------------------------------------------
(***************************************************************************)
(* The inductive invariant.  The order of a stream's segments needs the    *)
(* caches to be ahead of the file (the next number is free) and the caches *)
(* need the order of the unfinished work (nothing but a seal, an adoption  *)
(* or a reopening moves them).                                             *)
(***************************************************************************)
Inv ==
  /\ TypeOK
  /\ SealedInOrder
  /\ SpansHold
  /\ CachesCover
  /\ PendingCovered

\* What the columns of a segments row range over.
LEMMA SegmentFields ==
  ASSUME NEW s \in Segment
  PROVE  /\ <<s.src, s.str>> \in Keys /\ s.seq \in Nat /\ s.seq \in Int
         /\ s.first \in Int /\ s.last \in Int
<1>1. /\ s.src \in Sources /\ s.str \in Streams /\ s.seq \in Nat
      /\ s.first \in Timestamps /\ s.last \in Timestamps
  BY DEF Segment
<1>2. <<s.src, s.str>> \in Keys
  BY <1>1 DEF Keys
<1>3. s.seq \in Int
  BY <1>1
<1>4. Timestamps \subseteq Int
  BY TimestampsAssumption
<1>5. s.first \in Int
  BY <1>1, <1>4
<1>6. s.last \in Int
  BY <1>1, <1>4
<1> QED BY <1>1, <1>2, <1>3, <1>5, <1>6

\* An empty archive satisfies the invariant.  (Writer::create)
LEMMA InitInv == Init => Inv
BY InitTypeOK
   DEF Init, Inv, SealedInOrder, SpansHold, CachesCover, PendingCovered, NoPass

\* Steps that leave the segments and the caches alone keep the order, the
\* spans and the coverage.
LEMMA SegmentsKept ==
  ASSUME Inv, UNCHANGED <<segs, up, nextSeq, watermarks>>
  PROVE  SealedInOrder' /\ SpansHold' /\ CachesCover'
BY DEF Inv, SealedInOrder, SpansHold, CachesCover

\* ... or the work in progress and the prunes it is waiting for.
LEMMA PendingKept ==
  ASSUME Inv, UNCHANGED <<segs, up, watermarks, floors, op, tick, prunes, pass>>
  PROVE  PendingCovered'
BY DEF Inv, PendingCovered

\* New segments past everything sealed, numbered from next_seq.
LEMMA CommitSealInv ==
  ASSUME Inv, NEW src \in Sources, NEW batch \in SUBSET Streams, NEW cap \in Nat,
         up, op \in {"idle", "seal", "evict"}, CommitSeal(src, batch, cap)
  PROVE  SealedInOrder' /\ SpansHold' /\ CachesCover' /\ PendingCovered'
<1>1. TypeOK
  BY DEF Inv
<1>2. /\ segs \subseteq segs'
      /\ nextSeq' \in [Keys -> Nat]
      /\ watermarks' \in [Keys -> Timestamps \cup {NoTs}]
      /\ \A k \in Keys :
           \/ nextSeq'[k] = nextSeq[k] /\ watermarks'[k] = watermarks[k]
           \/ /\ nextSeq'[k] > nextSeq[k]
              /\ watermarks'[k] \in LiveTimes(wal, segs, k[1], k[2])
  BY <1>1, CommitSealEffect
<1>3. ASSUME NEW x \in segs' \ segs
      PROVE  /\ x \in Segment /\ x.first <= x.last
             /\ nextSeq[<<x.src, x.str>>] <= x.seq
             /\ x.seq < nextSeq'[<<x.src, x.str>>]
             /\ \E o \in LiveTimes(wal, segs, x.src, x.str) : o <= x.first
             /\ x.last \in LiveTimes(wal, segs, x.src, x.str)
             /\ x.last <= watermarks'[<<x.src, x.str>>]
             /\ x.rows = {t \in LiveTimes(wal, segs, x.src, x.str) :
                             x.first <= t /\ t <= x.last}
  BY <1>1, <1>3, CommitSealEffect
<1>4. \A x, y \in segs' \ segs : SameStream(x, y) =>
         \/ x = y
         \/ x.seq < y.seq /\ x.last < y.first
         \/ y.seq < x.seq /\ y.last < x.first
  BY <1>1, CommitSealEffect
<1>5. \A p \in prunes' : \E x \in segs' : SameStream(x, p) /\ x.last = p.ts
  BY <1>1, CommitSealEffect
<1>6. /\ segs \subseteq Segment /\ segs' \subseteq Segment
      /\ \A s \in Segment : /\ <<s.src, s.str>> \in Keys /\ s.seq \in Int
                            /\ s.first \in Int /\ s.last \in Int
  <2>1. \A s \in Segment : /\ <<s.src, s.str>> \in Keys /\ s.seq \in Int
                            /\ s.first \in Int /\ s.last \in Int
    BY SegmentFields
  <2>2. segs \subseteq Segment
    BY <1>1 DEF TypeOK
  <2>3. segs' \subseteq Segment
    BY <1>3, <2>2
  <2> QED BY <2>1, <2>2, <2>3
<1>7. ASSUME NEW s \in segs, NEW src2, NEW str2, s.src = src2, s.str = str2,
             NEW t \in LiveTimes(wal, segs, src2, str2)
      PROVE  s.last < t /\ t \in Int
  <2>1. PICK r \in LiveWal(wal, segs) : r.src = src2 /\ r.str = str2 /\ r.ts = t
    BY DEF LiveTimes
  <2>2. SameStream(s, r) /\ IsLive(r, segs)
    BY <1>7, <2>1 DEF SameStream, LiveWal
  <2>3. t \in Int
    BY TimestampsAssumption DEF LiveTimes
  <2> QED BY <2>1, <2>2, <2>3 DEF IsLive
<1>8. ASSUME NEW s \in segs, NEW x \in segs' \ segs, SameStream(s, x)
      PROVE  s.seq < x.seq /\ s.last < x.first
  <2>1. s.src = x.src /\ s.str = x.str
    BY <1>8 DEF SameStream
  <2>2. PICK o \in LiveTimes(wal, segs, x.src, x.str) : o <= x.first
    BY <1>3
  <2>3. s.last < o /\ o \in Int
    BY <1>7, <2>1
  <2>4. s.seq < nextSeq[<<x.src, x.str>>] /\ nextSeq[<<x.src, x.str>>] \in Int
    BY <1>1, <1>6, <2>1 DEF Inv, CachesCover, TypeOK
  <2>5. x.seq \in Int /\ s.seq \in Int /\ x.first \in Int /\ s.last \in Int
    BY <1>3, <1>6
  <2>6. nextSeq[<<x.src, x.str>>] <= x.seq
    BY <1>3
  <2>7. s.seq < x.seq
    BY <2>4, <2>5, <2>6
  <2>8. s.last < x.first
    BY <2>2, <2>3, <2>5
  <2> QED BY <2>7, <2>8
<1>9. SealedInOrder'
  <2> SUFFICES ASSUME NEW x \in segs', NEW y \in segs', SameStream(x, y)
               PROVE  \/ x = y
                      \/ x.seq < y.seq /\ x.last < y.first
                      \/ y.seq < x.seq /\ y.last < x.first
    BY DEF SealedInOrder
  <2>1. SameStream(y, x)
    BY DEF SameStream
  <2>2. CASE x \in segs /\ y \in segs
    BY <2>2 DEF Inv, SealedInOrder
  <2>3. CASE x \in segs /\ y \notin segs
    BY <1>8, <2>3
  <2>4. CASE x \notin segs /\ y \in segs
    BY <1>8, <2>1, <2>4
  <2>5. CASE x \notin segs /\ y \notin segs
    BY <1>4, <2>5
  <2> QED BY <2>2, <2>3, <2>4, <2>5
<1>10. SpansHold'
  <2> SUFFICES ASSUME NEW x \in segs'
               PROVE  /\ \A t \in x.rows : x.first <= t /\ t <= x.last
                      /\ x.last \in x.rows
    BY DEF SpansHold
  <2>1. CASE x \in segs
    BY <2>1 DEF Inv, SpansHold
  <2>2. CASE x \notin segs
    <3>1. /\ x.last \in LiveTimes(wal, segs, x.src, x.str)
          /\ \E o \in LiveTimes(wal, segs, x.src, x.str) : o <= x.first
          /\ x.rows = {t \in LiveTimes(wal, segs, x.src, x.str) :
                          x.first <= t /\ t <= x.last}
          /\ x.first \in Int /\ x.last \in Int
      BY <1>3, <1>6, <2>2
    <3>2. x.first <= x.last
      BY <1>3, <2>2
    <3> QED BY <3>1, <3>2
  <2> QED BY <2>1, <2>2
<1>11. CachesCover'
  <2> SUFFICES ASSUME NEW x \in segs'
               PROVE  /\ x.seq < nextSeq'[<<x.src, x.str>>]
                      /\ x.last <= watermarks'[<<x.src, x.str>>]
    BY DEF CachesCover
  <2>1. CASE x \in segs
    <3> DEFINE k == <<x.src, x.str>>
    <3>1. x.seq < nextSeq[k] /\ x.last <= watermarks[k] /\ k \in Keys
      BY <1>6, <2>1 DEF Inv, CachesCover
    <3>2. k[1] = x.src /\ k[2] = x.str
      OBVIOUS
    <3>3. nextSeq[k] \in Int /\ nextSeq'[k] \in Int /\ x.seq \in Int /\ x.last \in Int
      BY <1>1, <1>2, <1>6, <3>1 DEF TypeOK
    <3>4. CASE nextSeq'[k] = nextSeq[k] /\ watermarks'[k] = watermarks[k]
      BY <3>1, <3>4
    <3>5. CASE /\ nextSeq'[k] > nextSeq[k]
               /\ watermarks'[k] \in LiveTimes(wal, segs, k[1], k[2])
      <4>1. x.last < watermarks'[k] /\ watermarks'[k] \in Int
        BY <1>7, <2>1, <3>2, <3>5
      <4> QED BY <3>1, <3>3, <3>5, <4>1
    <3> QED BY <1>2, <3>1, <3>4, <3>5
  <2>2. CASE x \notin segs
    BY <1>3, <2>2
  <2> QED BY <2>1, <2>2
<1>12. PendingCovered'
  <2>1. /\ UNCHANGED <<up, floors, tick>> /\ pass'.on = pass.on
        /\ \/ /\ SealDone(src, batch) /\ prunes' = {}
           \/ op' = "prune" /\ prunes' # {}
    <3>1. UNCHANGED <<up, floors, tick>>
      BY DEF CommitSeal
    <3>2. pass'.on = pass.on
      BY <1>1 DEF CommitSeal, TypeOK
    <3>3. \/ SealDone(src, batch) /\ prunes' = {}
          \/ op' = "prune" /\ prunes' # {}
      <4>1. PICK enc \in [batch -> UNION {Encodings(LiveTimes(wal, segs, src, s), cap) :
                                             s \in batch}] :
              LET sealed == {s \in batch : enc[s].parts # {}} IN
              /\ prunes' = {[src |-> src, str |-> s, ts |-> enc[s].upto] : s \in sealed}
              /\ IF sealed = {} THEN SealDone(src, batch) ELSE op' = "prune"
        BY DEF CommitSeal
      <4> QED BY <4>1
    <3> QED BY <3>1, <3>2, <3>3
  <2>2. tick = {} /\ (pass.on => op \in {"evict", "prune", "seal"})
    BY DEF Inv, PendingCovered
  <2>3. op' = "split" <=> tick' # {}
    BY <2>1, <2>2 DEF SealDone
  <2>4. op' = "prune" <=> prunes' # {}
    BY <2>1 DEF SealDone
  <2>5. pass'.on => op' \in {"evict", "prune", "seal"}
    BY <2>1 DEF SealDone
  <2> QED BY <1>5, <2>1, <2>2, <2>3, <2>4, <2>5 DEF PendingCovered
<1> QED BY <1>9, <1>10, <1>11, <1>12

\* A deferral drops what was left to prune and keeps the rest.
LEMMA DeferSealInv ==
  ASSUME Inv, op # "split",
         NEW src \in Sources, NEW batch \in SUBSET Streams, NEW cap \in Nat,
         up, DeferSeal(src, batch, cap)
  PROVE  SealedInOrder' /\ SpansHold' /\ CachesCover' /\ PendingCovered'
<1>1. /\ UNCHANGED <<segs, up, nextSeq, watermarks, floors, tick>>
      /\ prunes' = {} /\ op' = (IF pass.on THEN "evict" ELSE "idle")
      /\ pass' = [pass EXCEPT !.untried = {}]
  BY DEF DeferSeal, file, caches
<1>2. pass'.on = pass.on
  BY <1>1 DEF Inv, TypeOK
<1>3. tick = {}
  BY DEF Inv, PendingCovered
<1>4. PendingCovered'
  BY <1>1, <1>2, <1>3 DEF Inv, PendingCovered
<1> QED BY <1>1, <1>4, SegmentsKept

\* A segment built elsewhere starts past the watermark.  (adopt_segment)
LEMMA AdoptSegmentInv ==
  ASSUME Inv, NEW src \in Sources, NEW str \in Streams,
         NEW rows \in SUBSET Timestamps, AdoptSegment(src, str, rows)
  PROVE  SealedInOrder' /\ SpansHold' /\ CachesCover' /\ PendingCovered'
<1> DEFINE k == <<src, str>>
<1>1. PICK f \in rows, l \in rows :
        /\ IsOldest(f, rows) /\ IsNewest(l, rows)
        /\ watermarks[k] < f
        /\ segs' = segs \cup {[src |-> src, str |-> str, seq |-> nextSeq[k],
                               first |-> f, last |-> l, rows |-> rows]}
        /\ nextSeq' = [nextSeq EXCEPT ![k] = @ + 1]
        /\ watermarks' = [watermarks EXCEPT ![k] = l]
  BY DEF AdoptSegment
<1> DEFINE new == [src |-> src, str |-> str, seq |-> nextSeq[k],
                   first |-> f, last |-> l, rows |-> rows]
<1>2. /\ UNCHANGED <<up, floors, op, tick, prunes, pass>>
      /\ up /\ op = "idle"
  BY DEF AdoptSegment, Idle, work
<1>3. /\ k \in Keys /\ nextSeq[k] \in Nat /\ nextSeq \in [Keys -> Nat]
      /\ watermarks \in [Keys -> Timestamps \cup {NoTs}]
      /\ watermarks[k] \in Int /\ f \in Int /\ l \in Int /\ f <= l
  <2>1. k \in Keys
    BY DEF Keys
  <2> QED BY <1>1, <2>1, TimestampsAssumption DEF Inv, TypeOK, IsOldest
<1>4. /\ new.src = src /\ new.str = str /\ new.seq = nextSeq[k]
      /\ new.first = f /\ new.last = l /\ new.rows = rows
  OBVIOUS
<1>5. segs' = segs \cup {new}
  BY <1>1
<1> HIDE DEF new, k
<1>6. ASSUME NEW s \in segs
      PROVE  /\ s \in Segment /\ <<s.src, s.str>> \in Keys
             /\ s.seq \in Int /\ s.last \in Int
             /\ s.seq < nextSeq[<<s.src, s.str>>]
             /\ s.last <= watermarks[<<s.src, s.str>>]
  BY <1>2, SegmentFields DEF Inv, TypeOK, CachesCover
<1>7. ASSUME NEW s \in segs, s.src = src, s.str = str
      PROVE  s.seq < new.seq /\ s.last < new.first
  <2>1. s.seq < nextSeq[k] /\ s.last <= watermarks[k]
    BY <1>6, <1>7 DEF k
  <2>2. s.last \in Int /\ watermarks[k] < f
    BY <1>1, <1>6
  <2>3. s.last < f
    BY <1>3, <2>1, <2>2
  <2> QED BY <1>4, <2>1, <2>3
<1>8. SealedInOrder'
  <2> SUFFICES ASSUME NEW x \in segs', NEW y \in segs', SameStream(x, y)
               PROVE  \/ x = y
                      \/ x.seq < y.seq /\ x.last < y.first
                      \/ y.seq < x.seq /\ y.last < x.first
    BY DEF SealedInOrder
  <2>1. CASE x \in segs /\ y \in segs
    BY <2>1 DEF Inv, SealedInOrder
  <2>2. CASE x \in segs /\ y = new
    BY <1>4, <1>7, <2>2 DEF SameStream
  <2>3. CASE x = new /\ y \in segs
    BY <1>4, <1>7, <2>3 DEF SameStream
  <2>4. CASE x = new /\ y = new
    BY <2>4
  <2> QED BY <1>5, <2>1, <2>2, <2>3, <2>4
<1>9. SpansHold'
  <2> SUFFICES ASSUME NEW x \in segs'
               PROVE  /\ \A t \in x.rows : x.first <= t /\ t <= x.last
                      /\ x.last \in x.rows
    BY DEF SpansHold
  <2>1. CASE x \in segs
    BY <2>1 DEF Inv, SpansHold
  <2>2. CASE x = new
    BY <1>1, <1>4, <2>2 DEF IsOldest, IsNewest
  <2> QED BY <1>5, <2>1, <2>2
<1>10. CachesCover'
  <2> SUFFICES ASSUME NEW x \in segs'
               PROVE  /\ x.seq < nextSeq'[<<x.src, x.str>>]
                      /\ x.last <= watermarks'[<<x.src, x.str>>]
    BY DEF CachesCover
  <2>1. nextSeq'[k] = nextSeq[k] + 1 /\ watermarks'[k] = l
    BY <1>1, <1>3
  <2>2. CASE x = new
    BY <1>3, <1>4, <2>1, <2>2 DEF k
  <2>3. CASE x \in segs /\ x.src = src /\ x.str = str
    <3>1. x.seq < nextSeq[k] /\ x.last <= watermarks[k]
      BY <1>6, <2>3 DEF k
    <3>2. x.seq \in Int /\ x.last \in Int
      BY <1>6, <2>3
    <3>3. x.seq < nextSeq'[k]
      BY <1>3, <2>1, <3>1, <3>2
    <3>4. x.last <= watermarks'[k]
      BY <1>1, <1>3, <2>1, <3>1, <3>2
    <3> QED BY <2>3, <3>3, <3>4 DEF k
  <2>4. CASE x \in segs /\ ~ (x.src = src /\ x.str = str)
    <3>1. <<x.src, x.str>> # k
      BY <2>4 DEF k
    <3>2. /\ nextSeq'[<<x.src, x.str>>] = nextSeq[<<x.src, x.str>>]
          /\ watermarks'[<<x.src, x.str>>] = watermarks[<<x.src, x.str>>]
      BY <1>1, <1>3, <1>6, <2>4, <3>1
    <3> QED BY <1>6, <2>4, <3>2
  <2> QED BY <1>5, <2>2, <2>3, <2>4
<1>11. PendingCovered'
  <2>1. tick = {} /\ prunes = {}
    BY <1>2 DEF Inv, PendingCovered
  <2> QED BY <1>2, <2>1 DEF Inv, PendingCovered
<1> QED BY <1>8, <1>9, <1>10, <1>11

\* Retention removes segments, and what is left is still in order.
LEMMA EvictCommitInv ==
  ASSUME Inv, EvictCommit
  PROVE  SealedInOrder' /\ SpansHold' /\ CachesCover' /\ PendingCovered'
<1>1. /\ segs' \subseteq segs /\ UNCHANGED <<up, nextSeq, watermarks, floors, tick, prunes>>
      /\ op = "evict" /\ op' = "idle" /\ pass' = NoPass
  BY DEF EvictCommit, memory
<1>2. SealedInOrder' /\ SpansHold' /\ CachesCover'
  BY <1>1 DEF Inv, SealedInOrder, SpansHold, CachesCover
<1>3. tick = {} /\ prunes = {} /\ ~ NoPass.on
  BY <1>1 DEF Inv, PendingCovered, NoPass
<1>4. PendingCovered'
  BY <1>1, <1>3 DEF PendingCovered
<1> QED BY <1>2, <1>4

\* A reopened writer's caches are the file's own maxima.  (next_seqs,
\* sealed_watermarks)
LEMMA ReopenInv ==
  ASSUME Inv, Reopen
  PROVE  SealedInOrder' /\ SpansHold' /\ CachesCover' /\ PendingCovered'
<1>1. /\ ~ up /\ UNCHANGED <<segs, floors, op, tick, prunes, pass>>
      /\ \A k \in Keys : /\ IsNextSeq(segs, k[1], k[2], nextSeq'[k])
                         /\ IsWatermark(segs, k[1], k[2], watermarks'[k])
  BY DEF Reopen, file, work
<1>2. SealedInOrder' /\ SpansHold'
  BY <1>1 DEF Inv, SealedInOrder, SpansHold
<1>3. ASSUME NEW s \in segs
      PROVE  /\ s.seq < nextSeq'[<<s.src, s.str>>]
             /\ s.last <= watermarks'[<<s.src, s.str>>]
  <2>1. <<s.src, s.str>> \in Keys
    BY SegmentFields DEF Inv, TypeOK
  <2>2. /\ IsNextSeq(segs, s.src, s.str, nextSeq'[<<s.src, s.str>>])
        /\ IsWatermark(segs, s.src, s.str, watermarks'[<<s.src, s.str>>])
    BY <1>1, <2>1
  <2> QED BY <2>2 DEF IsNextSeq, IsWatermark, StreamSegments
<1>4. CachesCover'
  BY <1>1, <1>3 DEF CachesCover
<1>5. op = "idle" /\ tick = {} /\ prunes = {}
  BY <1>1 DEF Inv, PendingCovered
<1>6. PendingCovered'
  BY <1>1, <1>5 DEF Inv, PendingCovered
<1> QED BY <1>2, <1>4, <1>6

\* Every step of the writer keeps the invariant, one case per action.
LEMMA StepInv ==
  ASSUME Inv, Step
  PROVE  SealedInOrder' /\ SpansHold' /\ CachesCover' /\ PendingCovered'
<1> DEFINE Kept == SealedInOrder' /\ SpansHold' /\ CachesCover' /\ PendingCovered'
<1>1. ASSUME NEW src \in Sources, AddSource(src)  PROVE Kept
  BY <1>1, SegmentsKept, PendingKept DEF AddSource, memory, work
<1>2. ASSUME NEW src \in Sources, ResumeSource(src)  PROVE Kept
  <2>1. tick = {}
    BY <1>2 DEF ResumeSource, Idle, Inv, PendingCovered
  <2>2. UNCHANGED <<segs, up, nextSeq, watermarks, op, tick, prunes, pass>>
    BY <1>2 DEF ResumeSource, file, work
  <2>3. PendingCovered'
    BY <2>1, <2>2 DEF Inv, PendingCovered
  <2> QED BY <2>2, <2>3, SegmentsKept
<1>3. ASSUME NEW src \in Sources, CommitSourceTick(src)  PROVE Kept
  <2>1. UNCHANGED <<segs, up, nextSeq, watermarks, floors, prunes, pass>> /\ op = "split" /\ up
    BY <1>3 DEF CommitSourceTick, caches
  <2>2. tick' \subseteq tick /\ op' = (IF tick' = {} THEN "idle" ELSE "split")
    BY <1>3 DEF CommitSourceTick, SplitOn
  <2>3. PendingCovered'
    <3>1. prunes = {} /\ ~ pass.on
      BY <2>1 DEF Inv, PendingCovered
    <3> QED BY <2>1, <2>2, <3>1 DEF Inv, PendingCovered
  <2> QED BY <2>1, <2>3, SegmentsKept
<1>4. ASSUME NEW rows \in TickRows, CommitTick(rows)  PROVE Kept
  BY <1>4, SegmentsKept, PendingKept DEF CommitTick, caches, work
<1>5. ASSUME NEW rows \in TickRows, SplitTick(rows)  PROVE Kept
  <2>1. UNCHANGED <<segs, up, nextSeq, watermarks, floors, prunes, pass>>
    BY <1>5 DEF SplitTick, file, memory
  <2>2. up /\ op = "idle" /\ op' = "split" /\ tick' = Admitted(rows) /\ tick' # {}
    BY <1>5 DEF SplitTick, Idle, Collides
  <2>3. \A r \in Admitted(rows) :
           floors[r.src] < r.ts /\ watermarks[<<r.src, r.str>>] < r.ts
    <3> SUFFICES ASSUME NEW r \in Admitted(rows)
                 PROVE  floors[r.src] < r.ts /\ watermarks[<<r.src, r.str>>] < r.ts
      OBVIOUS
    <3>1. r \in rows /\ r.ts > floors[r.src] /\ r.ts > watermarks[<<r.src, r.str>>]
      BY DEF Admitted
    <3>2. r \in Row
      BY <3>1 DEF TickRows
    <3>3. /\ r.ts \in Int /\ floors[r.src] \in Int
          /\ watermarks[<<r.src, r.str>>] \in Int
      BY <3>2, TimestampsAssumption DEF Row, Keys, Inv, TypeOK
    <3> QED BY <3>1, <3>3
  <2>4. prunes = {} /\ ~ pass.on
    BY <2>2 DEF Inv, PendingCovered
  <2>5. PendingCovered'
    BY <2>1, <2>2, <2>3, <2>4 DEF Inv, PendingCovered
  <2> QED BY <2>1, <2>5, SegmentsKept
<1>6. ASSUME DropCommit  PROVE Kept
  BY <1>6, SegmentsKept, PendingKept DEF DropCommit, file, caches, work
<1>7. ASSUME NEW src \in Sources, NEW batch \in SUBSET Streams, NEW cap \in Nat,
             up, op \in {"idle", "seal", "evict"}, CommitSeal(src, batch, cap)
      PROVE  Kept
  BY <1>7, CommitSealInv
<1>8. ASSUME NEW src \in Sources, NEW batch \in SUBSET Streams, NEW cap \in Nat,
             up, op # "split", DeferSeal(src, batch, cap)
      PROVE  Kept
  BY <1>8, DeferSealInv
<1>9. ASSUME FailPrune  PROVE Kept
  <2>1. job.src \in Sources /\ job.batch \in SUBSET Streams /\ job.cap \in Nat
    BY DEF Inv, TypeOK
  <2>2. CASE DeferSeal(job.src, job.batch, job.cap)
    BY <1>9, <2>1, <2>2, DeferSealInv DEF FailPrune
  <2>3. CASE /\ op' = "seal" /\ prunes' = {}
             /\ UNCHANGED <<file, memory, tick, landed, job, pass>>
    <3>1. op = "prune" /\ up
      BY <1>9 DEF FailPrune
    <3>2. UNCHANGED <<segs, up, nextSeq, watermarks, floors, tick, pass>>
      BY <2>3 DEF file, memory
    <3>3. PendingCovered'
      BY <2>3, <3>1, <3>2 DEF Inv, PendingCovered
    <3> QED BY <3>2, <3>3, SegmentsKept
  <2> QED BY <1>9, <2>2, <2>3 DEF FailPrune
<1>10. ASSUME NEW p \in prunes, Prune(p)  PROVE Kept
  <2>1. /\ UNCHANGED <<segs, up, nextSeq, watermarks, floors, tick, pass>>
        /\ prunes' = prunes \ {p} /\ up /\ op = "prune"
        /\ IF prunes = {p} THEN SealDone(job.src, job.batch) ELSE op' = op
    BY <1>10 DEF Prune, caches
  <2>2. tick = {}
    BY <2>1 DEF Inv, PendingCovered
  <2>3. PendingCovered'
    BY <2>1, <2>2 DEF SealDone, Inv, PendingCovered
  <2> QED BY <2>1, <2>3, SegmentsKept
<1>11. ASSUME NEW src \in Sources, NEW str \in Streams,
              NEW rows \in SUBSET Timestamps, AdoptSegment(src, str, rows)
       PROVE  Kept
  BY <1>11, AdoptSegmentInv
<1>12. ASSUME NEW src \in Sources, NEW strs \in SUBSET Streams, NEW cutoff \in Cutoffs,
              NEW whole \in BOOLEAN, NEW floored \in BOOLEAN,
              Evict(src, strs, whole, floored, cutoff)
       PROVE  Kept
  <2>1. UNCHANGED <<segs, up, nextSeq, watermarks, floors, tick, prunes>>
    BY <1>12 DEF Evict, file, memory
  <2>2. up /\ op = "idle" /\ op' = "evict"
    BY <1>12 DEF Evict, Idle
  <2>3. PendingCovered'
    BY <2>1, <2>2 DEF Inv, PendingCovered
  <2> QED BY <2>1, <2>3, SegmentsKept
<1>13. ASSUME NEW str \in Streams, AbandonDeferred(str)  PROVE Kept
  <2>1. /\ UNCHANGED <<segs, up, nextSeq, watermarks, floors, tick>>
        /\ up /\ pass.on /\ op' = "evict" /\ prunes' = {}
    BY <1>13 DEF AbandonDeferred, file, caches
  <2>2. tick = {}
    BY <2>1 DEF Inv, PendingCovered
  <2>3. PendingCovered'
    BY <2>1, <2>2 DEF Inv, PendingCovered
  <2> QED BY <2>1, <2>3, SegmentsKept
<1>14. ASSUME EvictCommit  PROVE Kept
  BY <1>14, EvictCommitInv
<1>15. ASSUME EvictFails  PROVE Kept
  <2>1. /\ UNCHANGED <<segs, up, nextSeq, watermarks, floors, tick, prunes>>
        /\ up /\ op = "evict" /\ op' = "idle" /\ pass' = NoPass
    BY <1>15 DEF EvictFails, file, memory
  <2>2. tick = {} /\ prunes = {} /\ ~ NoPass.on
    BY <2>1 DEF Inv, PendingCovered, NoPass
  <2>3. PendingCovered'
    BY <2>1, <2>2 DEF PendingCovered
  <2> QED BY <2>1, <2>3, SegmentsKept
<1>16. ASSUME NEW c \in ClockEntry, ClockOffset(c.src, c.ts)  PROVE Kept
  BY <1>16, SegmentsKept, PendingKept DEF ClockOffset, caches, work
<1>17. ASSUME NEW c \in CallerRow, CallerRows(c)  PROVE Kept
  BY <1>17, SegmentsKept, PendingKept DEF CallerRows, caches, work
<1>18. ASSUME Stop  PROVE Kept
  <2>1. /\ segs' = segs /\ ~ up' /\ op' = "idle" /\ tick' = {} /\ prunes' = {}
        /\ pass' = NoPass /\ ~ NoPass.on
    BY <1>18 DEF Stop, file, NoPass
  <2> QED BY <2>1 DEF Inv, SealedInOrder, SpansHold, CachesCover, PendingCovered
<1>19. ASSUME Reopen  PROVE Kept
  BY <1>19, ReopenInv
<1> HIDE DEF Kept
<1>20. Kept
  BY <1>1, <1>2, <1>3, <1>4, <1>5, <1>6, <1>7, <1>8, <1>9, <1>10, <1>11, <1>12,
     <1>13, <1>14, <1>15, <1>16, <1>17, <1>18, <1>19 DEF Step
<1> QED BY <1>20 DEF Kept

\* The whole invariant, of every behaviour of the writer and its file.
THEOREM Invariance == Spec => []Inv
<1>1. Inv /\ Next => Inv'
  BY NextIsStep, StepTypeOK, StepInv DEF Inv
<1>2. Inv /\ UNCHANGED vars => Inv'
  <2> SUFFICES ASSUME Inv, UNCHANGED vars  PROVE Inv'
    OBVIOUS
  <2>1. /\ UNCHANGED <<segs, up, nextSeq, watermarks, floors, op, tick, prunes, pass>>
        /\ TypeOK'
    BY DEF vars, file, memory, caches, work, Inv, TypeOK
  <2> QED BY <2>1, SegmentsKept, PendingKept DEF Inv
<1> QED BY InitInv, <1>1, <1>2, PTL DEF Spec

\* A stream's segments are its rows in time order and in seq order, none of
\* them sealed twice, across retries, adoptions, evictions and reopenings.
THEOREM SegmentsInOrder == Spec => []SealedInOrder
<1>1. Inv => SealedInOrder
  BY DEF Inv
<1> QED BY <1>1, Invariance, PTL

\* The catalog's span of a segment holds the rows in its bytes and ends at one.
THEOREM SpansAreTrue == Spec => []SpansHold
<1>1. Inv => SpansHold
  BY DEF Inv
<1> QED BY <1>1, Invariance, PTL

\* next_seq and watermarks never fall behind the file while the thread runs.
THEOREM CachesAreAhead == Spec => []CachesCover
<1>1. Inv => CachesCover
  BY DEF Inv
<1> QED BY <1>1, Invariance, PTL

\* A waiting row may be committed and a waiting prune may be run.
THEOREM PendingWorkIsCovered == Spec => []PendingCovered
<1>1. Inv => PendingCovered
  BY DEF Inv
<1> QED BY <1>1, Invariance, PTL

-----------------------------------------------------------------------------
(***************************************************************************)
(* What one step may do to the tables.                                     *)
(***************************************************************************)

\* Sealing, deferring and adopting leave the wal table alone.
LEMMA SealsKeepWal ==
  ASSUME NEW src, NEW str, NEW batch, NEW cap, NEW rows,
         \/ CommitSeal(src, batch, cap)
         \/ DeferSeal(src, batch, cap)
         \/ FailPrune
         \/ AdoptSegment(src, str, rows)
  PROVE  wal' = wal
<1>1. CASE CommitSeal(src, batch, cap)
  BY <1>1 DEF CommitSeal
<1>2. ASSUME NEW b, NEW c, NEW d, DeferSeal(b, c, d)  PROVE wal' = wal
  BY <1>2 DEF DeferSeal, file
<1>3. CASE FailPrune
  BY <1>2, <1>3 DEF FailPrune, file
<1>4. CASE AdoptSegment(src, str, rows)
  BY <1>4 DEF AdoptSegment
<1> QED BY <1>1, <1>2, <1>3, <1>4

\* A row reaches the wal table only through commit_tick, past its floor and
\* its watermark, and while no segment moves.
LEMMA RowsStored ==
  ASSUME Inv, Step, NEW r \in wal' \ wal
  PROVE  /\ segs' = segs /\ up /\ r \in Row
         /\ floors[r.src] < r.ts /\ watermarks[<<r.src, r.str>>] < r.ts
<1>1. ASSUME NEW src \in Sources, CommitSourceTick(src), r \in tick
      PROVE  /\ segs' = segs /\ up /\ r \in Row
             /\ floors[r.src] < r.ts /\ watermarks[<<r.src, r.str>>] < r.ts
  BY <1>1 DEF CommitSourceTick, Inv, TypeOK, PendingCovered
<1>2. ASSUME NEW rows \in TickRows, CommitTick(rows), r \in Admitted(rows)
      PROVE  /\ segs' = segs /\ up /\ r \in Row
             /\ floors[r.src] < r.ts /\ watermarks[<<r.src, r.str>>] < r.ts
  <2>1. /\ r \in Row
        /\ r.ts > floors[r.src] /\ r.ts > watermarks[<<r.src, r.str>>]
    BY <1>2 DEF Admitted, TickRows
  <2>2. /\ r.ts \in Int /\ floors[r.src] \in Int
        /\ watermarks[<<r.src, r.str>>] \in Int
    BY <2>1, TimestampsAssumption DEF Row, Keys, Inv, TypeOK
  <2>3. segs' = segs /\ up
    BY <1>2 DEF CommitTick, Idle
  <2> QED BY <2>1, <2>2, <2>3
<1>3. ASSUME NEW src \in Sources, CommitSourceTick(src)  PROVE r \in tick
  BY <1>3 DEF CommitSourceTick
<1>4. ASSUME NEW rows \in TickRows, CommitTick(rows)  PROVE r \in Admitted(rows)
  BY <1>4 DEF CommitTick
<1>5. \/ \E src \in Sources : CommitSourceTick(src)
      \/ \E rows \in TickRows : CommitTick(rows)
      \/ wal' \subseteq wal
  <2>1. CASE \/ \E src \in Sources : AddSource(src) \/ ResumeSource(src)
             \/ \E rows \in TickRows : SplitTick(rows)
             \/ DropCommit \/ EvictFails \/ Stop \/ Reopen
             \/ \E c \in ClockEntry : ClockOffset(c.src, c.ts)
             \/ \E c \in CallerRow : CallerRows(c)
             \/ \E str \in Streams : AbandonDeferred(str)
    BY <2>1 DEF AddSource, ResumeSource, SplitTick, DropCommit, EvictFails, Stop,
                Reopen, ClockOffset, CallerRows, AbandonDeferred, file
  <2>2. CASE \E src \in Sources, strs \in SUBSET Streams, cutoff \in Cutoffs,
                whole, floored \in BOOLEAN : Evict(src, strs, whole, floored, cutoff)
    BY <2>2 DEF Evict, file
  <2>3. CASE EvictCommit \/ \E p \in prunes : Prune(p)
    BY <2>3 DEF EvictCommit, Prune
  <2> QED BY <2>1, <2>2, <2>3, SealsKeepWal DEF Step
<1> QED BY <1>1, <1>2, <1>3, <1>4, <1>5

\* A segment leaves the file only in a retention pass.
LEMMA SegmentsLost ==
  ASSUME TypeOK, Step  PROVE segs \subseteq segs' \/ EvictCommit
<1>1. ASSUME NEW src \in Sources, NEW batch \in SUBSET Streams, NEW cap \in Nat,
             CommitSeal(src, batch, cap)
      PROVE  segs \subseteq segs'
  BY <1>1, CommitSealEffect
<1>2. ASSUME NEW src \in Sources, NEW str \in Streams,
             NEW rows \in SUBSET Timestamps, AdoptSegment(src, str, rows)
      PROVE  segs \subseteq segs'
  BY <1>2 DEF AdoptSegment
<1> QED BY <1>1, <1>2
        DEF Step, AddSource, ResumeSource, CommitSourceTick, CommitTick, SplitTick,
            DropCommit, DeferSeal, FailPrune, Prune, Evict, AbandonDeferred,
            EvictFails, ClockOffset, CallerRows, Stop, Reopen, file

\* A row leaves the wal table in a retention pass, or in a prune that runs
\* when a committed segment of its stream already reaches it.
LEMMA RowsLost ==
  ASSUME Inv, Step, ~ EvictCommit, NEW r \in wal \ wal'
  PROVE  ~ IsLive(r, segs)
<1>1. \/ \E p \in prunes : Prune(p)
      \/ wal \subseteq wal'
  <2>1. CASE \/ \E src \in Sources : AddSource(src) \/ ResumeSource(src)
             \/ \E rows \in TickRows : SplitTick(rows)
             \/ DropCommit \/ EvictFails \/ Stop \/ Reopen
             \/ \E c \in ClockEntry : ClockOffset(c.src, c.ts)
             \/ \E c \in CallerRow : CallerRows(c)
             \/ \E str \in Streams : AbandonDeferred(str)
    BY <2>1 DEF AddSource, ResumeSource, SplitTick, DropCommit, EvictFails, Stop,
                Reopen, ClockOffset, CallerRows, AbandonDeferred, file
  <2>2. CASE \E src \in Sources, strs \in SUBSET Streams, cutoff \in Cutoffs,
                whole, floored \in BOOLEAN : Evict(src, strs, whole, floored, cutoff)
    BY <2>2 DEF Evict, file
  <2>3. CASE \/ \E src \in Sources : CommitSourceTick(src)
             \/ \E rows \in TickRows : CommitTick(rows)
    BY <2>3 DEF CommitSourceTick, CommitTick
  <2> QED BY <2>1, <2>2, <2>3, SealsKeepWal DEF Step
<1>2. ASSUME NEW p \in prunes, Prune(p)  PROVE ~ IsLive(r, segs)
  <2>1. SameStream(r, p) /\ r.ts <= p.ts
    BY <1>2 DEF Prune
  <2>2. PICK s \in segs : SameStream(s, p) /\ s.last = p.ts
    BY <1>2 DEF Inv, PendingCovered
  <2>3. SameStream(s, r)
    BY <2>1, <2>2 DEF SameStream
  <2>4. r.ts \in Int /\ p.ts \in Int
    BY <1>2, TimestampsAssumption DEF Inv, TypeOK, Row
  <2>5. ~ (s.last < r.ts)
    BY <2>1, <2>2, <2>4
  <2> QED BY <2>3, <2>5 DEF IsLive
<1> QED BY <1>1, <1>2

\* A pass that takes the segment that shadows a row takes the row.
LEMMA EvictShadows ==
  ASSUME TypeOK, EvictCommit, NEW r \in wal \cap wal', IsLive(r, segs')
  PROVE  IsLive(r, segs)
<1>1. SUFFICES ASSUME NEW s \in segs, SameStream(s, r)  PROVE s.last < r.ts
  BY DEF IsLive
<1>2. CASE s \in segs'
  BY <1>1, <1>2 DEF IsLive
<1>3. CASE s \notin segs'
  <2> DEFINE strs == pass.strs \ Listed(pass.src)
  <2>1. /\ s \in EvictedSegments(segs, pass.src, strs, pass.cutoff)
        /\ r \notin EvictedWal(wal, pass.src, strs, pass.cutoff)
    BY <1>3 DEF EvictCommit
  <2>2. s.src = pass.src /\ s.str \in strs /\ s.last < pass.cutoff
    BY <2>1 DEF EvictedSegments
  <2>3. r.src = pass.src /\ r.str \in strs
    BY <1>1, <2>2 DEF SameStream
  <2>4. ~ (r.ts < pass.cutoff)
    BY <2>1, <2>3 DEF EvictedWal
  <2>5. /\ r.ts \in Int /\ s.last \in Int
        /\ pass.cutoff \in Int
    <3>1. r.ts \in Timestamps /\ s.last \in Timestamps /\ pass.cutoff \in Cutoffs \cup {NoTs}
      BY DEF TypeOK, Row, Segment
    <3> QED BY <3>1, TimestampsAssumption, WriterAssumption
  <2> QED BY <2>2, <2>4, <2>5
<1> QED BY <1>2, <1>3

\* Retention never brings a sealed row back as a live one, and nothing else
\* removes a segment: evict and evict_streams delete the WAL they must.
THEOREM NothingResurrected == Spec => NoResurrection
<1>1. Inv /\ [Next]_vars =>
        \A r \in wal \cap wal' : IsLive(r, segs') => IsLive(r, segs)
  <2> SUFFICES ASSUME Inv, [Next]_vars, NEW r \in wal \cap wal', IsLive(r, segs')
               PROVE  IsLive(r, segs)
    OBVIOUS
  <2>1. TypeOK
    BY DEF Inv
  <2>2. CASE EvictCommit
    BY <2>1, <2>2, EvictShadows
  <2>3. CASE segs \subseteq segs'
    BY <2>3 DEF IsLive
  <2>4. CASE UNCHANGED vars
    BY <2>3, <2>4 DEF vars, file
  <2> QED BY <2>1, <2>2, <2>3, <2>4, NextIsStep, SegmentsLost
<1> QED BY <1>1, Invariance, PTL DEF Spec, NoResurrection

\* commit_tick stores nothing a reader cannot see, though it decides from a
\* cache and not from the file.
THEOREM StoredRowsAreReadable == Spec => StoredIsReadable
<1>1. Inv /\ [Next]_vars => \A r \in wal' \ wal : IsLive(r, segs')
  <2> SUFFICES ASSUME Inv, [Next]_vars, NEW r \in wal' \ wal, NEW s \in segs',
                      SameStream(s, r)
               PROVE  s.last < r.ts
    BY DEF IsLive
  <2>1. Step
    BY NextIsStep DEF Inv, vars, file
  <2>2. segs' = segs /\ up /\ r \in Row /\ watermarks[<<r.src, r.str>>] < r.ts
    BY <2>1, RowsStored
  <2>3. s.last <= watermarks[<<r.src, r.str>>]
    BY <2>2 DEF Inv, CachesCover, SameStream
  <2>4. s.last \in Int /\ r.ts \in Int /\ watermarks[<<r.src, r.str>>] \in Int
    <3>1. s \in Segment /\ r.ts \in Timestamps /\ <<r.src, r.str>> \in Keys
      BY <2>2 DEF Inv, TypeOK, Row, Keys
    <3>2. watermarks[<<r.src, r.str>>] \in Timestamps \cup {NoTs}
      BY <3>1 DEF Inv, TypeOK
    <3>3. s.last \in Timestamps
      BY <3>1 DEF Segment
    <3> QED BY <3>1, <3>2, <3>3, TimestampsAssumption
  <2> QED BY <2>2, <2>3, <2>4
<1> QED BY <1>1, Invariance, PTL DEF Spec, StoredIsReadable

\* After a resume, the wal table grows past the source's floor only.
THEOREM FloorIsKept == Spec => WalAboveFloor
<1>1. Inv /\ [Next]_vars => \A r \in wal' \ wal : floors[r.src] < r.ts
  <2> SUFFICES ASSUME Inv, [Next]_vars, NEW r \in wal' \ wal
               PROVE  floors[r.src] < r.ts
    OBVIOUS
  <2>1. Step
    BY NextIsStep DEF Inv, vars, file
  <2> QED BY <2>1, RowsStored
<1> QED BY <1>1, Invariance, PTL DEF Spec, WalAboveFloor

\* While a stream's seal is deferred, neither retention nor a prune touches
\* its segments or its live rows.
THEOREM DeferredStreamsAreHeld == Spec => HeldStreamsKept
<1>1. Inv /\ [Next]_vars =>
        \A k \in Keys : deferred[k] > 0 /\ deferred'[k] > 0 =>
          /\ \A r \in LiveWal(wal, segs) : k = <<r.src, r.str>> => r \in wal'
          /\ \A s \in segs : k = <<s.src, s.str>> => s \in segs'
  <2> SUFFICES ASSUME Inv, [Next]_vars, NEW k \in Keys, deferred[k] > 0
               PROVE  /\ \A r \in LiveWal(wal, segs) : k = <<r.src, r.str>> => r \in wal'
                      /\ \A s \in segs : k = <<s.src, s.str>> => s \in segs'
    OBVIOUS
  <2>1. CASE UNCHANGED vars
    BY <2>1 DEF vars, file, LiveWal
  <2>2. CASE EvictCommit
    <3> DEFINE strs == pass.strs \ Listed(pass.src)
    <3>1. /\ segs' = segs \ EvictedSegments(segs, pass.src, strs, pass.cutoff)
          /\ wal' = wal \ EvictedWal(wal, pass.src, strs, pass.cutoff)
      BY <2>2 DEF EvictCommit
    <3>2. ASSUME k[1] = pass.src  PROVE k[2] \notin strs
      <4>1. k = <<pass.src, k[2]>> /\ k[2] \in Streams
        BY <3>2 DEF Keys
      <4> QED BY <4>1 DEF Listed
    <3> HIDE DEF strs
    <3> QED BY <3>1, <3>2 DEF EvictedSegments, EvictedWal, LiveWal
  <2>3. CASE Step /\ ~ EvictCommit
    <3>1. segs \subseteq segs'
      BY <2>3, SegmentsLost DEF Inv
    <3>2. \A r \in LiveWal(wal, segs) : r \in wal'
      BY <2>3, RowsLost DEF LiveWal
    <3> QED BY <3>1, <3>2
  <2> QED BY <2>1, <2>2, <2>3, NextIsStep DEF Inv
<1> QED BY <1>1, Invariance, PTL DEF Spec, HeldStreamsKept

-----------------------------------------------------------------------------
(***************************************************************************)
(* What retention may not cut: a segment's newest observation, and the     *)
(* statement a log of deltas starts from.                                  *)
(***************************************************************************)

\* Only a retention pass takes observations or caller rows.
LEMMA SeriesLost ==
  ASSUME Step, ~ EvictCommit
  PROVE  clock \subseteq clock' /\ callers \subseteq callers'
<1>1. ASSUME NEW src \in Sources, NEW batch \in SUBSET Streams, NEW cap \in Nat,
             CommitSeal(src, batch, cap)
      PROVE  clock \subseteq clock' /\ callers \subseteq callers'
  BY <1>1 DEF CommitSeal
<1>2. ASSUME NEW src \in Sources, NEW str \in Streams,
             NEW rows \in SUBSET Timestamps, AdoptSegment(src, str, rows)
      PROVE  clock \subseteq clock' /\ callers \subseteq callers'
  BY <1>2 DEF AdoptSegment
<1>3. ASSUME NEW c \in ClockEntry, ClockOffset(c.src, c.ts)
      PROVE  clock \subseteq clock' /\ callers \subseteq callers'
  BY <1>3 DEF ClockOffset
<1>4. ASSUME NEW c \in CallerRow, CallerRows(c)
      PROVE  clock \subseteq clock' /\ callers \subseteq callers'
  BY <1>4 DEF CallerRows
<1> QED BY <1>1, <1>2, <1>3, <1>4
        DEF Step, AddSource, ResumeSource, CommitSourceTick, CommitTick, SplitTick,
            DropCommit, DeferSeal, FailPrune, Prune, Evict, AbandonDeferred,
            EvictFails, Stop, Reopen, file

\* A pass without a stream filter is over every stream.
WholeIsAll == pass.whole => pass.strs = Streams

LEMMA StepWhole ==
  ASSUME TypeOK, WholeIsAll, Step
  PROVE  WholeIsAll'
<1>1. NoPass.whole = FALSE
  BY DEF NoPass
<1>2. ASSUME NEW u, pass' = [pass EXCEPT !.untried = u]
      PROVE  WholeIsAll'
  <2>1. pass'.whole = pass.whole /\ pass'.strs = pass.strs
    BY <1>2 DEF TypeOK
  <2> QED BY <2>1 DEF WholeIsAll
<1>3. ASSUME NEW src \in Sources, NEW batch \in SUBSET Streams, NEW cap \in Nat,
             CommitSeal(src, batch, cap) \/ DeferSeal(src, batch, cap)
      PROVE  WholeIsAll'
  <2>1. \E u : pass' = [pass EXCEPT !.untried = u]
    BY <1>3 DEF CommitSeal, DeferSeal
  <2> QED BY <1>2, <2>1
<1>4. ASSUME NEW str \in Streams, AbandonDeferred(str)
      PROVE  WholeIsAll'
  <2>1. \E u : pass' = [pass EXCEPT !.untried = u]
    BY <1>4 DEF AbandonDeferred
  <2> QED BY <1>2, <2>1
<1>5. ASSUME FailPrune
      PROVE  WholeIsAll'
  <2>1. pass' = pass \/ \E u : pass' = [pass EXCEPT !.untried = u]
    BY <1>5 DEF FailPrune, DeferSeal
  <2> QED BY <1>2, <2>1 DEF WholeIsAll
<1>6. ASSUME NEW src \in Sources, NEW strs \in SUBSET Streams, NEW cutoff \in Cutoffs,
             NEW whole \in BOOLEAN, NEW floored \in BOOLEAN,
             Evict(src, strs, whole, floored, cutoff)
      PROVE  WholeIsAll'
  BY <1>6 DEF Evict, WholeIsAll
<1>7. ASSUME EvictCommit \/ EvictFails \/ Stop
      PROVE  WholeIsAll'
  BY <1>1, <1>7 DEF EvictCommit, EvictFails, Stop, WholeIsAll
<1>8. ASSUME pass' = pass
      PROVE  WholeIsAll'
  BY <1>8 DEF WholeIsAll
<1> QED BY <1>3, <1>4, <1>5, <1>6, <1>7, <1>8
        DEF Step, AddSource, ResumeSource, CommitSourceTick, CommitTick, SplitTick,
            DropCommit, Prune, AdoptSegment, ClockOffset, CallerRows, Reopen, work

LEMMA EvictKeepsObservation ==
  ASSUME Inv, WholeIsAll, EvictCommit, NEW s \in segs \cap segs',
         [src |-> s.src, ts |-> s.last] \in clock
  PROVE  [src |-> s.src, ts |-> s.last] \in clock'
<1> DEFINE c == [src |-> s.src, ts |-> s.last]
           held == Listed(pass.src)
           whole == pass.whole /\ held = {}
           left == Starts(wal', segs', pass.src, Streams)
<1>1. /\ segs' = segs \ EvictedSegments(segs, pass.src, pass.strs \ held, pass.cutoff)
      /\ clock' = clock \ EvictedClock(clock, wal', segs', pass.src, whole, pass.cutoff)
  BY DEF EvictCommit
<1>2. s \in Segment /\ s.str \in Streams
  BY DEF Inv, TypeOK, Segment
<1> SUFFICES ASSUME c \in EvictedClock(clock, wal', segs', pass.src, whole, pass.cutoff)
             PROVE  FALSE
  BY <1>1
<1>3. s.src = pass.src
  BY DEF EvictedClock
<1>4. s.first \in left
  BY <1>2, <1>3 DEF Starts
<1>5. IF whole THEN s.last < pass.cutoff ELSE \A t \in left : s.last < t
  <2> HIDE DEF whole
  <2> QED BY <1>4 DEF EvictedClock
<1>6. CASE whole
  <2>1. s \in EvictedSegments(segs, pass.src, pass.strs \ held, pass.cutoff)
    BY <1>2, <1>3, <1>5, <1>6 DEF WholeIsAll, EvictedSegments
  <2> QED BY <1>1, <2>1
<1>7. CASE ~ whole
  <2>1. s.last < s.first
    BY <1>4, <1>5, <1>7
  <2>2. s.first <= s.last
    BY DEF Inv, SpansHold
  <2>3. s.first \in Int /\ s.last \in Int
    BY <1>2, SegmentFields
  <2> QED BY <2>1, <2>2, <2>3
<1> QED BY <1>6, <1>7

\* Neither way of cutting the clock series takes the observation at the newest
\* row of a segment that stays, whichever streams are held.
THEOREM ObservationsSurvive == Spec => ObservationSurvives
<1>1. Init => WholeIsAll
  BY DEF Init, NoPass, WholeIsAll
<1>2. Inv /\ WholeIsAll /\ [Next]_vars => WholeIsAll'
  BY NextIsStep, StepWhole DEF Inv, WholeIsAll, vars, work
<1>3. Inv /\ WholeIsAll /\ [Next]_vars =>
        \A s \in segs \cap segs' :
          [src |-> s.src, ts |-> s.last] \in clock =>
            [src |-> s.src, ts |-> s.last] \in clock'
  <2>1. CASE UNCHANGED vars
    BY <2>1 DEF vars, file
  <2>2. CASE Next
    BY <2>2, NextIsStep, SeriesLost, EvictKeepsObservation DEF Inv
  <2> QED BY <2>1, <2>2
<1> QED BY <1>1, <1>2, <1>3, Invariance, PTL DEF Spec, ObservationSurvives

LEMMA EvictKeepsBase ==
  ASSUME Inv, EvictCommit, pass.floored, NEW c \in callers, IsBase(c, callers, wal', segs')
  PROVE  c \in callers'
<1> SUFFICES ASSUME BelowFloor(c, callers, wal', segs') PROVE FALSE
  BY DEF EvictCommit, EvictedCallers
<1> DEFINE left == Starts(wal', segs', c.src, {c.str})
<1>1. c.full /\ left # {} /\ \A d \in callers : SameStream(c, d) /\ d.full /\ c.ts < d.ts =>
                                                 \E t \in left : t < d.ts
  BY DEF IsBase
<1>2. PICK d \in callers : SameStream(d, c) /\ d.full /\ c.ts < d.ts /\ \A t \in left : d.ts <= t
  BY <1>1 DEF BelowFloor
<1>3. PICK t \in left : t < d.ts
  BY <1>1, <1>2 DEF SameStream
<1>4. d.ts <= t
  BY <1>2
<1>5. d.ts \in Int
  BY TimestampsAssumption, WriterAssumption DEF Inv, TypeOK, CallerRow
<1>6. t \in Int
  <2>1. segs' \subseteq Segment /\ wal' \subseteq Row
    BY DEF EvictCommit, Inv, TypeOK
  <2> QED BY <2>1, TimestampsAssumption DEF Starts, Segment, Row
<1> QED BY <1>3, <1>4, <1>5, <1>6

\* A pass with a floor keeps what a log of deltas is read from: the latest full
\* statement at or before the oldest row the name still holds.
THEOREM FullStatementsSurvive == Spec => FullStatementSurvives
<1>1. Inv /\ [Next]_vars =>
        (pass.floored =>
           \A c \in callers : IsBase(c, callers, wal', segs') => c \in callers')
  <2>1. CASE UNCHANGED vars
    BY <2>1 DEF vars, file
  <2>2. CASE Next
    BY <2>2, NextIsStep, SeriesLost, EvictKeepsBase DEF Inv
  <2> QED BY <2>1, <2>2
<1> QED BY <1>1, Invariance, PTL DEF Spec, FullStatementSurvives

-----------------------------------------------------------------------------
(***************************************************************************)
(* The writer implements DendroLog: what a step of the thread, a kill or a *)
(* reopening does to the rows a read returns.                              *)
(***************************************************************************)

\* Readable rows, one at a time.
LEMMA ReadableRow ==
  ASSUME NEW w, NEW ss, w \subseteq Row, NEW r
  PROVE  r \in Readable(w, ss) <=>
           /\ r \in Row
           /\ \/ \E s \in ss : SameStream(s, r) /\ r.ts \in s.rows
              \/ r \in w /\ \A s \in ss : SameStream(s, r) => s.last < r.ts
BY DEF Readable, SealedRows, LiveWal, IsLive

\* A row of the wal table is its source, its stream and its timestamp.
LEMMA RowOf ==
  ASSUME NEW r \in Row
  PROVE  /\ r.src \in Sources /\ r.str \in Streams
         /\ r.ts \in Timestamps /\ r.ts \in Int
         /\ r = [src |-> r.src, str |-> r.str, ts |-> r.ts]
BY TimestampsAssumption DEF Row

\* A committed seal leaves out only rows with a newer one behind them.
LEMMA SealLeavesOut ==
  ASSUME Inv, NEW src \in Sources, NEW batch \in SUBSET Streams, NEW cap \in Nat,
         CommitSeal(src, batch, cap)
  PROVE  Log!LeaveOut
<1>1. /\ segs \subseteq segs' /\ wal' = wal /\ wal \subseteq Row
      /\ TypeOK
  BY CommitSealEffect, SealsKeepWal DEF Inv, TypeOK
<1>2. ASSUME NEW x \in segs' \ segs
      PROVE  /\ x \in Segment /\ x.first <= x.last
             /\ x.last \in LiveTimes(wal, segs, x.src, x.str)
             /\ x.rows = {t \in LiveTimes(wal, segs, x.src, x.str) :
                             x.first <= t /\ t <= x.last}
  BY <1>1, <1>2, CommitSealEffect
<1>3. ASSUME NEW r, r \in Readable(wal', segs')
      PROVE  r \in Readable(wal, segs)
  <2>1. r \in Row
    BY <1>1, <1>3, ReadableRow
  <2>2. CASE \E s \in segs : SameStream(s, r) /\ r.ts \in s.rows
    BY <1>1, <2>1, <2>2, ReadableRow
  <2>3. ASSUME NEW x \in segs' \ segs, SameStream(x, r), r.ts \in x.rows
        PROVE  r \in Readable(wal, segs)
    <3>1. r.ts \in LiveTimes(wal, segs, r.src, r.str)
      BY <1>2, <2>3 DEF SameStream
    <3>2. PICK q \in LiveWal(wal, segs) : q.src = r.src /\ q.str = r.str /\ q.ts = r.ts
      BY <3>1 DEF LiveTimes
    <3>3. q \in Row
      BY <1>1 DEF LiveWal
    <3>4. q = r
      BY <2>1, <3>2, <3>3, RowOf
    <3> QED BY <3>2, <3>4 DEF Readable
  <2>4. CASE r \in wal' /\ \A s \in segs' : SameStream(s, r) => s.last < r.ts
    BY <1>1, <2>1, <2>4, ReadableRow
  <2> QED BY <1>1, <1>3, <2>2, <2>3, <2>4, ReadableRow
<1>4. ASSUME NEW g \in Readable(wal, segs), g \notin Readable(wal', segs')
      PROVE  \E r \in Readable(wal', segs') : Log!Together(r, g) /\ g.ts < r.ts
  <2>1. g \in Row /\ ~ \E s \in segs' : SameStream(s, g) /\ g.ts \in s.rows
    BY <1>1, <1>4, ReadableRow
  <2>2. /\ g \in wal /\ \A s \in segs : SameStream(s, g) => s.last < g.ts
    BY <1>1, <1>4, <2>1, ReadableRow
  <2>3. PICK x \in segs' : SameStream(x, g) /\ ~ (x.last < g.ts)
    BY <1>1, <1>4, <2>1, <2>2, ReadableRow
  <2>4. x \notin segs
    BY <2>2, <2>3
  <2>5. /\ x \in Segment /\ x.first <= x.last
        /\ x.last \in LiveTimes(wal, segs, x.src, x.str)
        /\ x.rows = {t \in LiveTimes(wal, segs, x.src, x.str) :
                        x.first <= t /\ t <= x.last}
    BY <1>2, <2>4
  <2> DEFINE r == [src |-> x.src, str |-> x.str, ts |-> x.last]
  <2>6. x.last \in Int /\ x.last \in Timestamps /\ x.src \in Sources /\ x.str \in Streams
    BY <2>5, TimestampsAssumption DEF Segment
  <2>7. x.last <= x.last
    BY <2>6
  <2>8. x.last \in x.rows
    BY <2>5, <2>7
  <2>9. r \in Row /\ r.src = x.src /\ r.str = x.str /\ r.ts = x.last
    BY <2>6 DEF Row
  <2> HIDE DEF r
  <2>10. r \in Readable(wal', segs')
    BY <1>1, <2>8, <2>9, ReadableRow DEF SameStream
  <2>11. g.ts # x.last
    BY <2>1, <2>3, <2>8
  <2>12. g.ts < r.ts
    <3>1. g.ts \in Int
      BY <2>1, RowOf
    <3> QED BY <3>1, <2>3, <2>6, <2>9, <2>11
  <2>13. Log!Together(r, g)
    BY <2>3, <2>9 DEF Log!Together, SameStream
  <2> QED BY <2>10, <2>12, <2>13
<1> QED BY <1>3, <1>4 DEF Log!LeaveOut

\* An adopted segment lies between what is sealed and what is live.
LEMMA AdoptAppends ==
  ASSUME Inv, NEW src \in Sources, NEW str \in Streams,
         NEW rows \in SUBSET Timestamps, AdoptSegment(src, str, rows)
  PROVE  Log!Append
<1>1. PICK f \in rows, l \in rows :
        /\ \A t \in LiveTimes(wal, segs, src, str) : l < t
        /\ segs' = segs \cup {[src |-> src, str |-> str, seq |-> nextSeq[<<src, str>>],
                               first |-> f, last |-> l, rows |-> rows]}
  BY DEF AdoptSegment
<1> DEFINE new == [src |-> src, str |-> str, seq |-> nextSeq[<<src, str>>],
                   first |-> f, last |-> l, rows |-> rows]
<1>2. wal' = wal /\ wal \subseteq Row
  BY DEF AdoptSegment, Inv, TypeOK
<1>3. segs' = segs \cup {new} /\ new.src = src /\ new.str = str /\ new.last = l
  BY <1>1
<1> HIDE DEF new
<1>4. ASSUME NEW r \in Readable(wal, segs)  PROVE r \in Readable(wal', segs')
  <2>1. r \in Row
    BY <1>2, ReadableRow
  <2>2. CASE \E s \in segs : SameStream(s, r) /\ r.ts \in s.rows
    BY <1>2, <1>3, <2>1, <2>2, ReadableRow
  <2>3. CASE r \in wal /\ \A s \in segs : SameStream(s, r) => s.last < r.ts
    <3>1. r \in LiveWal(wal, segs)
      BY <2>3 DEF LiveWal, IsLive
    <3>2. ASSUME SameStream(new, r)  PROVE l < r.ts
      <4>1. r.ts \in LiveTimes(wal, segs, src, str)
        BY <1>3, <2>1, <3>1, <3>2, RowOf DEF LiveTimes, SameStream
      <4> QED BY <1>1, <4>1
    <3>3. \A s \in segs' : SameStream(s, r) => s.last < r.ts
      BY <1>3, <2>3, <3>2
    <3> QED BY <1>2, <2>1, <2>3, <3>3, ReadableRow
  <2> QED BY <1>2, <2>2, <2>3, ReadableRow
<1>5. Readable(wal', segs') \subseteq Row
  BY <1>2, ReadableRow
<1> QED BY <1>4, <1>5 DEF Log!Append

\* Retention takes the oldest end of the streams of one source.
LEMMA EvictExpires ==
  ASSUME Inv, EvictCommit
  PROVE  Log!Expire
<1> DEFINE strs == pass.strs \ Listed(pass.src)
<1>1. /\ segs' = segs \ EvictedSegments(segs, pass.src, strs, pass.cutoff)
      /\ wal' = wal \ EvictedWal(wal, pass.src, strs, pass.cutoff)
      /\ wal \subseteq Row /\ wal' \subseteq Row
  BY DEF EvictCommit, Inv, TypeOK
<1> HIDE DEF strs
<1>2. pass.cutoff \in Int
  <2>1. pass.cutoff \in Cutoffs \cup {NoTs}
    BY DEF Inv, TypeOK
  <2> QED BY <2>1, WriterAssumption, TimestampsAssumption
<1>3. ASSUME NEW s \in segs
      PROVE  /\ s.first \in Int /\ s.last \in Int
             /\ \A t \in s.rows : t \in Int /\ s.first <= t /\ t <= s.last
             /\ s \notin segs' <=>
                  s.src = pass.src /\ s.str \in strs /\ s.last < pass.cutoff
  <2>1. s \in Segment
    BY DEF Inv, TypeOK
  <2>2. \A t \in s.rows : t \in Int /\ s.first <= t /\ t <= s.last
    BY <2>1, TimestampsAssumption DEF Inv, SpansHold, Segment
  <2>3. s \notin segs' <=> s.src = pass.src /\ s.str \in strs /\ s.last < pass.cutoff
    BY <1>1 DEF EvictedSegments
  <2> QED BY <2>1, <2>2, <2>3, SegmentFields
<1>4. ASSUME NEW r \in wal
      PROVE  r \notin wal' <=> r.src = pass.src /\ r.str \in strs /\ r.ts < pass.cutoff
  BY <1>1 DEF EvictedWal
<1>5. segs' \subseteq segs /\ wal' \subseteq wal
  BY <1>1
\* What is read afterwards was read before.
<1>6. ASSUME NEW r \in Readable(wal', segs')  PROVE r \in Readable(wal, segs)
  <2>1. r \in Row
    BY <1>1, ReadableRow
  <2>2. CASE \E s \in segs' : SameStream(s, r) /\ r.ts \in s.rows
    BY <1>1, <1>5, <2>1, <2>2, ReadableRow
  <2>3. CASE r \in wal' /\ \A s \in segs' : SameStream(s, r) => s.last < r.ts
    <3>1. IsLive(r, segs) /\ r \in wal
      BY <1>5, <2>3, EvictShadows DEF IsLive, Inv
    <3> QED BY <3>1 DEF Readable, LiveWal
  <2> QED BY <1>1, <2>2, <2>3, ReadableRow
\* A lost row was in a segment that went whole, or was live and too old.
<1>7. ASSUME NEW g \in Readable(wal, segs), g \notin Readable(wal', segs')
      PROVE  /\ g \in Row /\ g.src = pass.src
             /\ \/ \E s \in segs \ segs' : SameStream(s, g) /\ g.ts \in s.rows
                \/ /\ g \in wal \ wal'
                   /\ \A s \in segs : SameStream(s, g) => s.last < g.ts
  <2>1. g \in Row
    BY <1>1, ReadableRow
  <2>2. CASE \E s \in segs : SameStream(s, g) /\ g.ts \in s.rows
    <3>1. PICK s \in segs : SameStream(s, g) /\ g.ts \in s.rows
      BY <2>2
    <3>2. s \notin segs'
      BY <1>1, <1>7, <2>1, <3>1, ReadableRow
    <3>3. g.src = pass.src
      BY <1>3, <3>1, <3>2 DEF SameStream
    <3> QED BY <2>1, <3>1, <3>2, <3>3
  <2>3. CASE g \in wal /\ \A s \in segs : SameStream(s, g) => s.last < g.ts
    <3>1. g \notin wal'
      BY <1>1, <1>5, <1>7, <2>1, <2>3, ReadableRow
    <3>2. g.src = pass.src
      BY <1>4, <2>3, <3>1
    <3> QED BY <2>1, <2>3, <3>1, <3>2
  <2> QED BY <1>1, <2>2, <2>3, ReadableRow
<1>8. ASSUME NEW g \in Readable(wal, segs), g \notin Readable(wal', segs'),
             NEW r \in Readable(wal', segs'), Log!Together(r, g)
      PROVE  g.ts < r.ts
  <2>1. /\ r \in Row /\ g \in Row /\ r.ts \in Int /\ g.ts \in Int
        /\ r.src = g.src /\ r.str = g.str
    BY <1>1, <1>7, <1>8, ReadableRow, RowOf DEF Log!Together
  <2>2. ASSUME NEW s \in segs \ segs', SameStream(s, g), g.ts \in s.rows
        PROVE  g.ts < r.ts
    <3>1. g.ts <= s.last /\ s.last \in Int /\ s.last < pass.cutoff
      BY <1>3, <2>2
    <3>2. ASSUME NEW t \in segs', SameStream(t, r), r.ts \in t.rows
          PROVE  g.ts < r.ts
      <4>1. /\ SameStream(s, t) /\ s # t /\ t \in segs
            /\ s.src = pass.src /\ s.str \in strs
        BY <1>3, <1>5, <2>1, <2>2, <3>2 DEF SameStream
      <4>2. ~ (t.last < pass.cutoff)
        BY <1>3, <3>2, <4>1 DEF SameStream
      <4>3. /\ t.first \in Int /\ t.last \in Int /\ t.first <= r.ts
            /\ s.first \in Int /\ s.first <= g.ts
        BY <1>3, <2>2, <3>2, <4>1
      <4>4. s.last < t.first \/ t.last < s.first
        BY <4>1 DEF Inv, SealedInOrder
      <4>5. s.first <= s.last
        BY <2>1, <3>1, <4>3
      <4>6. ~ (t.last < s.first)
        BY <1>2, <3>1, <4>2, <4>3, <4>5
      <4> QED BY <2>1, <3>1, <4>3, <4>4, <4>6
    <3>3. ASSUME r \in wal', \A t \in segs' : SameStream(t, r) => t.last < r.ts
          PROVE  g.ts < r.ts
      <4>1. IsLive(r, segs)
        BY <1>5, <3>3, EvictShadows DEF IsLive, Inv
      <4>2. s.last < r.ts
        BY <2>1, <2>2, <4>1 DEF IsLive, SameStream
      <4> QED BY <2>1, <3>1, <4>2
    <3> QED BY <1>1, <2>1, <3>2, <3>3, ReadableRow
  <2>3. ASSUME g \in wal \ wal', \A s \in segs : SameStream(s, g) => s.last < g.ts
        PROVE  g.ts < r.ts
    <3>1. g.src = pass.src /\ g.str \in strs /\ g.ts < pass.cutoff
      BY <1>4, <2>3
    <3>2. ASSUME NEW t \in segs', SameStream(t, r)
          PROVE  FALSE
      <4>1. t \in segs /\ t.src = pass.src /\ t.str \in strs /\ SameStream(t, g)
        BY <1>5, <2>1, <3>1, <3>2 DEF SameStream
      <4>2. ~ (t.last < pass.cutoff) /\ t.last < g.ts /\ t.last \in Int
        BY <1>3, <2>3, <3>2, <4>1
      <4> QED BY <1>2, <2>1, <3>1, <4>2
    <3>3. r \in wal'
      BY <1>1, <2>1, <3>2, ReadableRow
    <3>4. ~ (r.ts < pass.cutoff)
      BY <1>4, <1>5, <2>1, <3>1, <3>3
    <3> QED BY <1>2, <2>1, <3>1, <3>4
  <2> QED BY <1>7, <1>8, <2>2, <2>3
<1> QED BY <1>6, <1>7, <1>8 DEF Log!Expire

\* A prune takes nothing a reader sees.
LEMMA PruneInvisible ==
  ASSUME Inv, NEW p \in prunes, Prune(p)
  PROVE  Readable(wal', segs') = Readable(wal, segs)
<1>1. segs' = segs /\ wal' \subseteq wal
  BY DEF Prune
<1>2. ~ EvictCommit
  BY DEF Prune, EvictCommit
<1>3. Step
  BY DEF Step
<1>4. \A r \in wal \ wal' : ~ IsLive(r, segs)
  BY <1>2, <1>3, RowsLost
<1>5. LiveWal(wal', segs') = LiveWal(wal, segs)
  BY <1>1, <1>4 DEF LiveWal
<1> QED BY <1>1, <1>5 DEF Readable

\* Everything else leaves the segments alone and adds to the wal table, if
\* anything.
LEMMA OtherStepsAppend ==
  ASSUME TypeOK, TypeOK', segs' = segs, wal \subseteq wal'
  PROVE  Log!Append
<1>1. Readable(wal, segs) \subseteq Readable(wal', segs')
  BY DEF Readable, LiveWal
<1>2. Readable(wal', segs') \subseteq Row
  BY ReadableRow DEF TypeOK
<1> QED BY <1>1, <1>2 DEF Log!Append

\* A reader sees a log: appended to, expired oldest first in one source at a
\* time, thinned only by an encoder.  Seals, prunes, retries, deferrals, kills
\* and reopenings are invisible.
THEOREM ArchiveReadsAsLog == Spec => ReadsAsLog
<1>1. Init => Log!Init
  BY DEF Init, Log!Init, Readable, SealedRows, LiveWal
<1>2. Inv /\ [Next]_vars => [Log!Next]_(Readable(wal, segs))
  <2> SUFFICES ASSUME Inv, [Next]_vars
               PROVE  Log!Next \/ Readable(wal', segs') = Readable(wal, segs)
    OBVIOUS
  <2>1. CASE UNCHANGED vars
    BY <2>1 DEF vars, file
  <2>2. CASE Step
    <3>1. TypeOK'
      BY <2>2, StepTypeOK DEF Inv
    <3>2. ASSUME NEW src \in Sources, NEW batch \in SUBSET Streams, NEW cap \in Nat,
                 CommitSeal(src, batch, cap)
          PROVE  Log!Next
      BY <3>2, SealLeavesOut DEF Log!Next
    <3>3. ASSUME NEW src \in Sources, NEW str \in Streams,
                 NEW rows \in SUBSET Timestamps, AdoptSegment(src, str, rows)
          PROVE  Log!Next
      BY <3>3, AdoptAppends DEF Log!Next
    <3>4. CASE EvictCommit
      BY <3>4, EvictExpires DEF Log!Next
    <3>5. CASE \E p \in prunes : Prune(p)
      BY <3>5, PruneInvisible
    <3>6. ASSUME segs' = segs, wal \subseteq wal'  PROVE Log!Next
      BY <3>1, <3>6, OtherStepsAppend DEF Inv, Log!Next
    <3>7. CASE \/ \E src \in Sources : AddSource(src) \/ ResumeSource(src)
               \/ \E rows \in TickRows : SplitTick(rows)
               \/ DropCommit \/ EvictFails \/ Stop \/ Reopen
               \/ \E c \in ClockEntry : ClockOffset(c.src, c.ts)
               \/ \E c \in CallerRow : CallerRows(c)
               \/ \E str \in Streams : AbandonDeferred(str)
      <4>1. segs' = segs /\ wal' = wal
        BY <3>7 DEF AddSource, ResumeSource, SplitTick, DropCommit, EvictFails, Stop,
                    Reopen, ClockOffset, CallerRows, AbandonDeferred, file
      <4> QED BY <3>6, <4>1
    <3>8. CASE \/ \E src \in Sources : CommitSourceTick(src)
               \/ \E rows \in TickRows : CommitTick(rows)
      <4>1. segs' = segs /\ wal \subseteq wal'
        BY <3>8 DEF CommitSourceTick, CommitTick
      <4> QED BY <3>6, <4>1
    <3>9. CASE \E src \in Sources, strs \in SUBSET Streams, cutoff \in Cutoffs,
                  whole, floored \in BOOLEAN : Evict(src, strs, whole, floored, cutoff)
      <4>1. segs' = segs /\ wal' = wal
        BY <3>9 DEF Evict, file
      <4> QED BY <3>6, <4>1
    <3>10. ASSUME NEW src, NEW batch, NEW cap, DeferSeal(src, batch, cap)
           PROVE  Log!Next
      <4>1. segs' = segs /\ wal' = wal
        BY <3>10 DEF DeferSeal, file
      <4> QED BY <3>6, <4>1
    <3>11. CASE FailPrune
      <4>1. segs' = segs /\ wal' = wal
        BY <3>11 DEF FailPrune, DeferSeal, file
      <4> QED BY <3>6, <4>1
    <3> QED BY <2>2, <3>2, <3>3, <3>4, <3>5, <3>7, <3>8, <3>9, <3>10, <3>11 DEF Step
  <2> QED BY <2>1, <2>2, NextIsStep DEF Inv
<1>3. Spec => []Inv
  BY Invariance
<1>4. Spec => Log!Spec
  BY <1>1, <1>2, <1>3, PTL DEF Spec, Log!Spec
<1> QED BY <1>4 DEF ReadsAsLog
=============================================================================
