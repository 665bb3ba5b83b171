----------------------- MODULE DendroReplicationProofs -----------------------
(***************************************************************************)
(* What is proved of live replication, for any streams, timestamps and     *)
(* bounds, any interleaving of the two files with polls and frames, and    *)
(* any frames lost: the copy has no hole that nobody was told of, its      *)
(* writer refuses nothing, rows find the index entries they were built     *)
(* against, and a gap is reported when there is one.                       *)
(*                                                                         *)
(* The argument: of every stream, what the copy holds, what the frames on  *)
(* their way carry, one after the other, and what the publisher has yet to *)
(* send follow each other in time.  Index states and the numbers of Rows   *)
(* frames are chains through the channel, from the subscriber's end to the *)
(* publisher's.                                                            *)
(***************************************************************************)
EXTENDS DendroReplication, SequenceTheorems, FiniteSetTheorems, TLAPS

(***************************************************************************)
(* The tables.                                                             *)
(***************************************************************************)
Numbered ==
  \A s, u \in segs : SameStream(s, u) =>
    /\ s.seq < u.seq => s.last < u.first
    /\ s.seq = u.seq => s = u

InSpan ==
  \A s \in segs : s.first <= s.last /\ \A t \in s.rows : s.first <= t /\ t <= s.last

\* The tail is past every segment: a seal prunes at once here.
Pruned == \A r \in wal : IsLive(r, segs)

\* A new row of the origin is newer than anything in its file, or sent of it.
Newest ==
  /\ \A str \in Streams : pub.wal[str] <= newest[str]
  /\ \A s \in segs : s.src = Origin => s.last <= newest[s.str]
  /\ \A r \in wal : r.src = Origin => r.ts <= newest[r.str]

Tables == IsFiniteSet(segs) /\ Numbered /\ InSpan /\ Pruned /\ Newest

(***************************************************************************)
(* What a frame carries of a stream, and the order of it.                  *)
(***************************************************************************)
Marks(f, str) ==
  {t \in Timestamps : \/ f.kind = "rows" /\ <<str, t>> \in f.rows
                      \/ f.kind = "segment" /\ f.str = str /\ t \in {f.first, f.last}}

Sound(f) ==
  f.kind = "segment" =>
    f.first <= f.last /\ \A t \in f.rows : f.first <= t /\ t <= f.last

Ascending ==
  \A i, j \in 1..Len(channel) : i < j =>
    \A str \in Streams : \A t \in Marks(channel[i], str), u \in Marks(channel[j], str) : t < u

\* What the copy holds, or a frame carries, of a stream: up to t, past it.
CopyUpTo(str, t) ==
  /\ \A s \in segs : s.src = Copy /\ s.str = str => s.last <= t
  /\ \A r \in wal : r.src = Copy /\ r.str = str => r.ts <= t

CopyBefore(str, t) ==
  /\ \A s \in segs : s.src = Copy /\ s.str = str => s.last < t
  /\ \A r \in wal : r.src = Copy /\ r.str = str => r.ts < t

\* A segment goes ahead of every row of its stream, here and in the copy.
Leading ==
  \A j \in 1..Len(channel) : channel[j].kind = "segment" =>
    /\ \A r \in wal : r.src = Copy => r.str # channel[j].str
    /\ \A i \in 1..Len(channel) : i < j /\ channel[i].kind = "rows" =>
         \A x \in channel[i].rows : x[1] # channel[j].str

Order ==
  /\ \A i \in 1..Len(channel) : Sound(channel[i])
  /\ Ascending /\ Leading
  /\ \A i \in 1..Len(channel) : \A str \in Streams : \A t \in Marks(channel[i], str) :
       CopyBefore(str, t) /\ t <= pub.wal[str]
  /\ \A str \in Streams : CopyUpTo(str, pub.wal[str])

(***************************************************************************)
(* Chains through the channel c; the publisher is at Len(c) + 1.           *)
(***************************************************************************)
\* i is the last of its kind before j.
Before(c, kind, i, j) ==
  /\ i \in 1..Len(c) /\ i < j /\ c[i].kind = kind
  /\ \A k \in 1..Len(c) : i < k /\ k < j => c[k].kind # kind

NoneBefore(c, kind, j) == \A k \in 1..Len(c) : k < j => c[k].kind # kind

\* The index state a subscriber is in when it comes to j, and its Full.
StateAt(c, s, j, state) ==
  \/ \E i \in 1..Len(c) : Before(c, "index", i, j) /\ c[i].state = state
  \/ NoneBefore(c, "index", j) /\ s.state = state

FullAt(c, s, j) ==
  s.full \/ \E i \in 1..Len(c) : i < j /\ c[i].kind = "index" /\ c[i].full

ReadyAt(c, s, j, state) ==
  StateAt(c, s, j, state) /\ (state # NoIndexState => FullAt(c, s, j))

Attributed ==
  "index" \notin Lossy =>
    /\ \A j \in 1..Len(channel) : channel[j].kind = "rows" =>
         ReadyAt(channel, sub, j, channel[j].state)
    /\ linked => ReadyAt(channel, sub, Len(channel) + 1, pub.state)
    /\ skipped = {}

\* The number of the Rows frame at j, by what is before it.
SeqAt(c, s, lostSince, j, n) ==
  \/ \E i \in 1..Len(c) : Before(c, "rows", i, j) /\ n = c[i].seq + 1
  \/ NoneBefore(c, "rows", j) /\ (s.last # -1 => n = s.last + 1 + lostSince)

Counted ==
  /\ sub.last = -1 => silence = 0
  /\ \A j \in 1..Len(channel) : channel[j].kind = "rows" =>
       SeqAt(channel, sub, silence, j, channel[j].seq)
  /\ linked => SeqAt(channel, sub, silence, Len(channel) + 1, pub.seq)

\* An index frame declares a state.
Declared ==
  \A i \in 1..Len(channel) : channel[i].kind = "index" => channel[i].state # NoIndexState

Inv ==
  /\ TypeOK /\ Tables /\ Order /\ Declared
  /\ NothingRefused /\ NoHole /\ Attributed /\ Counted

-----------------------------------------------------------------------------
(***************************************************************************)
(* A finite set of integers has a maximum: induction on how many they are, *)
(* from the well-foundedness of the naturals.                              *)
(***************************************************************************)
LEMMA Least ==
  ASSUME NEW T, T \subseteq Nat, T # {}
  PROVE  \E x \in T : \A y \in T : x <= y
<1> DEFINE R == OpToRel(<, Nat)
<1>1. IsWellFoundedOn(R, Nat)
  BY NatLessThanWellFounded
<1>2. \A x, y \in Nat : x < y => <<x, y>> \in R
  BY DEF OpToRel
<1> HIDE DEF R
<1>3. PICK x \in T : \A y \in T : ~ (<<y, x>> \in R)
  BY <1>1, WFMin
<1>4. ASSUME NEW y \in T PROVE x <= y
  <2>1. x \in Nat /\ y \in Nat /\ ~ (y < x)
    BY <1>2, <1>3
  <2> QED BY <2>1
<1> QED BY <1>4

Greatest(S, m) == m \in S /\ \A x \in S : x <= m

LEMMA FiniteHasGreatest ==
  ASSUME NEW S, S \subseteq Int, IsFiniteSet(S), S # {}
  PROVE  \E m \in S : Greatest(S, m)
<1> DEFINE Bad(X) == X # {} /\ IsFiniteSet(X) /\ ~ \E m \in X : Greatest(X, m)
           Sizes == {n \in Nat : \E X \in SUBSET Int : Bad(X) /\ Cardinality(X) = n}
<1>1. SUFFICES ASSUME Bad(S) PROVE FALSE
  OBVIOUS
<1>2. Sizes \subseteq Nat /\ Sizes # {}
  <2>1. Cardinality(S) \in Nat
    BY FS_CardinalityType
  <2> QED BY <1>1, <2>1
<1>3. PICK n \in Sizes : \A k \in Sizes : n <= k
  <2> HIDE DEF Sizes
  <2> QED BY <1>2, Least
<1>4. PICK X \in SUBSET Int : Bad(X) /\ Cardinality(X) = n
  BY <1>3
<1>5. PICK x \in X : TRUE
  BY <1>4
<1>6. IsFiniteSet(X \ {x}) /\ Cardinality(X \ {x}) = n - 1 /\ n - 1 \in Nat
  <2>1. IsFiniteSet(X) /\ Cardinality(X) = n
    BY <1>4
  <2>2. IsFiniteSet(X \ {x}) /\ Cardinality(X \ {x}) = n - 1
    BY <1>5, <2>1, FS_RemoveElement
  <2> QED BY <2>2, FS_CardinalityType
<1>7. CASE X \ {x} = {}
  <2>1. Greatest(X, x)
    BY <1>4, <1>7 DEF Greatest
  <2> QED BY <1>4, <2>1
<1>8. CASE X \ {x} # {}
  <2>1. n - 1 \notin Sizes
    BY <1>3
  <2>2. ~ Bad(X \ {x})
    BY <1>4, <1>6, <2>1
  <2>3. PICK m \in X \ {x} : Greatest(X \ {x}, m)
    BY <1>6, <1>8, <2>2
  <2>4. Greatest(X, m) \/ Greatest(X, x)
    BY <1>4, <1>5, <2>3 DEF Greatest
  <2> QED BY <1>4, <1>5, <2>3, <2>4
<1> QED BY <1>7, <1>8

LEMMA MaxIs ==
  ASSUME NEW S, S \subseteq Int, IsFiniteSet(S), S # {}
  PROVE  Max(S) \in S /\ \A x \in S : x <= Max(S)
<1>1. PICK m \in S : Greatest(S, m)
  BY FiniteHasGreatest
<1>2. \A x \in S : m >= x
  BY <1>1 DEF Greatest
<1>3. Max(S) \in S /\ \A x \in S : Max(S) >= x
  BY <1>2 DEF Max
<1> QED BY <1>3

-----------------------------------------------------------------------------
(***************************************************************************)
(* What the publisher and the subscriber ask of their files.               *)
(***************************************************************************)
LEMMA TsIs ==
  /\ Times \subseteq Int /\ NoTs \in Int /\ \A t \in Timestamps : t \in Int /\ NoTs < t
  /\ \A S \in SUBSET Times : IsFiniteSet(S)
<1>1. Times \subseteq Int /\ NoTs \in Int /\ \A t \in Timestamps : t \in Int /\ NoTs < t
  BY TimestampsAssumption DEF Times
<1>2. IsFiniteSet(Times)
  BY ReplicationAssumption, FS_AddElement DEF Times
<1> QED BY <1>1, <1>2, FS_Subset

\* The highest of some timestamps, none counted in.
LEMMA MaxTime ==
  ASSUME NEW S, S \subseteq Times, S # {}
  PROVE  Max(S) \in S /\ \A t \in S : t <= Max(S)
<1>1. S \subseteq Int /\ IsFiniteSet(S)
  BY TsIs
<1> QED BY <1>1, MaxIs

LEMMA WatermarkIs ==
  ASSUME segs \subseteq Segment, NEW src, NEW str
  PROVE  /\ Watermark(src, str) \in Times /\ NoTs <= Watermark(src, str)
         /\ \A s \in segs : s.src = src /\ s.str = str => s.last <= Watermark(src, str)
         /\ \/ Watermark(src, str) = NoTs
            \/ \E s \in segs : s.src = src /\ s.str = str /\ s.last = Watermark(src, str)
<1> DEFINE S == {s.last : s \in StreamSegments(segs, src, str)} \cup {NoTs}
<1>1. S \subseteq Times /\ S # {}
  BY DEF StreamSegments, Segment, Times
<1>2. Max(S) \in S /\ \A t \in S : t <= Max(S)
  <2> HIDE DEF S
  <2> QED BY <1>1, MaxTime
<1>3. Watermark(src, str) = Max(S)
  BY DEF Watermark
<1> HIDE DEF S
<1>4. \A s \in segs : s.src = src /\ s.str = str => s.last \in S
  BY DEF S, StreamSegments
<1>5. NoTs \in S
  BY DEF S
<1>6. \A t \in S : t = NoTs \/ \E s \in segs : s.src = src /\ s.str = str /\ s.last = t
  BY DEF S, StreamSegments
<1> QED BY <1>1, <1>2, <1>3, <1>4, <1>5, <1>6

LEMMA NextSeqIs ==
  ASSUME segs \subseteq Segment, IsFiniteSet(segs), NEW src, NEW str
  PROVE  /\ NextSeq(src, str) \in Nat
         /\ \A s \in segs : s.src = src /\ s.str = str => s.seq < NextSeq(src, str)
<1> DEFINE M == StreamSegments(segs, src, str)
           N == {s.seq : s \in M}
           S == N \cup {-1}
<1>1. S \subseteq Int /\ \A n \in S : -1 <= n
  BY DEF StreamSegments, Segment
<1>2. IsFiniteSet(S)
  <2>1. IsFiniteSet(M)
    BY FS_Subset DEF StreamSegments
  <2>2. IsFiniteSet(N)
    <3> DEFINE f == [s \in M |-> s.seq]
    <3>1. f \in Surjection(M, N)
      BY DEF Surjection
    <3> HIDE DEF M, N, f
    <3> QED BY <2>1, <3>1, FS_Surjection
  <2> QED BY <2>2, FS_AddElement
<1>3. Max(S) \in S /\ \A n \in S : n <= Max(S)
  <2> HIDE DEF S
  <2>1. S # {}
    BY DEF S
  <2> QED BY <1>1, <1>2, <2>1, MaxIs
<1>4. NextSeq(src, str) = Max(S) + 1
  BY DEF NextSeq
<1>5. \A s \in segs : s.src = src /\ s.str = str => s.seq \in S
  BY DEF StreamSegments
<1> DEFINE m == Max(S)
<1>6. m \in Int /\ -1 <= m /\ \A n \in S : n \in Int /\ n <= m
  BY <1>1, <1>3
<1>7. NextSeq(src, str) = m + 1
  BY <1>4
<1> HIDE DEF S, m
<1> QED BY <1>5, <1>6, <1>7

LEMMA LiveIs ==
  ASSUME wal \subseteq Row, Pruned, NEW src, NEW str
  PROVE  /\ Live(src, str) \subseteq Timestamps
         /\ \A r \in wal : r.src = src /\ r.str = str => r.ts \in Live(src, str)
         /\ \A t \in Live(src, str) :
              \E r \in wal : r.src = src /\ r.str = str /\ r.ts = t
         /\ \A t \in Live(src, str) : \A s \in segs :
              s.src = src /\ s.str = str => s.last < t
BY DEF Pruned, Live, LiveTimes, LiveWal, IsLive, SameStream, Row

\* With the tail past the segments, a row is readable where it lies.
Shows(w, g, src, str, t) ==
  \/ \E r \in w : r.src = src /\ r.str = str /\ r.ts = t
  \/ \E s \in g : s.src = src /\ s.str = str /\ t \in s.rows

LEMMA ReadableIs ==
  ASSUME NEW w, w \subseteq Row, NEW g, g \subseteq Segment, \A r \in w : IsLive(r, g),
         NEW src \in Sources, NEW str \in Streams, NEW t
  PROVE  t \in {r.ts : r \in {x \in Readable(w, g) : x.src = src /\ x.str = str}}
           <=> Shows(w, g, src, str, t)
<1> DEFINE V == {r.ts : r \in {x \in Readable(w, g) : x.src = src /\ x.str = str}}
<1>1. ASSUME t \in V PROVE Shows(w, g, src, str, t)
  BY <1>1 DEF Shows, Readable, SealedRows, LiveWal, SameStream, Row
<1>2. ASSUME NEW r \in w, r.src = src, r.str = str, r.ts = t PROVE t \in V
  BY <1>2 DEF Readable, LiveWal
<1>3. ASSUME NEW s \in g, s.src = src, s.str = str, t \in s.rows PROVE t \in V
  <2> DEFINE r == [src |-> src, str |-> str, ts |-> t]
  <2>1. r \in SealedRows(g) /\ r.src = src /\ r.str = str /\ r.ts = t
    BY <1>3 DEF SealedRows, Row, Segment, SameStream
  <2> HIDE DEF r
  <2> QED BY <2>1 DEF Readable
<1> QED BY <1>1, <1>2, <1>3 DEF Shows

LEMMA VisibleIs ==
  ASSUME wal \subseteq Row, segs \subseteq Segment, Pruned,
         NEW src \in Sources, NEW str \in Streams, NEW t
  PROVE  t \in Visible(src, str) <=> Shows(wal, segs, src, str, t)
BY ReadableIs DEF Visible, Pruned

LEMMA VisibleNext ==
  ASSUME wal' \subseteq Row, segs' \subseteq Segment, Pruned',
         NEW src \in Sources, NEW str \in Streams, NEW t
  PROVE  t \in Visible(src, str)' <=> Shows(wal', segs', src, str, t)
BY ReadableIs DEF Visible, Pruned

-----------------------------------------------------------------------------
(***************************************************************************)
(* Steps that leave the connection alone: the order of what was sent, and  *)
(* that it has no hole, are then matters of the two files.                 *)
(***************************************************************************)
Quiet == UNCHANGED <<link, told>>

LEMMA QuietChains ==
  ASSUME Inv, Quiet
  PROVE  Declared' /\ NothingRefused' /\ Attributed' /\ Counted'
BY DEF Inv, Quiet, link, told, Declared, NothingRefused, Attributed, Counted,
       ReadyAt, StateAt, FullAt, SeqAt, Before, NoneBefore

LEMMA QuietOrder ==
  ASSUME Inv, Quiet,
         \A s \in segs' : s.src = Copy =>
           \/ s \in segs
           \/ \E r \in wal : r.src = Copy /\ r.str = s.str /\ r.ts = s.last,
         \A r \in wal' : r.src = Copy => r \in wal
  PROVE  Order'
<1>1. channel' = channel /\ pub' = pub
  BY DEF Quiet, link
<1>2. ASSUME NEW str \in Streams, NEW t
      PROVE  CopyUpTo(str, t) => CopyUpTo(str, t)'
  BY DEF CopyUpTo
<1>3. ASSUME NEW str \in Streams, NEW t
      PROVE  CopyBefore(str, t) => CopyBefore(str, t)'
  BY DEF CopyBefore
<1> QED BY <1>1, <1>2, <1>3 DEF Inv, Order, Ascending, Leading, Marks, Sound

LEMMA QuietNoHole ==
  ASSUME Inv, Quiet, wal' \subseteq Row, segs' \subseteq Segment, Pruned',
         \A str \in Streams, t \in Timestamps :
           t <= pub.wal[str] /\ Shows(wal', segs', Origin, str, t)
             => Shows(wal, segs, Origin, str, t),
         \A str \in Streams, t \in Timestamps :
           Shows(wal, segs, Copy, str, t) => Shows(wal', segs', Copy, str, t)
  PROVE  NoHole'
<1>1. /\ linked' = linked /\ pub' = pub /\ channel' = channel /\ from' = from
      /\ lost' = lost /\ skipped' = skipped
  BY DEF Quiet, link, told
<1>2. wal \subseteq Row /\ segs \subseteq Segment /\ Pruned /\ Origin \in Sources /\ Copy \in Sources
  BY ReplicationAssumption DEF Inv, TypeOK, Tables
<1> SUFFICES ASSUME linked, NEW str \in Streams, NEW t \in Visible(Origin, str)',
                    from[str] <= t, t <= pub.wal[str]
             PROVE  t \in Visible(Copy, str)' \cup InFlight(str)' \cup Missed(str)'
  BY <1>1 DEF NoHole
<1>3. Shows(wal', segs', Origin, str, t)
  BY <1>2, VisibleNext
<1>4. t \in Timestamps
  BY <1>3 DEF Shows, Row, Segment
<1>5. t \in Visible(Origin, str)
  BY <1>2, <1>3, <1>4, VisibleIs
<1>6. t \in Visible(Copy, str) \cup InFlight(str) \cup Missed(str)
  BY <1>5 DEF Inv, NoHole
<1>7. t \in Visible(Copy, str) => t \in Visible(Copy, str)'
  BY <1>2, <1>4, VisibleIs, VisibleNext
<1>8. InFlight(str)' = InFlight(str) /\ Missed(str)' = Missed(str)
  BY <1>1 DEF InFlight, Missed
<1> QED BY <1>6, <1>7, <1>8

LEMMA InitInv ==
  ASSUME Init
  PROVE  Inv
<1>1. TypeOK
  <2>1. \A S : <<>> \in Seq(S) /\ Len(<<>>) = 0
    BY EmptySeq
  <2>2. NoTs \in Times /\ NoTs \in Int
    BY TsIs DEF Times
  <2>3. /\ NoCursor \in [wal : [Streams -> Times], index : Times, sent : Nat, clock : Times,
                          seq : Nat, state : Seq(Nat), full : BOOLEAN]
        /\ NoSource \in [state : Seq(Nat), full : BOOLEAN, last : Nat \cup {-1}, got : Seq(Nat)]
        /\ ~ NoCursor.full /\ ~ NoSource.full /\ NoCursor.state = NoIndexState
    BY <2>1, <2>2 DEF NoCursor, NoSource, NoIndexState
  <2>4. /\ written \in Seq(EntryTimes) /\ channel \in Seq(Frames) /\ Len(written) = 0
        /\ newest \in [Streams -> Times] /\ from \in [Streams -> Int]
    BY <2>1, <2>2 DEF Init
  <2>5. gone \in 0..Len(written) /\ work \in 0..MaxWork /\ losses \in 0..MaxLost
    BY <2>4, ReplicationAssumption DEF Init
  <2>6. pub.full <=> pub.state # NoIndexState
    BY <2>3 DEF Init
  <2>7. /\ wal \subseteq Row /\ segs \subseteq Segment
        /\ clock \subseteq [src : Sources, ts : Timestamps]
        /\ lost \subseteq Streams \X Timestamps /\ skipped \subseteq Streams \X Timestamps
        /\ linked \in BOOLEAN /\ refused \in BOOLEAN /\ gap \in BOOLEAN /\ silence \in Nat
    BY DEF Init
  <2> QED BY <2>3, <2>4, <2>5, <2>6, <2>7 DEF Init, TypeOK
<1>2. Tables
  BY FS_EmptySet, TsIs DEF Init, Tables, Numbered, InSpan, Pruned, Newest, NoCursor
<1>3. Order /\ Declared
  BY DEF Init, Order, Ascending, Leading, CopyUpTo, Declared
<1>4. NothingRefused /\ NoHole /\ Attributed /\ Counted
  BY DEF Init, NothingRefused, NoHole, Attributed, Counted, NoSource
<1> QED BY <1>1, <1>2, <1>3, <1>4 DEF Inv

LEMMA WriteInv ==
  ASSUME Inv, NEW str \in Streams, NEW t \in Timestamps, Write(str, t)
  PROVE  Inv'
<1> DEFINE new == [src |-> Origin, str |-> str, ts |-> t]
<1>1. /\ Quiet /\ segs' = segs /\ wal' = wal \cup {new}
      /\ new \in Row /\ new.src = Origin /\ new.str = str /\ new.ts = t
      /\ \A r \in wal' : r.src = Copy => r \in wal
      /\ newest[str] < t /\ newest' = [newest EXCEPT ![str] = t]
      /\ UNCHANGED <<clock, written, gone>> /\ work < MaxWork /\ work' = work + 1
  BY ReplicationAssumption DEF Write, Work, Quiet, Row
<1> HIDE DEF new
<1>2. TypeOK'
  <2>1. newest' \in [Streams -> Times]
    BY <1>1 DEF Inv, TypeOK, Times
  <2>2. wal' \subseteq Row
    BY <1>1 DEF Inv, TypeOK
  <2>3. work' \in 0..MaxWork
    BY <1>1, ReplicationAssumption DEF Inv, TypeOK
  <2> QED BY <1>1, <2>1, <2>2, <2>3 DEF Inv, TypeOK, Quiet, link, told
<1>3. newest \in [Streams -> Int] /\ pub.wal \in [Streams -> Int]
  BY TsIs DEF Inv, TypeOK
<1>4. \A s \in segs : s.src = Origin /\ s.str = str => s.last < t
  <2> SUFFICES ASSUME NEW s \in segs, s.src = Origin, s.str = str PROVE s.last < t
    OBVIOUS
  <2>1. s.last \in Int /\ t \in Int /\ newest[str] \in Int
    BY <1>3, TsIs DEF Inv, TypeOK, Segment
  <2>2. s.last <= newest[str]
    BY DEF Inv, Tables, Newest
  <2> QED BY <1>1, <2>1, <2>2
<1>5. Tables'
  <2>1. IsFiniteSet(segs)' /\ Numbered' /\ InSpan'
    BY <1>1 DEF Inv, Tables, Numbered, InSpan
  <2>2. Pruned'
    BY <1>1, <1>4 DEF Inv, Tables, Pruned, IsLive, SameStream
  <2>3. \A other \in Streams : newest[other] <= newest'[other] /\ newest'[other] \in Int
    BY <1>1, <1>3, TsIs
  <2>4. \A other \in Streams, k \in Int : k <= newest[other] => k <= newest'[other]
    BY <1>3, <2>3
  <2>5. t <= newest'[str]
    BY <1>1, <1>3, TsIs
  <2>6. Newest'
    <3>1. \A s \in segs : s.str \in Streams /\ s.last \in Int
      BY TsIs DEF Inv, TypeOK, Segment
    <3>2. \A r \in wal : r.str \in Streams /\ r.ts \in Int
      BY TsIs DEF Inv, TypeOK, Row
    <3>3. pub' = pub
      BY <1>1 DEF Quiet, link
    <3> QED BY <1>1, <1>3, <2>4, <2>5, <3>1, <3>2, <3>3 DEF Inv, Tables, Newest
  <2> QED BY <2>1, <2>2, <2>6 DEF Tables
<1>6. Order'
  BY <1>1, QuietOrder
<1>7. NoHole'
  <2>1. \A other \in Streams, u \in Timestamps :
          u <= pub.wal[other] /\ Shows(wal', segs', Origin, other, u)
            => Shows(wal, segs, Origin, other, u)
    <3>1. ~ (t <= pub.wal[str])
      <4>1. pub.wal[str] <= newest[str]
        BY DEF Inv, Tables, Newest
      <4> QED BY <1>1, <1>3, <4>1, TsIs
    <3> QED BY <1>1, <3>1 DEF Shows
  <2>2. wal' \subseteq Row /\ segs' \subseteq Segment /\ Pruned'
    BY <1>2, <1>5 DEF TypeOK, Tables
  <2>3. \A other \in Streams, u \in Timestamps :
          Shows(wal, segs, Copy, other, u) => Shows(wal', segs', Copy, other, u)
    BY <1>1 DEF Shows
  <2> QED BY <1>1, <2>1, <2>2, <2>3, QuietNoHole
<1> QED BY <1>1, <1>2, <1>5, <1>6, <1>7, QuietChains DEF Inv

\* A step that leaves the rows and the segments alone too.
LEMMA SideInv ==
  ASSUME Inv, Quiet, UNCHANGED <<wal, segs, newest>>, TypeOK'
  PROVE  Inv'
<1>1. Tables'
  BY DEF Inv, Quiet, link, Tables, Numbered, InSpan, Pruned, Newest
<1>2. Order'
  BY QuietOrder
<1>3. NoHole'
  <2>1. wal' \subseteq Row /\ segs' \subseteq Segment /\ Pruned'
    BY <1>1 DEF TypeOK, Tables
  <2> QED BY <2>1, QuietNoHole
<1> QED BY <1>1, <1>2, <1>3, QuietChains DEF Inv

LEMMA WriteEntryInv ==
  ASSUME Inv, NEW t \in EntryTimes, WriteEntry(t)
  PROVE  Inv'
<1>1. Quiet /\ UNCHANGED <<wal, segs, newest>>
  BY DEF WriteEntry, Quiet
<1>2. written' \in Seq(EntryTimes) /\ Len(written') = Len(written) + 1 /\ Len(written) \in Nat
  BY AppendProperties, LenProperties DEF Inv, TypeOK, WriteEntry
<1>3. gone' \in 0..Len(written')
  BY <1>2 DEF Inv, TypeOK, WriteEntry
<1>4. TypeOK'
  <2>1. work' \in 0..MaxWork
    BY ReplicationAssumption DEF Inv, TypeOK, WriteEntry, Work
  <2> QED BY <1>2, <1>3, <2>1 DEF Inv, TypeOK, WriteEntry, link, told
<1> QED BY <1>1, <1>4, SideInv

LEMMA ObserveInv ==
  ASSUME Inv, NEW t \in ClockTimes, Observe(t)
  PROVE  Inv'
<1>1. Quiet /\ UNCHANGED <<wal, segs, newest>>
  BY DEF Observe, Quiet
<1>2. TypeOK'
  BY ReplicationAssumption DEF Inv, TypeOK, Observe, Work, link, told
<1> QED BY <1>1, <1>2, SideInv

-----------------------------------------------------------------------------
(***************************************************************************)
(* A seal: the next number of its stream, and rows that were live.         *)
(***************************************************************************)
LEMMA SealToIs ==
  ASSUME Inv, NEW src \in Sources, NEW str \in Streams,
         NEW f \in Live(src, str), NEW l \in Live(src, str), SealTo(src, str, f, l)
  PROVE  /\ Quiet /\ TypeOK' /\ Tables'
         /\ wal' = {r \in wal : ~ (r.src = src /\ r.str = str /\ r.ts <= l)}
         /\ \E s : /\ segs' = segs \cup {s}
                   /\ s.src = src /\ s.str = str /\ s.last = l
                   /\ s.rows = {t \in Live(src, str) : f <= t /\ t <= l}
<1> DEFINE rows == {t \in Live(src, str) : f <= t /\ t <= l}
           new  == NewSegment(src, str, f, l, rows)
<1>1. /\ Quiet /\ segs' = segs \cup {new} /\ f <= l
      /\ wal' = {r \in wal : ~ (r.src = src /\ r.str = str /\ r.ts <= l)}
      /\ clock' = clock \cup {[src |-> src, ts |-> l]}
      /\ UNCHANGED <<newest, written, gone>> /\ work < MaxWork /\ work' = work + 1
  BY DEF SealTo, Work, Quiet
<1>2. /\ wal \subseteq Row /\ segs \subseteq Segment /\ IsFiniteSet(segs)
      /\ Numbered /\ InSpan /\ Pruned /\ Newest
  BY DEF Inv, TypeOK, Tables
<1>3. /\ NextSeq(src, str) \in Nat
      /\ \A s \in segs : s.src = src /\ s.str = str => s.seq < NextSeq(src, str)
  BY <1>2, NextSeqIs
<1>4. /\ Live(src, str) \subseteq Timestamps
      /\ \A t \in Live(src, str) : \E r \in wal : r.src = src /\ r.str = str /\ r.ts = t
      /\ \A t \in Live(src, str) : \A s \in segs :
           s.src = src /\ s.str = str => s.last < t
  BY <1>2, LiveIs
<1>5. /\ new \in Segment /\ new.src = src /\ new.str = str /\ new.seq = NextSeq(src, str)
      /\ new.first = f /\ new.last = l /\ new.rows = rows
  BY <1>3, <1>4 DEF NewSegment, Segment
<1> HIDE DEF new
<1>6. TypeOK'
  <2>1. wal' \subseteq Row /\ segs' \subseteq Segment
    BY <1>1, <1>2, <1>5
  <2>2. clock' \subseteq [src : Sources, ts : Timestamps]
    BY <1>1, <1>4 DEF Inv, TypeOK
  <2>3. work' \in 0..MaxWork
    BY <1>1, ReplicationAssumption DEF Inv, TypeOK
  <2> QED BY <1>1, <2>1, <2>2, <2>3 DEF Inv, TypeOK, Quiet, link, told
<1>7. IsFiniteSet(segs')
  BY <1>1, <1>2, FS_AddElement
<1>8. Numbered'
  <2> SUFFICES ASSUME NEW s \in segs', NEW u \in segs', SameStream(s, u)
               PROVE  /\ s.seq < u.seq => s.last < u.first
                      /\ s.seq = u.seq => s = u
    BY DEF Numbered
  <2>1. CASE s \in segs /\ u \in segs
    BY <1>2, <2>1 DEF Numbered
  <2>2. CASE s = new /\ u = new
    BY <1>3, <1>5, <2>2
  <2>3. CASE s \in segs /\ u = new
    BY <1>2, <1>3, <1>4, <1>5, <2>3 DEF SameStream, Segment
  <2>4. CASE s = new /\ u \in segs
    <3>1. u.seq < new.seq /\ u.seq \in Nat /\ new.seq \in Nat
      BY <1>2, <1>3, <1>5, <2>4 DEF SameStream, Segment
    <3> QED BY <2>4, <3>1
  <2> QED BY <1>1, <2>1, <2>2, <2>3, <2>4
<1>9. InSpan'
  BY <1>1, <1>2, <1>5 DEF InSpan
<1>10. Pruned'
  <2> SUFFICES ASSUME NEW r \in wal', NEW s \in segs', SameStream(s, r)
               PROVE  s.last < r.ts
    BY DEF Pruned, IsLive
  <2>1. CASE s \in segs
    BY <1>1, <1>2, <2>1 DEF Pruned, IsLive
  <2>2. CASE s = new
    <3>1. r.src = src /\ r.str = str /\ ~ (r.ts <= l) /\ r.ts \in Int /\ l \in Int
      BY <1>1, <1>2, <1>4, <1>5, <2>2, TsIs DEF SameStream, Row
    <3> QED BY <1>5, <2>2, <3>1
  <2> QED BY <1>1, <2>1, <2>2
<1>11. Newest'
  <2>1. src = Origin => l <= newest[str]
    BY <1>2, <1>4 DEF Newest
  <2>2. pub' = pub
    BY <1>1 DEF Quiet, link
  <2> QED BY <1>1, <1>2, <1>5, <2>1, <2>2 DEF Newest
<1> QED BY <1>1, <1>5, <1>6, <1>7, <1>8, <1>9, <1>10, <1>11 DEF Tables

LEMMA SealInv ==
  ASSUME Inv, NEW str \in Streams, Seal(str)
  PROVE  Inv'
<1>1. PICK f \in Live(Origin, str), l \in Live(Origin, str) : SealTo(Origin, str, f, l)
  BY DEF Seal
<1>2. Origin \in Sources /\ Origin # Copy
  BY ReplicationAssumption
<1>3. /\ Quiet /\ TypeOK' /\ Tables'
      /\ wal' = {r \in wal : ~ (r.src = Origin /\ r.str = str /\ r.ts <= l)}
      /\ \E s : /\ segs' = segs \cup {s}
                /\ s.src = Origin /\ s.str = str /\ s.last = l
                /\ s.rows = {t \in Live(Origin, str) : f <= t /\ t <= l}
  BY <1>1, <1>2, SealToIs
<1>4. PICK new : /\ segs' = segs \cup {new}
                 /\ new.src = Origin /\ new.str = str
                 /\ new.rows = {t \in Live(Origin, str) : f <= t /\ t <= l}
  BY <1>3
<1>5. \A t \in Live(Origin, str) : \E r \in wal : r.src = Origin /\ r.str = str /\ r.ts = t
  BY LiveIs DEF Inv, TypeOK, Tables
<1>6. Order'
  <2>1. \A s \in segs' : s.src = Copy => s \in segs
    BY <1>2, <1>4
  <2> QED BY <1>3, <2>1, QuietOrder
<1>7. NoHole'
  <2>1. \A other \in Streams, u \in Timestamps :
          Shows(wal', segs', Origin, other, u) => Shows(wal, segs, Origin, other, u)
    BY <1>3, <1>4, <1>5 DEF Shows
  <2>2. \A other \in Streams, u \in Timestamps :
          Shows(wal, segs, Copy, other, u) => Shows(wal', segs', Copy, other, u)
    BY <1>2, <1>3, <1>4 DEF Shows
  <2>3. wal' \subseteq Row /\ segs' \subseteq Segment /\ Pruned'
    BY <1>3 DEF TypeOK, Tables
  <2> QED BY <1>3, <2>1, <2>2, <2>3, QuietNoHole
<1> QED BY <1>3, <1>6, <1>7, QuietChains DEF Inv

LEMMA SealCopyInv ==
  ASSUME Inv, NEW str \in Streams, SealCopy(str)
  PROVE  Inv'
<1>1. PICK f \in Live(Copy, str), l \in Live(Copy, str) :
        (\A t \in Live(Copy, str) : f <= t) /\ SealTo(Copy, str, f, l)
  BY DEF SealCopy
<1>2. Copy \in Sources /\ Origin # Copy
  BY ReplicationAssumption
<1>3. /\ Quiet /\ TypeOK' /\ Tables'
      /\ wal' = {r \in wal : ~ (r.src = Copy /\ r.str = str /\ r.ts <= l)}
      /\ \E s : /\ segs' = segs \cup {s}
                /\ s.src = Copy /\ s.str = str /\ s.last = l
                /\ s.rows = {t \in Live(Copy, str) : f <= t /\ t <= l}
  BY <1>1, <1>2, SealToIs
<1>4. PICK new : /\ segs' = segs \cup {new}
                 /\ new.src = Copy /\ new.str = str /\ new.last = l
                 /\ new.rows = {t \in Live(Copy, str) : f <= t /\ t <= l}
  BY <1>3
<1>5. /\ \A r \in wal : r.src = Copy /\ r.str = str => r.ts \in Live(Copy, str)
      /\ \A t \in Live(Copy, str) : \E r \in wal : r.src = Copy /\ r.str = str /\ r.ts = t
  BY LiveIs DEF Inv, TypeOK, Tables
<1>6. Order'
  <2>1. \A s \in segs' : s.src = Copy =>
          \/ s \in segs
          \/ \E r \in wal : r.src = Copy /\ r.str = s.str /\ r.ts = s.last
    BY <1>4, <1>5
  <2> QED BY <1>3, <2>1, QuietOrder
<1>7. NoHole'
  <2>1. \A other \in Streams, u \in Timestamps :
          Shows(wal', segs', Origin, other, u) => Shows(wal, segs, Origin, other, u)
    BY <1>2, <1>3, <1>4 DEF Shows
  <2>2. \A other \in Streams, u \in Timestamps :
          Shows(wal, segs, Copy, other, u) => Shows(wal', segs', Copy, other, u)
    BY <1>1, <1>3, <1>4, <1>5 DEF Shows
  <2>3. wal' \subseteq Row /\ segs' \subseteq Segment /\ Pruned'
    BY <1>3 DEF TypeOK, Tables
  <2> QED BY <1>3, <2>1, <2>2, <2>3, QuietNoHole
<1> QED BY <1>3, <1>6, <1>7, QuietChains DEF Inv

(***************************************************************************)
(* Retention cuts only the publisher's file.                               *)
(***************************************************************************)
LEMMA EvictInv ==
  ASSUME Inv, NEW cutoff \in Cutoffs, Evict(cutoff)
  PROVE  Inv'
<1>1. Quiet /\ wal' \subseteq wal /\ segs' \subseteq segs /\ clock' \subseteq clock
      /\ UNCHANGED <<newest, written>> /\ work < MaxWork /\ work' = work + 1
  BY DEF Evict, Work, Quiet, link, told
<1>2. /\ \A r \in wal : r.src = Copy => r \in wal'
      /\ \A s \in segs : s.src = Copy => s \in segs'
  BY ReplicationAssumption DEF Evict, EvictedWal, EvictedSegments
<1>3. gone' \in 0..Len(written)
  <2> DEFINE S == {gone} \cup {k \in 1..Len(written) : written[k] < cutoff}
  <2>1. Len(written) \in Nat /\ gone \in 0..Len(written)
    BY LenProperties DEF Inv, TypeOK
  <2>2. S \subseteq 0..Len(written) /\ S # {}
    BY <2>1
  <2>3. IsFiniteSet(0..Len(written))
    BY <2>1, FS_Interval
  <2>4. IsFiniteSet(S) /\ S \subseteq Int
    BY <2>1, <2>2, <2>3, FS_Subset
  <2>5. Max(S) \in S
    <3> HIDE DEF S
    <3> QED BY <2>2, <2>4, MaxIs
  <2>6. gone' = Max(S)
    BY DEF Evict
  <2> QED BY <2>2, <2>5, <2>6
<1>4. TypeOK'
  <2>1. work' \in 0..MaxWork
    BY <1>1, ReplicationAssumption DEF Inv, TypeOK
  <2> QED BY <1>1, <1>3, <2>1 DEF Inv, TypeOK, Quiet, link, told
<1>5. Tables'
  <2>1. IsFiniteSet(segs')
    BY <1>1, FS_Subset DEF Inv, Tables
  <2> QED BY <1>1, <2>1
          DEF Inv, Tables, Numbered, InSpan, Pruned, IsLive, Newest, Quiet, link
<1>6. Order'
  BY <1>1, QuietOrder
<1>7. NoHole'
  <2>1. wal' \subseteq Row /\ segs' \subseteq Segment /\ Pruned'
    BY <1>4, <1>5 DEF TypeOK, Tables
  <2>2. \A str \in Streams, t \in Timestamps :
          Shows(wal', segs', Origin, str, t) => Shows(wal, segs, Origin, str, t)
    BY <1>1 DEF Shows
  <2>3. \A str \in Streams, t \in Timestamps :
          Shows(wal, segs, Copy, str, t) => Shows(wal', segs', Copy, str, t)
    BY <1>2 DEF Shows
  <2> QED BY <1>1, <2>1, <2>2, <2>3, QuietNoHole
<1> QED BY <1>1, <1>4, <1>5, <1>6, <1>7, QuietChains DEF Inv

-----------------------------------------------------------------------------
(***************************************************************************)
(* The first frame of the channel, applied or lost.                        *)
(***************************************************************************)
Taken ==
  channel # <<>> /\ channel' = Tail(channel) /\ UNCHANGED <<linked, pub, from>>

LEMMA TailIs ==
  ASSUME NEW c \in Seq(Frames), c # <<>>
  PROVE  /\ Len(c) \in Nat /\ 1 \in 1..Len(c) /\ Head(c) = c[1] /\ c[1] \in Frames
         /\ Tail(c) \in Seq(Frames) /\ Len(Tail(c)) = Len(c) - 1
         /\ \A i \in 1..Len(Tail(c)) : i + 1 \in 1..Len(c) /\ Tail(c)[i] = c[i + 1]
<1>1. Len(c) \in Nat /\ Len(c) # 0
  BY EmptySeq, LenProperties
<1>2. 1 \in 1..Len(c)
  BY <1>1
<1>3. Head(c) = c[1] /\ c[1] \in Frames
  BY <1>2, ElementOfSeq
<1>4. /\ Tail(c) \in Seq(Frames) /\ Len(Tail(c)) = Len(c) - 1
      /\ \A i \in 1..Len(Tail(c)) : Tail(c)[i] = c[i + 1]
  BY HeadTailProperties
<1> QED BY <1>1, <1>2, <1>3, <1>4

LEMMA TakeReady ==
  ASSUME NEW c \in Seq(Frames), c # <<>>, NEW s, NEW after,
         IF c[1].kind = "index"
           THEN after.state = c[1].state /\ after.full = (s.full \/ c[1].full)
           ELSE after.state = s.state /\ after.full = s.full,
         NEW j \in 1..Len(c), NEW state, ReadyAt(c, s, j + 1, state)
  PROVE  ReadyAt(Tail(c), after, j, state)
<1> DEFINE d == Tail(c)
<1>1. /\ Len(c) \in Nat /\ 1 \in 1..Len(c) /\ Len(d) = Len(c) - 1
      /\ \A i \in 1..Len(d) : i + 1 \in 1..Len(c) /\ d[i] = c[i + 1]
  BY TailIs
<1> HIDE DEF d
<1>2. \A i \in 1..Len(c) : i = 1 \/ (i - 1 \in 1..Len(d) /\ d[i - 1] = c[i])
  BY <1>1
<1>3. ASSUME NEW i \in 1..Len(c), Before(c, "index", i, j + 1), i # 1
      PROVE  Before(d, "index", i - 1, j) /\ d[i - 1] = c[i]
  BY <1>1, <1>2, <1>3 DEF Before
<1>4. Before(c, "index", 1, j + 1) => NoneBefore(d, "index", j) /\ c[1].kind = "index"
  BY <1>1 DEF Before, NoneBefore
<1>5. NoneBefore(c, "index", j + 1) => NoneBefore(d, "index", j) /\ c[1].kind # "index"
  BY <1>1 DEF NoneBefore
<1>6. StateAt(c, s, j + 1, state) /\ (state # NoIndexState => FullAt(c, s, j + 1))
  BY DEF ReadyAt
<1>7. StateAt(d, after, j, state)
  <2>1. CASE NoneBefore(c, "index", j + 1) /\ s.state = state
    BY <1>5, <2>1 DEF StateAt
  <2>2. ASSUME NEW i \in 1..Len(c), Before(c, "index", i, j + 1), c[i].state = state
        PROVE  StateAt(d, after, j, state)
    <3>1. CASE i = 1
      BY <1>4, <2>2, <3>1 DEF StateAt
    <3>2. CASE i # 1
      BY <1>2, <1>3, <2>2, <3>2 DEF StateAt
    <3> QED BY <3>1, <3>2
  <2> QED BY <1>6, <2>1, <2>2 DEF StateAt
<1>8. FullAt(c, s, j + 1) => FullAt(d, after, j)
  <2>1. CASE s.full
    BY <2>1 DEF FullAt
  <2>2. ASSUME NEW i \in 1..Len(c), i < j + 1, c[i].kind = "index", c[i].full
        PROVE  FullAt(d, after, j)
    <3>1. CASE i = 1
      BY <2>2, <3>1 DEF FullAt
    <3>2. CASE i # 1
      <4>1. i - 1 \in 1..Len(d) /\ d[i - 1] = c[i] /\ i - 1 < j
        BY <1>2, <2>2, <3>2
      <4> QED BY <2>2, <4>1 DEF FullAt
    <3> QED BY <3>1, <3>2
  <2> QED BY <2>1, <2>2 DEF FullAt
<1> QED BY <1>6, <1>7, <1>8 DEF ReadyAt, d

LEMMA TakeSeq ==
  ASSUME NEW c \in Seq(Frames), c # <<>>, NEW s, NEW after, NEW lostSince, NEW lostAfter,
         IF c[1].kind = "rows"
           THEN after.last # -1 => c[1].seq = after.last + lostAfter
           ELSE after.last = s.last /\ lostAfter = lostSince,
         NEW j \in 1..Len(c), NEW n, SeqAt(c, s, lostSince, j + 1, n),
         after.last \in Int, lostAfter \in Int, \A i \in 1..Len(c) : c[i].kind = "rows" => c[i].seq \in Int
  PROVE  SeqAt(Tail(c), after, lostAfter, j, n)
<1> DEFINE d == Tail(c)
<1>1. /\ Len(c) \in Nat /\ 1 \in 1..Len(c) /\ Len(d) = Len(c) - 1
      /\ \A i \in 1..Len(d) : i + 1 \in 1..Len(c) /\ d[i] = c[i + 1]
  BY TailIs
<1> HIDE DEF d
<1>2. \A i \in 1..Len(c) : i = 1 \/ (i - 1 \in 1..Len(d) /\ d[i - 1] = c[i])
  BY <1>1
<1>3. ASSUME NEW i \in 1..Len(c), Before(c, "rows", i, j + 1), i # 1
      PROVE  Before(d, "rows", i - 1, j) /\ d[i - 1] = c[i]
  BY <1>1, <1>2, <1>3 DEF Before
<1>4. Before(c, "rows", 1, j + 1) => NoneBefore(d, "rows", j) /\ c[1].kind = "rows"
  BY <1>1 DEF Before, NoneBefore
<1>5. NoneBefore(c, "rows", j + 1) => NoneBefore(d, "rows", j) /\ c[1].kind # "rows"
  <2> SUFFICES ASSUME NoneBefore(c, "rows", j + 1), NEW k \in 1..Len(d), k < j
               PROVE  d[k].kind # "rows"
    BY <1>1 DEF NoneBefore
  <2>1. k + 1 \in 1..Len(c) /\ d[k] = c[k + 1] /\ k + 1 < j + 1
    BY <1>1
  <2> QED BY <2>1 DEF NoneBefore
<1>6. CASE NoneBefore(c, "rows", j + 1) /\ (s.last # -1 => n = s.last + 1 + lostSince)
  BY <1>5, <1>6 DEF SeqAt, d
<1>7. ASSUME NEW i \in 1..Len(c), Before(c, "rows", i, j + 1), n = c[i].seq + 1
      PROVE  SeqAt(d, after, lostAfter, j, n)
  <2>1. CASE i = 1
    <3>1. NoneBefore(d, "rows", j) /\ c[1].kind = "rows" /\ n = c[1].seq + 1
      BY <1>4, <1>7, <2>1
    <3>2. after.last # -1 => n = after.last + 1 + lostAfter
      BY <1>1, <3>1
    <3> QED BY <3>1, <3>2 DEF SeqAt
  <2>2. CASE i # 1
    BY <1>2, <1>3, <1>7, <2>2 DEF SeqAt
  <2> QED BY <2>1, <2>2
<1> QED BY <1>6, <1>7 DEF SeqAt, d

LEMMA TakenOrder ==
  ASSUME Inv, Taken,
         \A s \in segs' : s.src = Copy => s \in segs \/ s.last \in Marks(channel[1], s.str),
         \A r \in wal' : r.src = Copy =>
           \/ r \in wal
           \/ channel[1].kind = "rows" /\ <<r.str, r.ts>> \in channel[1].rows,
         segs' \subseteq Segment, wal' \subseteq Row
  PROVE  Order' /\ Declared'
<1> DEFINE d == Tail(channel)
<1>1. channel \in Seq(Frames) /\ channel # <<>> /\ channel' = d /\ pub' = pub
  BY DEF Inv, TypeOK, Taken
<1>2. /\ Len(channel) \in Nat /\ 1 \in 1..Len(channel) /\ Len(d) = Len(channel) - 1
      /\ \A i \in 1..Len(d) : i + 1 \in 1..Len(channel) /\ d[i] = channel[i + 1]
  BY <1>1, TailIs
<1> HIDE DEF d
<1>3. Order
  BY DEF Inv
<1>4. \A i \in 1..Len(d) : Sound(d[i])
  BY <1>2, <1>3 DEF Order
<1>5. \A i, j \in 1..Len(d) : i < j => i + 1 < j + 1
  BY <1>2
<1>6. \A i \in 1..Len(d) : 1 < i + 1
  BY <1>2
<1>7. Ascending'
  <2> SUFFICES ASSUME NEW i \in 1..Len(d), NEW j \in 1..Len(d), i < j, NEW str \in Streams,
                      NEW t \in Marks(d[i], str), NEW u \in Marks(d[j], str)
               PROVE  t < u
    BY <1>1 DEF Ascending, Marks
  <2>1. i + 1 \in 1..Len(channel) /\ j + 1 \in 1..Len(channel) /\ i + 1 < j + 1
    BY <1>2, <1>5
  <2>2. t \in Marks(channel[i + 1], str) /\ u \in Marks(channel[j + 1], str)
    BY <1>2
  <2> QED BY <1>3, <2>1, <2>2 DEF Order, Ascending
<1>8. Leading'
  <2> SUFFICES ASSUME NEW j \in 1..Len(d), d[j].kind = "segment"
               PROVE  /\ \A r \in wal' : r.src = Copy => r.str # d[j].str
                      /\ \A i \in 1..Len(d) : i < j /\ d[i].kind = "rows" =>
                           \A x \in d[i].rows : x[1] # d[j].str
    BY <1>1 DEF Leading
  <2>1. /\ \A r \in wal : r.src = Copy => r.str # channel[j + 1].str
        /\ \A i \in 1..Len(channel) : i < j + 1 /\ channel[i].kind = "rows" =>
             \A x \in channel[i].rows : x[1] # channel[j + 1].str
    BY <1>2, <1>3 DEF Order, Leading
  <2>2. \A r \in wal' : r.src = Copy => r.str # d[j].str
    <3> SUFFICES ASSUME NEW r \in wal', r.src = Copy, r \notin wal PROVE r.str # d[j].str
      BY <1>2, <2>1
    <3>1. channel[1].kind = "rows" /\ <<r.str, r.ts>> \in channel[1].rows
      OBVIOUS
    <3>2. <<r.str, r.ts>>[1] = r.str
      OBVIOUS
    <3> QED BY <1>2, <1>6, <2>1, <3>1, <3>2
  <2> QED BY <1>2, <1>5, <2>1, <2>2
<1>9. \A s \in segs' : s.src = Copy => s \in segs \/ s.last \in Marks(channel[1], s.str)
  OBVIOUS
<1>10. \A r \in wal' : r.src = Copy => r \in wal \/ r.ts \in Marks(channel[1], r.str)
  BY DEF Marks, Row
<1>11. ASSUME NEW i \in 1..Len(d), NEW str \in Streams, NEW t \in Marks(d[i], str)
       PROVE  CopyBefore(str, t)' /\ t <= pub.wal[str]
  <2>1. CopyBefore(str, t) /\ t <= pub.wal[str]
    BY <1>2, <1>3 DEF Order
  <2>2. \A u \in Marks(channel[1], str) : u < t
    BY <1>2, <1>3, <1>6 DEF Order, Ascending
  <2> QED BY <1>9, <1>10, <2>1, <2>2 DEF CopyBefore
<1>12. ASSUME NEW str \in Streams PROVE CopyUpTo(str, pub.wal[str])'
  <2>1. CopyUpTo(str, pub.wal[str]) /\ \A t \in Marks(channel[1], str) : t <= pub.wal[str]
    BY <1>2, <1>3 DEF Order
  <2> QED BY <1>1, <1>9, <1>10, <2>1 DEF CopyUpTo
<1>13. Order'
  BY <1>1, <1>4, <1>7, <1>8, <1>11, <1>12 DEF Order, Marks, Sound
<1>14. Declared'
  BY <1>1, <1>2 DEF Inv, Declared
<1> QED BY <1>13, <1>14

LEMMA TakenNoHole ==
  ASSUME Inv, Taken, wal' \subseteq Row, segs' \subseteq Segment, Pruned',
         lost \subseteq lost', skipped \subseteq skipped',
         \A str \in Streams, t \in Timestamps :
           /\ Shows(wal', segs', Origin, str, t) => Shows(wal, segs, Origin, str, t)
           /\ Shows(wal, segs, Copy, str, t) => Shows(wal', segs', Copy, str, t)
           /\ <<str, t>> \in RowsOf(channel[1]) =>
                Shows(wal', segs', Copy, str, t) \/ <<str, t>> \in lost' \cup skipped'
  PROVE  NoHole'
<1>1. linked' = linked /\ pub' = pub /\ from' = from /\ channel' = Tail(channel)
  BY DEF Taken
<1>2. wal \subseteq Row /\ segs \subseteq Segment /\ Pruned /\ Origin \in Sources /\ Copy \in Sources
  BY ReplicationAssumption DEF Inv, TypeOK, Tables
<1>3. /\ Len(channel) \in Nat /\ Len(Tail(channel)) = Len(channel) - 1
      /\ \A i \in 1..Len(Tail(channel)) : Tail(channel)[i] = channel[i + 1]
  BY TailIs DEF Inv, TypeOK, Taken
<1> SUFFICES ASSUME linked, NEW str \in Streams, NEW t \in Visible(Origin, str)',
                    from[str] <= t, t <= pub.wal[str]
             PROVE  t \in Visible(Copy, str)' \cup InFlight(str)' \cup Missed(str)'
  BY <1>1 DEF NoHole
<1>4. Shows(wal', segs', Origin, str, t)
  BY <1>2, VisibleNext
<1>5. t \in Timestamps
  BY <1>4 DEF Shows, Row, Segment
<1>6. t \in Visible(Origin, str)
  BY <1>2, <1>4, <1>5, VisibleIs
<1>7. t \in Visible(Copy, str) \cup InFlight(str) \cup Missed(str)
  BY <1>6 DEF Inv, NoHole
<1>8. t \in Missed(str)' <=> <<str, t>> \in lost' \cup skipped'
  BY <1>5 DEF Missed
<1>9. t \in Visible(Copy, str)' <=> Shows(wal', segs', Copy, str, t)
  BY <1>2, VisibleNext
<1>10. CASE t \in Visible(Copy, str)
  BY <1>2, <1>5, <1>9, <1>10, VisibleIs
<1>11. CASE t \in Missed(str)
  BY <1>8, <1>11 DEF Missed
<1>12. CASE t \in InFlight(str)
  <2>1. PICK i \in 1..Len(channel) : <<str, t>> \in RowsOf(channel[i])
    BY <1>12 DEF InFlight
  <2>2. CASE i = 1
    BY <1>5, <1>8, <1>9, <2>1, <2>2
  <2>3. CASE i # 1
    <3>1. i - 1 \in 1..Len(Tail(channel)) /\ (i - 1) + 1 = i
      BY <1>3, <2>3
    <3>2. <<str, t>> \in RowsOf(Tail(channel)[i - 1])
      BY <1>3, <2>1, <3>1
    <3>3. t \in InFlight(str)'
      BY <1>1, <1>5, <3>1, <3>2 DEF InFlight, RowsOf
    <3> QED BY <3>3
  <2> QED BY <2>2, <2>3
<1> QED BY <1>7, <1>10, <1>11, <1>12

LEMMA FrameIs ==
  ASSUME NEW f \in Frames
  PROVE  /\ f.kind = "index" => f.entry \in Nat /\ f.full \in BOOLEAN /\ f.state \in Seq(Nat)
         /\ f.kind = "clock" => f.ts \in Timestamps
         /\ f.kind = "segment" =>
              /\ f.str \in Streams /\ f.first \in Timestamps /\ f.last \in Timestamps
              /\ f.rows \subseteq Timestamps
         /\ f.kind = "rows" =>
              f.seq \in Nat /\ f.state \in Seq(Nat) /\ f.rows \subseteq Streams \X Timestamps
         /\ RowsOf(f) \subseteq Streams \X Timestamps
<1>1. CASE f \in [kind : {"index"}, entry : Nat, full : BOOLEAN, state : Seq(Nat)]
  BY <1>1 DEF RowsOf
<1>2. CASE f \in [kind : {"clock"}, ts : Timestamps]
  BY <1>2 DEF RowsOf
<1>3. CASE f \in [kind : {"segment"}, str : Streams, first : Timestamps,
                  last : Timestamps, rows : SUBSET Timestamps]
  BY <1>3 DEF RowsOf
<1>4. CASE f \in [kind : {"rows"}, seq : Nat, state : Seq(Nat),
                  rows : SUBSET (Streams \X Timestamps)]
  BY <1>4 DEF RowsOf
<1> QED BY <1>1, <1>2, <1>3, <1>4 DEF Frames

LEMMA TakenAttributed ==
  ASSUME Inv, Taken,
         "index" \notin Lossy =>
           /\ skipped' = {}
           /\ IF channel[1].kind = "index"
                THEN sub'.state = channel[1].state /\ sub'.full = (sub.full \/ channel[1].full)
                ELSE sub'.state = sub.state /\ sub'.full = sub.full
  PROVE  Attributed'
<1> DEFINE d == Tail(channel)
<1>1. channel \in Seq(Frames) /\ channel # <<>> /\ channel' = d /\ pub' = pub /\ linked' = linked
  BY DEF Inv, TypeOK, Taken
<1>2. /\ Len(channel) \in Nat /\ Len(channel) \in 1..Len(channel) /\ Len(d) = Len(channel) - 1
      /\ \A i \in 1..Len(d) : i \in 1..Len(channel) /\ i + 1 \in 1..Len(channel)
                                /\ d[i] = channel[i + 1]
  BY <1>1, TailIs
<1> SUFFICES ASSUME "index" \notin Lossy
             PROVE  /\ \A j \in 1..Len(d) : d[j].kind = "rows" => ReadyAt(d, sub', j, d[j].state)
                    /\ linked => ReadyAt(d, sub', Len(d) + 1, pub.state)
                    /\ skipped' = {}
  BY <1>1, ZenonT(40) DEF Attributed, ReadyAt, StateAt, FullAt, Before, NoneBefore
<1>3. ASSUME NEW j \in 1..Len(channel), NEW state, ReadyAt(channel, sub, j + 1, state)
      PROVE  ReadyAt(d, sub', j, state)
  BY <1>1, <1>3, TakeReady
<1>4. Attributed
  BY DEF Inv
<1>5. Len(d) + 1 = Len(channel)
  BY <1>2
<1> HIDE DEF d
<1>6. ASSUME NEW j \in 1..Len(d), d[j].kind = "rows" PROVE ReadyAt(d, sub', j, d[j].state)
  <2>1. j \in 1..Len(channel) /\ j + 1 \in 1..Len(channel) /\ d[j] = channel[j + 1]
    BY <1>2
  <2>2. ReadyAt(channel, sub, j + 1, channel[j + 1].state)
    BY <1>4, <1>6, <2>1 DEF Attributed
  <2> QED BY <1>3, <2>1, <2>2
<1>7. linked => ReadyAt(d, sub', Len(d) + 1, pub.state)
  BY <1>2, <1>3, <1>4, <1>5 DEF Attributed
<1> QED BY <1>6, <1>7

LEMMA TakenCounted ==
  ASSUME Inv, Taken, sub'.last \in Int, silence' \in Int, sub'.last = -1 => silence' = 0,
         IF channel[1].kind = "rows"
           THEN sub'.last # -1 => channel[1].seq = sub'.last + silence'
           ELSE sub'.last = sub.last /\ silence' = silence
  PROVE  Counted'
<1> DEFINE d == Tail(channel)
<1>1. channel \in Seq(Frames) /\ channel # <<>> /\ channel' = d /\ pub' = pub /\ linked' = linked
  BY DEF Inv, TypeOK, Taken
<1>2. /\ Len(channel) \in Nat /\ Len(channel) \in 1..Len(channel) /\ Len(d) = Len(channel) - 1
      /\ \A i \in 1..Len(d) : i \in 1..Len(channel) /\ i + 1 \in 1..Len(channel)
                                /\ d[i] = channel[i + 1]
  BY <1>1, TailIs
<1>3. \A i \in 1..Len(channel) : channel[i].kind = "rows" => channel[i].seq \in Int
  BY <1>1, ElementOfSeq, FrameIs
<1>4. ASSUME NEW j \in 1..Len(channel), NEW n, SeqAt(channel, sub, silence, j + 1, n)
      PROVE  SeqAt(d, sub', silence', j, n)
  BY <1>1, <1>3, <1>4, TakeSeq
<1>5. Counted
  BY DEF Inv
<1>6. Len(d) + 1 = Len(channel)
  BY <1>2
<1> HIDE DEF d
<1>7. ASSUME NEW j \in 1..Len(d), d[j].kind = "rows"
      PROVE  SeqAt(d, sub', silence', j, d[j].seq)
  <2>1. j \in 1..Len(channel) /\ j + 1 \in 1..Len(channel) /\ d[j] = channel[j + 1]
    BY <1>2
  <2>2. SeqAt(channel, sub, silence, j + 1, channel[j + 1].seq)
    BY <1>5, <1>7, <2>1 DEF Counted
  <2> QED BY <1>4, <2>1, <2>2
<1>8. linked => SeqAt(d, sub', silence', Len(d) + 1, pub.seq)
  BY <1>2, <1>4, <1>5, <1>6 DEF Counted
<1> QED BY <1>1, <1>7, <1>8 DEF Counted, SeqAt, Before, NoneBefore

\* Where the first frame's rows go in the copy: past everything it holds.
LEMMA FirstIs ==
  ASSUME Inv, channel # <<>>
  PROVE  /\ channel \in Seq(Frames) /\ 1 \in 1..Len(channel) /\ channel[1] \in Frames
         /\ Head(channel) = channel[1] /\ Tail(channel) \in Seq(Frames)
         /\ Sound(channel[1])
         /\ \A str \in Streams : \A t \in Marks(channel[1], str) : CopyBefore(str, t)
         /\ channel[1].kind = "segment" =>
              \A r \in wal : r.src = Copy => r.str # channel[1].str
<1>1. channel \in Seq(Frames) /\ Order
  BY DEF Inv, TypeOK
<1>2. /\ 1 \in 1..Len(channel) /\ channel[1] \in Frames /\ Head(channel) = channel[1]
      /\ Tail(channel) \in Seq(Frames)
  BY <1>1, TailIs
<1> QED BY <1>1, <1>2 DEF Order, Leading

LEMMA ApplyIndexInv ==
  ASSUME Inv, ApplyIndex
  PROVE  Inv'
<1> DEFINE f == channel[1]
<1>1. /\ Taken /\ UNCHANGED <<newest, written, gone, work, lost, losses>>
      /\ UNCHANGED <<wal, segs, clock, skipped, refused, gap, silence>>
  BY DEF ApplyIndex, First, Take, Taken
<1>2. f \in Frames /\ f.kind = "index" /\ Head(channel) = f /\ Tail(channel) \in Seq(Frames)
      /\ 1 \in 1..Len(channel)
  BY FirstIs DEF ApplyIndex, First
<1>3. f.entry \in Nat /\ f.full \in BOOLEAN /\ f.state \in Seq(Nat) /\ RowsOf(f) = {}
  BY <1>2, FrameIs DEF RowsOf
<1>4. sub' = [sub EXCEPT !.state = f.state, !.full = sub.full \/ f.full,
                         !.got = Append(sub.got, f.entry)]
  BY <1>2 DEF ApplyIndex
<1>5. /\ sub' \in [state : Seq(Nat), full : BOOLEAN, last : Nat \cup {-1}, got : Seq(Nat)]
      /\ sub'.state = f.state /\ sub'.full = (sub.full \/ f.full) /\ sub'.last = sub.last
  BY <1>3, <1>4, AppendProperties DEF Inv, TypeOK
<1>6. sub'.state # NoIndexState
  BY <1>2, <1>5 DEF Inv, Declared
<1> HIDE DEF f
<1>7. TypeOK'
  BY <1>1, <1>2, <1>5, <1>6 DEF Inv, TypeOK, Taken
<1>8. Tables'
  BY <1>1 DEF Inv, Tables, Numbered, InSpan, Pruned, Newest, Taken
<1>9. wal' \subseteq Row /\ segs' \subseteq Segment /\ Pruned'
  BY <1>7, <1>8 DEF TypeOK, Tables
<1>10. Order' /\ Declared'
  BY <1>1, <1>9, TakenOrder
<1>11. NoHole'
  BY <1>1, <1>3, <1>9, TakenNoHole DEF f
<1>12. Attributed'
  <2>1. "index" \notin Lossy => skipped' = {}
    BY <1>1 DEF Inv, Attributed
  <2> QED BY <1>1, <1>2, <1>5, <2>1, TakenAttributed DEF f
<1>13. Counted'
  <2>1. sub'.last \in Int /\ silence' \in Int /\ (sub'.last = -1 => silence' = 0)
    BY <1>1, <1>5 DEF Inv, TypeOK, Counted
  <2> QED BY <1>1, <1>2, <1>5, <2>1, TakenCounted DEF f
<1> QED BY <1>1, <1>7, <1>8, <1>10, <1>11, <1>12, <1>13 DEF Inv, NothingRefused

LEMMA ApplyClockInv ==
  ASSUME Inv, ApplyClock
  PROVE  Inv'
<1> DEFINE f == channel[1]
<1>1. /\ Taken /\ UNCHANGED <<newest, written, gone, work, lost, losses>>
      /\ UNCHANGED <<wal, segs, sub, skipped, refused, gap, silence>>
  BY DEF ApplyClock, First, Take, Taken
<1>2. f \in Frames /\ f.kind = "clock" /\ Head(channel) = f /\ Tail(channel) \in Seq(Frames)
      /\ 1 \in 1..Len(channel)
  BY FirstIs DEF ApplyClock, First
<1>3. f.ts \in Timestamps /\ RowsOf(f) = {}
  BY <1>2, FrameIs DEF RowsOf
<1> HIDE DEF f
<1>4. TypeOK'
  <2>1. clock' \subseteq [src : Sources, ts : Timestamps]
    BY <1>2, <1>3, ReplicationAssumption DEF Inv, TypeOK, ApplyClock
  <2> QED BY <1>1, <1>2, <2>1 DEF Inv, TypeOK, Taken
<1>5. Tables'
  BY <1>1 DEF Inv, Tables, Numbered, InSpan, Pruned, Newest, Taken
<1>6. wal' \subseteq Row /\ segs' \subseteq Segment /\ Pruned'
  BY <1>4, <1>5 DEF TypeOK, Tables
<1>7. Order' /\ Declared'
  BY <1>1, <1>6, TakenOrder
<1>8. NoHole'
  BY <1>1, <1>3, <1>6, TakenNoHole DEF f
<1>9. Attributed'
  <2>1. "index" \notin Lossy => skipped' = {}
    BY <1>1 DEF Inv, Attributed
  <2> QED BY <1>1, <1>2, <2>1, TakenAttributed DEF f
<1>10. Counted'
  <2>1. sub'.last \in Int /\ silence' \in Int /\ (sub'.last = -1 => silence' = 0)
    BY <1>1 DEF Inv, TypeOK, Counted
  <2> QED BY <1>1, <1>2, <2>1, TakenCounted DEF f
<1> QED BY <1>1, <1>4, <1>5, <1>7, <1>8, <1>9, <1>10 DEF Inv, NothingRefused

LEMMA ApplySegmentInv ==
  ASSUME Inv, ApplySegment
  PROVE  Inv'
<1> DEFINE f == channel[1]
           new == NewSegment(Copy, f.str, f.first, f.last, f.rows)
<1>1. /\ Taken /\ UNCHANGED <<newest, written, gone, work, lost, losses>>
      /\ UNCHANGED <<wal, clock, sub, skipped, gap, silence>>
  BY DEF ApplySegment, First, Take, Taken
<1>2. /\ f \in Frames /\ f.kind = "segment" /\ Head(channel) = f /\ Tail(channel) \in Seq(Frames)
      /\ 1 \in 1..Len(channel)
      /\ Sound(f) /\ \A str \in Streams : \A t \in Marks(f, str) : CopyBefore(str, t)
      /\ \A r \in wal : r.src = Copy => r.str # f.str
  BY FirstIs DEF ApplySegment, First
<1>3. /\ f.str \in Streams /\ f.first \in Timestamps /\ f.last \in Timestamps
      /\ f.rows \subseteq Timestamps /\ RowsOf(f) = {f.str} \X f.rows
  BY <1>2, FrameIs DEF RowsOf
<1>4. /\ wal \subseteq Row /\ segs \subseteq Segment /\ IsFiniteSet(segs)
      /\ Numbered /\ InSpan /\ Pruned /\ Newest /\ Copy \in Sources /\ Origin # Copy
  BY ReplicationAssumption DEF Inv, TypeOK, Tables
<1>5. \A s \in segs : s.src = Copy /\ s.str = f.str => s.last < f.first
  <2>1. f.first \in Marks(f, f.str)
    BY <1>2, <1>3 DEF Marks
  <2> QED BY <1>2, <1>3, <2>1 DEF CopyBefore
<1>6. ~ Held(f) /\ ~ Refused(f)
  <2>1. /\ Watermark(Copy, f.str) \in Times
        /\ \/ Watermark(Copy, f.str) = NoTs
           \/ \E s \in segs : s.src = Copy /\ s.str = f.str /\ s.last = Watermark(Copy, f.str)
    BY <1>4, WatermarkIs
  <2>2. Watermark(Copy, f.str) < f.first
    BY <1>3, <1>5, <2>1, TsIs
  <2>3. Live(Copy, f.str) = {}
    BY <1>2, <1>4, LiveIs
  <2>4. f.first <= f.last /\ f.first \in Int /\ f.last \in Int /\ Watermark(Copy, f.str) \in Int
    BY <1>2, <1>3, <2>1, TsIs DEF Sound
  <2> HIDE DEF f
  <2>5. ~ (f.last <= Watermark(Copy, f.str)) /\ ~ (f.first <= Watermark(Copy, f.str))
    BY <2>2, <2>4
  <2> QED BY <2>3, <2>5 DEF Held, Refused
<1>7. segs' = segs \cup {new} /\ refused' = refused
  BY <1>2, <1>6 DEF ApplySegment, Inv, TypeOK
<1>8. /\ NextSeq(Copy, f.str) \in Nat
      /\ \A s \in segs : s.src = Copy /\ s.str = f.str => s.seq < NextSeq(Copy, f.str)
  BY <1>4, NextSeqIs
<1>9. /\ new \in Segment /\ new.src = Copy /\ new.str = f.str /\ new.seq = NextSeq(Copy, f.str)
      /\ new.first = f.first /\ new.last = f.last /\ new.rows = f.rows
  BY <1>3, <1>4, <1>8 DEF NewSegment, Segment
<1> HIDE DEF new, f
<1>10. TypeOK'
  BY <1>1, <1>2, <1>4, <1>7, <1>9 DEF Inv, TypeOK, Taken
<1>11. Tables'
  <2>1. IsFiniteSet(segs')
    BY <1>4, <1>7, FS_AddElement
  <2>2. Numbered'
    <3> SUFFICES ASSUME NEW s \in segs', NEW u \in segs', SameStream(s, u)
                 PROVE  /\ s.seq < u.seq => s.last < u.first
                        /\ s.seq = u.seq => s = u
      BY DEF Numbered
    <3>1. CASE s \in segs /\ u \in segs
      BY <1>4, <3>1 DEF Numbered
    <3>2. CASE s = new /\ u = new
      BY <1>8, <1>9, <3>2
    <3>3. CASE s \in segs /\ u = new
      BY <1>4, <1>5, <1>8, <1>9, <3>3 DEF SameStream, Segment
    <3>4. CASE s = new /\ u \in segs
      <4>1. u.seq < new.seq /\ u.seq \in Nat /\ new.seq \in Nat
        BY <1>4, <1>8, <1>9, <3>4 DEF SameStream, Segment
      <4> QED BY <3>4, <4>1
    <3> QED BY <1>7, <3>1, <3>2, <3>3, <3>4
  <2>3. InSpan'
    BY <1>2, <1>4, <1>7, <1>9 DEF InSpan, Sound
  <2>4. Pruned'
    BY <1>1, <1>2, <1>4, <1>7, <1>9 DEF Pruned, IsLive, SameStream
  <2>5. Newest'
    BY <1>1, <1>4, <1>7, <1>9 DEF Newest, Taken
  <2> QED BY <2>1, <2>2, <2>3, <2>4, <2>5 DEF Tables
<1>12. wal' \subseteq Row /\ segs' \subseteq Segment /\ Pruned'
  BY <1>10, <1>11 DEF TypeOK, Tables
<1>13. Order' /\ Declared'
  <2>1. \A s \in segs' : s.src = Copy => s \in segs \/ s.last \in Marks(channel[1], s.str)
    <3>1. f.last \in Marks(f, f.str)
      BY <1>2, <1>3 DEF Marks
    <3> QED BY <1>7, <1>9, <3>1 DEF f
  <2> QED BY <1>1, <1>12, <2>1, TakenOrder
<1>14. NoHole'
  <2>1. \A str \in Streams, t \in Timestamps :
          /\ Shows(wal', segs', Origin, str, t) => Shows(wal, segs, Origin, str, t)
          /\ Shows(wal, segs, Copy, str, t) => Shows(wal', segs', Copy, str, t)
          /\ <<str, t>> \in RowsOf(f) => Shows(wal', segs', Copy, str, t)
    BY <1>1, <1>3, <1>4, <1>7, <1>9 DEF Shows
  <2> QED BY <1>1, <1>12, <2>1, TakenNoHole DEF f
<1>15. Attributed'
  <2>1. "index" \notin Lossy => skipped' = {}
    BY <1>1 DEF Inv, Attributed
  <2> QED BY <1>1, <1>2, <2>1, TakenAttributed DEF f
<1>16. Counted'
  <2>1. sub'.last \in Int /\ silence' \in Int /\ (sub'.last = -1 => silence' = 0)
    BY <1>1 DEF Inv, TypeOK, Counted
  <2> QED BY <1>1, <1>2, <2>1, TakenCounted DEF f
<1> QED BY <1>7, <1>10, <1>11, <1>13, <1>14, <1>15, <1>16 DEF Inv, NothingRefused

\* The number and the state of a Rows frame that comes first.
LEMMA FirstRowsIs ==
  ASSUME Inv, First("rows")
  PROVE  /\ sub.last # -1 => channel[1].seq = sub.last + 1 + silence
         /\ "index" \notin Lossy => Resolvable(channel[1])
<1>1. channel[1].kind = "rows" /\ 1 \in 1..Len(channel)
  BY FirstIs DEF First
<1>2. \A kind : ~ \E i \in 1..Len(channel) : Before(channel, kind, i, 1)
  BY DEF Before
<1>3. sub.last # -1 => channel[1].seq = sub.last + 1 + silence
  <2>1. SeqAt(channel, sub, silence, 1, channel[1].seq)
    BY <1>1 DEF Inv, Counted
  <2> QED BY <1>2, <2>1 DEF SeqAt
<1>4. ASSUME "index" \notin Lossy PROVE Resolvable(channel[1])
  <2>1. ReadyAt(channel, sub, 1, channel[1].state)
    BY <1>1, <1>4 DEF Inv, Attributed
  <2>2. sub.state = channel[1].state
    BY <1>2, <2>1 DEF ReadyAt, StateAt
  <2>3. FullAt(channel, sub, 1) => sub.full
    BY DEF FullAt
  <2> QED BY <2>1, <2>2, <2>3 DEF Resolvable, ReadyAt
<1> QED BY <1>3, <1>4

LEMMA ApplyRowsInv ==
  ASSUME Inv, ApplyRows
  PROVE  Inv'
<1> DEFINE f == channel[1]
           rows == IF Resolvable(f) THEN f.rows ELSE {}
<1>1. /\ Taken /\ UNCHANGED <<newest, written, gone, work, lost, losses>>
      /\ UNCHANGED <<segs, clock>> /\ silence' = 0
  BY DEF ApplyRows, First, Take, Taken
<1>2. /\ f \in Frames /\ f.kind = "rows" /\ Head(channel) = f /\ Tail(channel) \in Seq(Frames)
      /\ 1 \in 1..Len(channel)
      /\ \A str \in Streams : \A t \in Marks(f, str) : CopyBefore(str, t)
  BY FirstIs DEF ApplyRows, First
<1>3. /\ f.seq \in Nat /\ f.state \in Seq(Nat) /\ f.rows \subseteq Streams \X Timestamps
      /\ RowsOf(f) = f.rows
  BY <1>2, FrameIs DEF RowsOf
<1>4. /\ wal \subseteq Row /\ segs \subseteq Segment /\ Pruned /\ Newest
      /\ Copy \in Sources /\ Origin # Copy
  BY ReplicationAssumption DEF Inv, TypeOK, Tables
<1>5. ASSUME NEW str \in Streams, NEW t \in Timestamps, <<str, t>> \in f.rows
      PROVE  CopyBefore(str, t)
  <2>1. t \in Marks(f, str)
    BY <1>2, <1>5 DEF Marks
  <2> QED BY <1>2, <2>1
<1>6. Dropped(rows) = {}
  <2> SUFFICES ASSUME NEW x \in rows, x[2] <= Watermark(Copy, x[1]) \/ x[2] \in Live(Copy, x[1])
               PROVE  FALSE
    BY DEF Dropped
  <2>1. x[1] \in Streams /\ x[2] \in Timestamps /\ x = <<x[1], x[2]>> /\ x \in f.rows
    BY <1>3
  <2>2. CopyBefore(x[1], x[2])
    BY <1>5, <2>1
  <2>3. x[2] \notin Live(Copy, x[1])
    <3>1. \A t \in Live(Copy, x[1]) : \E r \in wal : r.src = Copy /\ r.str = x[1] /\ r.ts = t
      BY <1>4, LiveIs
    <3> QED BY <2>1, <2>2, <3>1, TsIs DEF CopyBefore
  <2>4. ~ (x[2] <= Watermark(Copy, x[1]))
    <3>1. /\ Watermark(Copy, x[1]) \in Times
          /\ \/ Watermark(Copy, x[1]) = NoTs
             \/ \E s \in segs : s.src = Copy /\ s.str = x[1] /\ s.last = Watermark(Copy, x[1])
      BY <1>4, WatermarkIs
    <3>2. Watermark(Copy, x[1]) < x[2]
      BY <2>1, <2>2, <3>1, TsIs DEF CopyBefore
    <3> QED BY <2>1, <3>1, <3>2, TsIs
  <2> QED BY <2>3, <2>4
<1>7. /\ gap' = Jumps(f.seq) /\ sub' = [sub EXCEPT !.last = f.seq]
      /\ wal' = wal \cup {[src |-> Copy, str |-> x[1], ts |-> x[2]] : x \in rows}
      /\ refused' = refused /\ skipped' = skipped \cup (f.rows \ rows)
  BY <1>2, <1>6 DEF ApplyRows, Inv, TypeOK
<1>8. /\ sub' \in [state : Seq(Nat), full : BOOLEAN, last : Nat \cup {-1}, got : Seq(Nat)]
      /\ sub'.state = sub.state /\ sub'.full = sub.full /\ sub'.last = f.seq
  BY <1>3, <1>7 DEF Inv, TypeOK
<1>9. \A r \in wal' : \/ r \in wal
                      \/ /\ r.src = Copy /\ r.str \in Streams /\ r.ts \in Timestamps
                         /\ <<r.str, r.ts>> \in f.rows /\ r \in Row
  <2> SUFFICES ASSUME NEW x \in rows
               PROVE  LET r == [src |-> Copy, str |-> x[1], ts |-> x[2]]
                      IN  /\ r.str \in Streams /\ r.ts \in Timestamps
                          /\ <<r.str, r.ts>> \in f.rows /\ r \in Row
    BY <1>7
  <2>1. x[1] \in Streams /\ x[2] \in Timestamps /\ x = <<x[1], x[2]>> /\ x \in f.rows
    BY <1>3
  <2> QED BY <1>4, <2>1 DEF Row
<1>10. TypeOK'
  <2>1. wal' \subseteq Row
    BY <1>4, <1>9
  <2>2. gap' \in BOOLEAN
    BY <1>7 DEF Jumps
  <2>3. skipped' \subseteq Streams \X Timestamps
    BY <1>3, <1>7 DEF Inv, TypeOK
  <2> HIDE DEF f
  <2> QED BY <1>1, <1>2, <1>7, <1>8, <2>1, <2>2, <2>3 DEF Inv, TypeOK, Taken
<1>11. Pruned'
  <2> SUFFICES ASSUME NEW r \in wal', NEW s \in segs, SameStream(s, r) PROVE s.last < r.ts
    BY <1>1 DEF Pruned, IsLive
  <2>1. CASE r \in wal
    BY <1>4, <2>1 DEF Pruned, IsLive
  <2>2. CASE r \notin wal
    <3>1. CopyBefore(r.str, r.ts) /\ r.src = Copy
      BY <1>5, <1>9, <2>2
    <3> QED BY <3>1 DEF CopyBefore, SameStream
  <2> QED BY <2>1, <2>2
<1>12. Tables'
  <2>1. Newest'
    BY <1>1, <1>4, <1>9 DEF Newest, Taken
  <2> QED BY <1>1, <1>11, <2>1 DEF Inv, Tables, Numbered, InSpan
<1>13. wal' \subseteq Row /\ segs' \subseteq Segment
  BY <1>10 DEF TypeOK
<1>14. Order' /\ Declared'
  <2>1. \A r \in wal' : r.src = Copy =>
          \/ r \in wal
          \/ channel[1].kind = "rows" /\ <<r.str, r.ts>> \in channel[1].rows
    BY <1>2, <1>9
  <2> QED BY <1>1, <1>13, <2>1, TakenOrder
<1>15. NoHole'
  <2>1. ASSUME NEW str \in Streams, NEW t \in Timestamps
        PROVE  /\ Shows(wal', segs', Origin, str, t) => Shows(wal, segs, Origin, str, t)
               /\ Shows(wal, segs, Copy, str, t) => Shows(wal', segs', Copy, str, t)
    BY <1>1, <1>4, <1>7, <1>9 DEF Shows
  <2>2. ASSUME NEW str \in Streams, NEW t \in Timestamps, <<str, t>> \in f.rows
        PROVE  Shows(wal', segs', Copy, str, t) \/ <<str, t>> \in lost' \cup skipped'
    <3>1. CASE <<str, t>> \in rows
      <4> DEFINE x == <<str, t>>
                 r == [src |-> Copy, str |-> x[1], ts |-> x[2]]
      <4>1. r \in wal' /\ r.src = Copy /\ r.str = str /\ r.ts = t
        BY <1>7, <3>1
      <4> QED BY <4>1 DEF Shows
    <3>2. CASE <<str, t>> \notin rows
      BY <1>7, <2>2, <3>2
    <3> QED BY <3>1, <3>2
  <2>3. lost \subseteq lost' /\ skipped \subseteq skipped'
    BY <1>1, <1>7
  <2> QED BY <1>1, <1>3, <1>11, <1>13, <2>1, <2>2, <2>3, TakenNoHole
<1>16. Attributed'
  <2>1. ASSUME "index" \notin Lossy PROVE skipped' = {}
    <3>1. rows = f.rows /\ skipped = {}
      BY <2>1, FirstRowsIs DEF ApplyRows, Inv, Attributed
    <3> QED BY <1>7, <3>1
  <2> QED BY <1>1, <1>2, <1>8, <2>1, TakenAttributed
<1>17. Counted'
  <2>1. sub'.last \in Int /\ silence' \in Int /\ channel[1].seq = sub'.last + silence'
    BY <1>1, <1>3, <1>8
  <2> QED BY <1>1, <1>2, <2>1, TakenCounted
<1> QED BY <1>7, <1>10, <1>12, <1>14, <1>15, <1>16, <1>17 DEF Inv, NothingRefused

LEMMA LoseInv ==
  ASSUME Inv, Lose
  PROVE  Inv'
<1> DEFINE f == channel[1]
<1>1. /\ Taken /\ UNCHANGED <<newest, written, gone, work, wal, segs, clock>>
      /\ UNCHANGED <<sub, skipped, refused, gap>> /\ losses < MaxLost /\ losses' = losses + 1
  BY DEF Lose, Taken, file
<1>2. f \in Frames /\ f.kind \in Lossy /\ Tail(channel) \in Seq(Frames)
      /\ 1 \in 1..Len(channel) /\ Head(channel) = f
  BY FirstIs DEF Lose
<1>3. /\ lost' = lost \cup RowsOf(f) /\ RowsOf(f) \subseteq Streams \X Timestamps
      /\ silence' = IF f.kind = "rows" /\ sub.last # -1 THEN silence + 1 ELSE silence
  BY <1>2, FrameIs DEF Lose
<1> HIDE DEF f
<1>4. TypeOK'
  <2>1. losses' \in 0..MaxLost
    BY <1>1, ReplicationAssumption DEF Inv, TypeOK
  <2>2. silence' \in Nat
    BY <1>3 DEF Inv, TypeOK
  <2>3. lost' \subseteq Streams \X Timestamps
    BY <1>3 DEF Inv, TypeOK
  <2> QED BY <1>1, <1>2, <2>1, <2>2, <2>3 DEF Inv, TypeOK, Taken
<1>5. Tables'
  BY <1>1 DEF Inv, Tables, Numbered, InSpan, Pruned, Newest, Taken
<1>6. wal' \subseteq Row /\ segs' \subseteq Segment /\ Pruned'
  BY <1>4, <1>5 DEF TypeOK, Tables
<1>7. Order' /\ Declared'
  BY <1>1, <1>6, TakenOrder
<1>8. NoHole'
  BY <1>1, <1>3, <1>6, TakenNoHole DEF f
<1>9. Attributed'
  <2>1. "index" \notin Lossy => skipped' = {} /\ f.kind # "index"
    BY <1>1, <1>2 DEF Inv, Attributed
  <2> QED BY <1>1, <2>1, TakenAttributed DEF f
<1>10. Counted'
  <2>1. sub'.last \in Int /\ silence' \in Int /\ (sub'.last = -1 => silence' = 0)
    BY <1>1, <1>3 DEF Inv, TypeOK, Counted
  <2>2. f.kind = "rows" /\ sub.last # -1 => f.seq = sub.last + 1 + silence
    BY <1>2, FirstRowsIs DEF First, Lose, f
  <2>3. f.kind = "rows" /\ sub'.last # -1 => f.seq = sub'.last + silence'
    BY <1>1, <1>3, <2>2 DEF Inv, TypeOK
  <2> QED BY <1>1, <1>3, <2>1, <2>3, TakenCounted DEF f
<1> QED BY <1>1, <1>4, <1>5, <1>7, <1>8, <1>9, <1>10 DEF Inv, NothingRefused

-----------------------------------------------------------------------------
(***************************************************************************)
(* Connections that end.                                                   *)
(***************************************************************************)
LEMMA PollFailsInv ==
  ASSUME Inv, PollFails
  PROVE  Inv'
<1>1. /\ UNCHANGED <<wal, segs, clock, newest, written, gone, work, pub, sub, channel>>
      /\ UNCHANGED <<from, lost, skipped, refused, gap, silence, losses>> /\ linked' = FALSE
  BY DEF PollFails, file, told
<1>2. TypeOK' /\ Tables'
  BY <1>1 DEF Inv, TypeOK, Tables, Numbered, InSpan, Pruned, Newest
<1>3. Order' /\ Declared'
  BY <1>1 DEF Inv, Order, Ascending, Leading, CopyUpTo, CopyBefore, Declared
<1>4. NothingRefused' /\ NoHole' /\ Attributed' /\ Counted'
  BY <1>1 DEF Inv, NothingRefused, NoHole, Attributed, Counted, ReadyAt, StateAt, FullAt,
              SeqAt, Before, NoneBefore
<1> QED BY <1>2, <1>3, <1>4 DEF Inv

LEMMA DisconnectInv ==
  ASSUME Inv, Disconnect
  PROVE  Inv'
<1>1. /\ UNCHANGED <<wal, segs, clock, newest, written, gone, work, pub, sub>>
      /\ UNCHANGED <<from, lost, skipped, refused, gap, silence>>
      /\ linked' = FALSE /\ channel' = <<>> /\ losses < MaxLost /\ losses' = losses + 1
  BY DEF Disconnect, file
<1>2. channel' \in Seq(Frames) /\ Len(channel') = 0
  BY <1>1, EmptySeq
<1>3. TypeOK'
  <2>1. losses' \in 0..MaxLost
    BY <1>1, ReplicationAssumption DEF Inv, TypeOK
  <2> QED BY <1>1, <1>2, <2>1 DEF Inv, TypeOK
<1>4. Tables'
  BY <1>1 DEF Inv, Tables, Numbered, InSpan, Pruned, Newest
<1>5. Order' /\ Declared'
  BY <1>1, <1>2 DEF Inv, Order, Ascending, Leading, CopyUpTo, Declared
<1>6. NothingRefused' /\ NoHole' /\ Attributed' /\ Counted'
  BY <1>1, <1>2 DEF Inv, NothingRefused, NoHole, Attributed, Counted
<1> QED BY <1>3, <1>4, <1>5, <1>6 DEF Inv

-----------------------------------------------------------------------------
(***************************************************************************)
(* What a query answers, and the frames made of it.                        *)
(***************************************************************************)
LEMMA InOrderIs ==
  ASSUME NEW S, IsFiniteSet(S), NEW q \in InOrder(S)
  PROVE  q \in Seq(S) /\ Range(q) = S
<1>1. Cardinality(S) \in Nat
  BY FS_CardinalityType
<1>2. q \in [1..Cardinality(S) -> S] /\ \A x \in S : \E i \in 1..Cardinality(S) : q[i] = x
  BY DEF InOrder, Bijection, Surjection, Injection
<1>3. q \in Seq(S)
  BY <1>1, <1>2, SeqDef
<1> QED BY <1>2, <1>3 DEF Range

LEMMA InSeqOrderIs ==
  ASSUME NEW S, IsFiniteSet(S), NEW g \in InSeqOrder(S)
  PROVE  /\ g \in Seq(S) /\ \A s \in S : \E k \in 1..Len(g) : g[k] = s
         /\ \A k, m \in 1..Len(g) : k < m /\ g[k].str = g[m].str => g[k].seq < g[m].seq
<1>1. Cardinality(S) \in Nat
  BY FS_CardinalityType
<1>2. /\ g \in [1..Cardinality(S) -> S]
      /\ \A x \in S : \E i \in 1..Cardinality(S) : g[i] = x
      /\ \A i, j \in DOMAIN g : i < j /\ g[i].str = g[j].str => g[i].seq < g[j].seq
  BY DEF InSeqOrder, Bijection, Surjection, Injection
<1>3. g \in Seq(S)
  BY <1>1, <1>2, SeqDef
<1>4. DOMAIN g = 1..Len(g) /\ DOMAIN g = 1..Cardinality(S)
  BY <1>2, <1>3, LenProperties
<1> QED BY <1>2, <1>3, <1>4

\* The frames b made of the entries q and the segments g.
Batch(b, p, q, g) ==
  /\ b \in Seq(Frames) /\ Len(q) <= Len(b)
  /\ \A i \in 1..Len(q) : b[i] = IndexFrames(p, q)[i]
  /\ \A i \in 1..Len(b) : Len(q) < i => b[i].kind \in {"segment", "clock"}
  /\ \A i \in 1..Len(b) : b[i].kind = "segment" =>
       \E k \in 1..Len(g) : b[i] = SegmentFrames(g)[k]
  /\ \A i, j \in 1..Len(b) : i < j /\ b[i].kind = "segment" /\ b[j].kind = "segment" =>
       \E k, m \in 1..Len(g) :
         k < m /\ b[i] = SegmentFrames(g)[k] /\ b[j] = SegmentFrames(g)[m]
  /\ \A k \in 1..Len(g) : \E i \in 1..Len(b) : b[i] = SegmentFrames(g)[k]

LEMMA FunctionIsSeq ==
  ASSUME NEW S, NEW n \in Nat, NEW f \in [1..n -> S]
  PROVE  f \in Seq(S) /\ Len(f) = n
<1>1. f \in Seq(S)
  BY SeqDef
<1> QED BY <1>1, LenProperties

LEMMA IndexFramesIs ==
  ASSUME NEW p, p.state \in Seq(Nat), p.full \in BOOLEAN, NEW q \in Seq(Nat)
  PROVE  /\ IndexFrames(p, q) \in Seq(Frames) /\ Len(IndexFrames(p, q)) = Len(q)
         /\ \A i \in 1..Len(q) :
              /\ IndexFrames(p, q)[i].kind = "index"
              /\ i = 1 /\ ~ p.full => IndexFrames(p, q)[i].full
              /\ IndexFrames(p, q)[i].state = p.state \o SubSeq(q, 1, i)
              /\ IndexFrames(p, q)[i].state # NoIndexState
<1>1. Len(q) \in Nat /\ \A i \in 1..Len(q) : q[i] \in Nat
  BY LenProperties, ElementOfSeq
<1>2. ASSUME NEW i \in 1..Len(q)
      PROVE  /\ p.state \o SubSeq(q, 1, i) \in Seq(Nat)
             /\ p.state \o SubSeq(q, 1, i) # NoIndexState
  <2>1. \A j \in 1..i : q[j] \in Nat
    BY <1>1
  <2>2. SubSeq(q, 1, i) \in Seq(Nat) /\ Len(SubSeq(q, 1, i)) = i
    BY <1>1, <2>1, SubSeqProperties
  <2>3. SubSeq(q, 1, i) # <<>>
    BY <2>2, EmptySeq
  <2> DEFINE more == SubSeq(q, 1, i)
  <2>4. more \in Seq(Nat) /\ more # <<>>
    BY <2>2, <2>3
  <2> HIDE DEF more
  <2>5. p.state \o more \in Seq(Nat)
    BY <2>4, ConcatProperties
  <2>6. p.state \o more = <<>> => more = <<>>
    BY <2>4, ConcatEqualIffEmpty
  <2> QED BY <2>4, <2>5, <2>6 DEF NoIndexState, more
<1>3. \A i \in 1..Len(q) : IndexFrames(p, q)[i] \in Frames
  BY <1>1, <1>2 DEF IndexFrames, Frames
<1>4. IndexFrames(p, q) \in [1..Len(q) -> Frames]
  BY <1>3 DEF IndexFrames
<1>5. IndexFrames(p, q) \in Seq(Frames) /\ Len(IndexFrames(p, q)) = Len(q)
  BY <1>1, <1>4, FunctionIsSeq
<1> QED BY <1>2, <1>5 DEF IndexFrames

LEMMA SegmentFramesIs ==
  ASSUME NEW S, S \subseteq Segment, NEW g \in Seq(S)
  PROVE  /\ SegmentFrames(g) \in Seq(Frames) /\ Len(SegmentFrames(g)) = Len(g)
         /\ \A k \in 1..Len(g) :
              LET f == SegmentFrames(g)[k]
              IN  /\ f.kind = "segment" /\ f.str = g[k].str /\ f.first = g[k].first
                  /\ f.last = g[k].last /\ f.rows = g[k].rows
<1>1. Len(g) \in Nat /\ \A i \in 1..Len(g) : g[i] \in Segment
  BY LenProperties, ElementOfSeq
<1>2. \A i \in 1..Len(g) : SegmentFrames(g)[i] \in Frames
  BY <1>1 DEF SegmentFrames, Frames, Segment
<1>3. SegmentFrames(g) \in [1..Len(g) -> Frames]
  BY <1>2 DEF SegmentFrames
<1>4. SegmentFrames(g) \in Seq(Frames)
  BY <1>1, <1>3, SeqDef
<1>5. Len(SegmentFrames(g)) = Len(g)
  BY <1>1, <1>3, <1>4, LenProperties
<1> QED BY <1>4, <1>5 DEF SegmentFrames

LEMMA ClockFramesIs ==
  ASSUME NEW c \in Seq(Timestamps)
  PROVE  /\ ClockFrames(c) \in Seq(Frames) /\ Len(ClockFrames(c)) = Len(c)
         /\ \A k \in 1..Len(c) : ClockFrames(c)[k].kind = "clock"
<1>1. Len(c) \in Nat /\ \A i \in 1..Len(c) : c[i] \in Timestamps
  BY LenProperties, ElementOfSeq
<1>2. \A i \in 1..Len(c) : ClockFrames(c)[i] \in Frames
  BY <1>1 DEF ClockFrames, Frames
<1>3. ClockFrames(c) \in [1..Len(c) -> Frames]
  BY <1>2 DEF ClockFrames
<1>4. ClockFrames(c) \in Seq(Frames)
  BY <1>1, <1>3, SeqDef
<1>5. Len(ClockFrames(c)) = Len(c)
  BY <1>1, <1>3, <1>4, LenProperties
<1> QED BY <1>4, <1>5 DEF ClockFrames

\* Where an element of a concatenation of three comes from.
LEMMA ThreeParts ==
  ASSUME NEW x \in Seq(Frames), NEW y \in Seq(Frames), NEW z \in Seq(Frames)
  PROVE  LET b == x \o y \o z
         IN  /\ b \in Seq(Frames) /\ Len(b) = Len(x) + Len(y) + Len(z)
             /\ Len(x) \in Nat /\ Len(y) \in Nat /\ Len(z) \in Nat
             /\ \A i \in 1..Len(x) : b[i] = x[i]
             /\ \A i \in 1..Len(y) : b[Len(x) + i] = y[i]
             /\ \A i \in 1..Len(z) : b[Len(x) + Len(y) + i] = z[i]
<1> DEFINE a == x \o y
           b == a \o z
<1>1. Len(x) \in Nat /\ Len(y) \in Nat /\ Len(z) \in Nat
  BY LenProperties
<1>2. /\ a \in Seq(Frames) /\ Len(a) = Len(x) + Len(y)
      /\ \A i \in 1..Len(x) + Len(y) : a[i] = IF i <= Len(x) THEN x[i] ELSE y[i - Len(x)]
  BY ConcatProperties
<1>a. a \in Seq(Frames)
  BY <1>2
<1> HIDE DEF a
<1>3. /\ b \in Seq(Frames) /\ Len(b) = Len(a) + Len(z)
      /\ \A i \in 1..Len(a) + Len(z) : b[i] = IF i <= Len(a) THEN a[i] ELSE z[i - Len(a)]
  BY <1>a, ConcatProperties
<1> HIDE DEF b
<1>4. \A i \in 1..Len(x) : b[i] = x[i]
  BY <1>1, <1>2, <1>3
<1>5. ASSUME NEW i \in 1..Len(y) PROVE b[Len(x) + i] = y[i]
  <2> DEFINE j == Len(x) + i
  <2>1. j \in 1..Len(x) + Len(y) /\ j \in 1..Len(a) + Len(z) /\ ~ (j <= Len(x)) /\ j <= Len(a)
        /\ j - Len(x) = i
    BY <1>1, <1>2
  <2> HIDE DEF j
  <2>2. b[j] = y[i]
    BY <1>2, <1>3, <2>1
  <2> QED BY <2>2 DEF j
<1>6. ASSUME NEW i \in 1..Len(z) PROVE b[Len(x) + Len(y) + i] = z[i]
  <2> DEFINE j == Len(x) + Len(y) + i
  <2>1. j \in 1..Len(a) + Len(z) /\ ~ (j <= Len(a)) /\ j - Len(a) = i
    BY <1>1, <1>2
  <2> HIDE DEF j
  <2>2. b[j] = z[i]
    BY <1>3, <2>1
  <2> QED BY <2>2 DEF j
<1> QED BY <1>1, <1>2, <1>3, <1>4, <1>5, <1>6 DEF a, b

LEMMA BatchIs ==
  ASSUME NEW p, p.state \in Seq(Nat), p.full \in BOOLEAN, NEW q \in Seq(Nat),
         NEW S, S \subseteq Segment, NEW g \in Seq(S), NEW c \in Seq(Timestamps),
         NEW y, NEW z,
         \/ y = SegmentFrames(g) /\ z = ClockFrames(c)
         \/ y = ClockFrames(c) /\ z = SegmentFrames(g)
  PROVE  Batch(IndexFrames(p, q) \o y \o z, p, q, g)
<1> DEFINE x == IndexFrames(p, q)
           segment == SegmentFrames(g)
           b == x \o y \o z
<1>1. x \in Seq(Frames) /\ Len(x) = Len(q) /\ \A i \in 1..Len(q) : x[i].kind = "index"
  BY IndexFramesIs
<1>2. /\ segment \in Seq(Frames) /\ Len(segment) = Len(g)
      /\ \A k \in 1..Len(g) : segment[k].kind = "segment"
  BY SegmentFramesIs
<1>3. /\ ClockFrames(c) \in Seq(Frames) /\ Len(ClockFrames(c)) = Len(c)
      /\ \A k \in 1..Len(c) : ClockFrames(c)[k].kind = "clock"
  BY ClockFramesIs
<1> HIDE DEF x, segment
<1>4. y \in Seq(Frames) /\ z \in Seq(Frames)
  BY <1>2, <1>3 DEF segment
<1>5. /\ b \in Seq(Frames) /\ Len(b) = Len(x) + Len(y) + Len(z)
      /\ Len(x) \in Nat /\ Len(y) \in Nat /\ Len(z) \in Nat
      /\ \A i \in 1..Len(x) : b[i] = x[i]
      /\ \A i \in 1..Len(y) : b[Len(x) + i] = y[i]
      /\ \A i \in 1..Len(z) : b[Len(x) + Len(y) + i] = z[i]
  BY <1>1, <1>4, ThreeParts
<1> HIDE DEF b
<1>6. \A i \in 1..Len(b) : \/ i \in 1..Len(x)
                           \/ i - Len(x) \in 1..Len(y) /\ b[i] = y[i - Len(x)]
                           \/ /\ i - Len(x) - Len(y) \in 1..Len(z)
                              /\ b[i] = z[i - Len(x) - Len(y)]
  <2> SUFFICES ASSUME NEW i \in 1..Len(b)
               PROVE  \/ i \in 1..Len(x)
                      \/ i - Len(x) \in 1..Len(y) /\ b[i] = y[i - Len(x)]
                      \/ /\ i - Len(x) - Len(y) \in 1..Len(z)
                         /\ b[i] = z[i - Len(x) - Len(y)]
    OBVIOUS
  <2>1. CASE i <= Len(x)
    BY <1>5, <2>1
  <2>2. CASE Len(x) < i /\ i <= Len(x) + Len(y)
    <3> DEFINE k == i - Len(x)
    <3>1. k \in 1..Len(y) /\ i = Len(x) + k
      BY <1>5, <2>2
    <3> HIDE DEF k
    <3>2. b[i] = y[k]
      BY <1>5, <3>1
    <3> QED BY <3>1, <3>2 DEF k
  <2>3. CASE Len(x) + Len(y) < i
    <3> DEFINE k == i - Len(x) - Len(y)
    <3>1. k \in 1..Len(z) /\ i = Len(x) + Len(y) + k
      BY <1>5, <2>3
    <3> HIDE DEF k
    <3>2. b[i] = z[k]
      BY <1>5, <3>1
    <3> QED BY <3>1, <3>2 DEF k
  <2> QED BY <1>5, <2>1, <2>2, <2>3
\* Where the segments start.
<1>7. \E off \in Nat :
        /\ Len(q) <= off /\ off + Len(g) <= Len(b)
        /\ \A k \in 1..Len(g) : b[off + k] = segment[k]
        /\ \A i \in 1..Len(b) : Len(q) < i =>
             \/ i - off \in 1..Len(g)
             \/ b[i].kind = "clock"
  <2>1. CASE y = segment /\ z = ClockFrames(c)
    <3> WITNESS Len(x) \in Nat
    <3>1. Len(y) = Len(g) /\ Len(z) = Len(c) /\ \A i \in 1..Len(z) : z[i].kind = "clock"
      BY <1>2, <1>3, <2>1
    <3>2. \A i \in 1..Len(b) : Len(q) < i =>
            i - Len(x) \in 1..Len(g) \/ b[i].kind = "clock"
      <4> SUFFICES ASSUME NEW i \in 1..Len(b), Len(q) < i
                   PROVE  i - Len(x) \in 1..Len(g) \/ b[i].kind = "clock"
        OBVIOUS
      <4>1. ~ (i \in 1..Len(x))
        BY <1>1, <1>5
      <4>2. \/ i - Len(x) \in 1..Len(y)
            \/ /\ i - Len(x) - Len(y) \in 1..Len(z)
               /\ b[i] = z[i - Len(x) - Len(y)]
        BY <1>6, <4>1
      <4> QED BY <3>1, <4>2
    <3>3. \A k \in 1..Len(g) : b[Len(x) + k] = segment[k]
      BY <1>5, <2>1, <3>1
    <3> QED BY <1>1, <1>5, <3>1, <3>2, <3>3
  <2>2. CASE y = ClockFrames(c) /\ z = segment
    <3> DEFINE off == Len(x) + Len(y)
    <3>1. Len(z) = Len(g) /\ Len(y) = Len(c) /\ \A i \in 1..Len(y) : y[i].kind = "clock"
      BY <1>2, <1>3, <2>2
    <3>2. \A k \in 1..Len(g) : b[off + k] = segment[k]
      BY <1>5, <2>2, <3>1
    <3>3. \A i \in 1..Len(b) : i - Len(x) - Len(y) = i - off
      BY <1>5
    <3>4. off \in Nat /\ Len(q) <= off /\ off + Len(g) <= Len(b)
      BY <1>1, <1>5, <3>1
    <3> HIDE DEF off
    <3>5. \A i \in 1..Len(b) : Len(q) < i => i - off \in 1..Len(g) \/ b[i].kind = "clock"
      <4> SUFFICES ASSUME NEW i \in 1..Len(b), Len(q) < i
                   PROVE  i - off \in 1..Len(g) \/ b[i].kind = "clock"
        OBVIOUS
      <4>1. ~ (i \in 1..Len(x))
        BY <1>1, <1>5
      <4>2. \/ i - Len(x) \in 1..Len(y) /\ b[i] = y[i - Len(x)]
            \/ i - Len(x) - Len(y) \in 1..Len(z)
        BY <1>6, <4>1
      <4> QED BY <3>1, <3>3, <4>2
    <3> QED BY <3>2, <3>4, <3>5
  <2> QED BY <2>1, <2>2 DEF segment
<1>8. PICK off \in Nat :
        /\ Len(q) <= off /\ off + Len(g) <= Len(b)
        /\ \A k \in 1..Len(g) : b[off + k] = segment[k]
        /\ \A i \in 1..Len(b) : Len(q) < i =>
             \/ i - off \in 1..Len(g)
             \/ b[i].kind = "clock"
  BY <1>7
<1>9. Len(g) \in Nat /\ Len(b) \in Nat /\ Len(q) \in Nat /\ Len(q) <= Len(b)
  BY <1>1, <1>5, LenProperties
<1>10. ASSUME NEW i \in 1..Len(b), b[i].kind = "segment"
       PROVE  i - off \in 1..Len(g) /\ b[i] = segment[i - off]
  <2>1. Len(q) < i
    <3> SUFFICES ASSUME i <= Len(q) PROVE FALSE
      BY <1>9
    <3>1. i \in 1..Len(q)
      BY <1>9
    <3>2. b[i] = x[i] /\ x[i].kind = "index"
      BY <1>1, <1>5, <3>1
    <3> QED BY <1>10, <3>2
  <2>2. i - off \in 1..Len(g)
    BY <1>8, <1>10, <2>1
  <2> DEFINE k == i - off
  <2>3. i = off + k /\ k \in 1..Len(g)
    BY <2>2
  <2> HIDE DEF k
  <2>4. b[i] = segment[k]
    BY <1>8, <2>3
  <2> QED BY <2>2, <2>4 DEF k
<1>11. \A i \in 1..Len(b) : Len(q) < i => b[i].kind \in {"segment", "clock"}
  <2> SUFFICES ASSUME NEW i \in 1..Len(b), Len(q) < i, i - off \in 1..Len(g)
               PROVE  b[i].kind = "segment"
    BY <1>8
  <2> DEFINE k == i - off
  <2>1. i = off + k /\ k \in 1..Len(g)
    OBVIOUS
  <2> HIDE DEF k
  <2> QED BY <1>2, <1>8, <2>1
<1>12. \A i, j \in 1..Len(b) : i < j /\ b[i].kind = "segment" /\ b[j].kind = "segment" =>
         \E k, m \in 1..Len(g) : k < m /\ b[i] = segment[k] /\ b[j] = segment[m]
  <2> SUFFICES ASSUME NEW i \in 1..Len(b), NEW j \in 1..Len(b), i < j,
                      b[i].kind = "segment", b[j].kind = "segment"
               PROVE  \E k, m \in 1..Len(g) : k < m /\ b[i] = segment[k] /\ b[j] = segment[m]
    OBVIOUS
  <2>1. /\ i - off \in 1..Len(g) /\ b[i] = segment[i - off]
        /\ j - off \in 1..Len(g) /\ b[j] = segment[j - off]
    BY <1>10
  <2>2. i - off < j - off
    BY <1>9
  <2> QED BY <2>1, <2>2
<1>13. \A k \in 1..Len(g) : \E i \in 1..Len(b) : b[i] = segment[k]
  <2> SUFFICES ASSUME NEW k \in 1..Len(g) PROVE \E i \in 1..Len(b) : b[i] = segment[k]
    OBVIOUS
  <2>1. off + k \in 1..Len(b)
    BY <1>8, <1>9
  <2>2. b[off + k] = segment[k]
    BY <1>8
  <2> QED BY <2>1, <2>2
<1>14. \A i \in 1..Len(q) : b[i] = x[i]
  BY <1>1, <1>5
<1>15. Batch(b, p, q, g)
  BY <1>5, <1>9, <1>10, <1>11, <1>12, <1>13, <1>14 DEF Batch, x, segment
<1> QED BY <1>15 DEF b, x

LEMMA BatchOfIndex ==
  ASSUME NEW p, p.state \in Seq(Nat), p.full \in BOOLEAN, NEW q \in Seq(Nat)
  PROVE  Batch(IndexFrames(p, q), p, q, <<>>)
<1>1. /\ IndexFrames(p, q) \in Seq(Frames) /\ Len(IndexFrames(p, q)) = Len(q)
      /\ \A i \in 1..Len(q) : IndexFrames(p, q)[i].kind = "index"
  BY IndexFramesIs
<1>2. Len(q) \in Nat /\ Len(<<>>) = 0
  BY LenProperties, EmptySeq
<1> QED BY <1>1, <1>2 DEF Batch

LEMMA NoSegments == <<>> \in InSeqOrder({})
<1>1. <<>> \in Seq({}) /\ Len(<<>>) = 0
  BY EmptySeq
<1>2. <<>> \in [1..0 -> {}] /\ DOMAIN <<>> = 1..0
  BY <1>1, LenProperties
<1>3. Cardinality({}) = 0
  BY FS_EmptySet
<1> QED BY <1>2, <1>3 DEF InSeqOrder, Bijection, Surjection, Injection, IsInjective

LEMMA BatchOrder ==
  ASSUME Inv, NEW ss, ss \subseteq {s \in segs : s.src = Origin}, NEW g \in InSeqOrder(ss),
         NEW p, p.state \in Seq(Nat), p.full \in BOOLEAN, NEW q \in Seq(Nat),
         NEW b, Batch(b, p, q, g)
  PROVE  /\ \A i \in 1..Len(b) : /\ Sound(b[i]) /\ b[i].kind # "rows"
                                 /\ b[i].kind = "index" => b[i].state # NoIndexState
                                 /\ b[i].kind = "segment" => \E s \in ss : s.str = b[i].str
         /\ \A i \in 1..Len(b) : \A str \in Streams : \A t \in Marks(b[i], str) :
              \E s \in ss : s.str = str /\ t <= s.last
         /\ \A i, j \in 1..Len(b) : i < j =>
              \A str \in Streams : \A t \in Marks(b[i], str), u \in Marks(b[j], str) : t < u
         /\ \A s \in ss : \A t \in s.rows :
              \E i \in 1..Len(b) : <<s.str, t>> \in RowsOf(b[i])
<1>1. ss \subseteq Segment /\ IsFiniteSet(ss) /\ Numbered /\ InSpan
  BY FS_Subset DEF Inv, TypeOK, Tables
<1>2. /\ g \in Seq(ss) /\ \A s \in ss : \E k \in 1..Len(g) : g[k] = s
      /\ \A k, m \in 1..Len(g) : k < m /\ g[k].str = g[m].str => g[k].seq < g[m].seq
  BY <1>1, InSeqOrderIs
<1>3. \A k \in 1..Len(g) : g[k] \in ss
  BY <1>2, ElementOfSeq
<1>4. \A k \in 1..Len(g) :
        LET f == SegmentFrames(g)[k]
        IN  /\ f.kind = "segment" /\ f.str = g[k].str /\ f.first = g[k].first
            /\ f.last = g[k].last /\ f.rows = g[k].rows
  BY <1>1, <1>2, SegmentFramesIs
<1>5. \A i \in 1..Len(q) :
        IndexFrames(p, q)[i].kind = "index" /\ IndexFrames(p, q)[i].state # NoIndexState
  BY IndexFramesIs
<1>6. b \in Seq(Frames) /\ Len(b) \in Nat /\ Len(q) \in Nat
  BY LenProperties DEF Batch
<1>7. \A i \in 1..Len(b) : \/ i \in 1..Len(q) /\ b[i] = IndexFrames(p, q)[i]
                           \/ b[i].kind \in {"segment", "clock"}
  <2> SUFFICES ASSUME NEW i \in 1..Len(b), i <= Len(q)
               PROVE  i \in 1..Len(q) /\ b[i] = IndexFrames(p, q)[i]
    BY <1>6 DEF Batch
  <2>1. i \in 1..Len(q)
    BY <1>6
  <2> QED BY <2>1 DEF Batch
<1>8. ASSUME NEW i \in 1..Len(b), b[i].kind = "segment"
      PROVE  \E s \in ss : /\ s.str = b[i].str /\ s.first = b[i].first
                           /\ s.last = b[i].last /\ s.rows = b[i].rows
  <2>1. PICK k \in 1..Len(g) : b[i] = SegmentFrames(g)[k]
    BY <1>8 DEF Batch
  <2>2. /\ g[k].str = b[i].str /\ g[k].first = b[i].first
        /\ g[k].last = b[i].last /\ g[k].rows = b[i].rows
    BY <1>4, <2>1
  <2>3. g[k] \in ss
    BY <1>3
  <2> QED BY <2>2, <2>3
<1>9. ASSUME NEW i \in 1..Len(b)
      PROVE  /\ Sound(b[i]) /\ b[i].kind # "rows"
             /\ b[i].kind = "index" => b[i].state # NoIndexState
             /\ b[i].kind = "segment" => \E s \in ss : s.str = b[i].str
  <2>1. b[i].kind # "rows" /\ (b[i].kind = "index" => b[i].state # NoIndexState)
    BY <1>5, <1>7
  <2>2. Sound(b[i])
    BY <1>1, <1>8 DEF Sound, InSpan
  <2> QED BY <1>8, <2>1, <2>2
<1>10. ASSUME NEW i \in 1..Len(b), NEW str \in Streams, NEW t \in Marks(b[i], str)
       PROVE  \E s \in ss : s.str = str /\ t <= s.last
  <2>1. b[i].kind = "segment" /\ b[i].str = str /\ t \in {b[i].first, b[i].last} /\ t \in Timestamps
    BY <1>9 DEF Marks
  <2>2. PICK s \in ss : s.str = b[i].str /\ s.first = b[i].first /\ s.last = b[i].last
    BY <1>8, <2>1
  <2>3. s.first <= s.last /\ s.last \in Int
    BY <1>1, TsIs DEF InSpan, Segment
  <2> QED BY <2>1, <2>2, <2>3
<1>11. ASSUME NEW i \in 1..Len(b), NEW j \in 1..Len(b), i < j, NEW str \in Streams,
              NEW t \in Marks(b[i], str), NEW u \in Marks(b[j], str)
       PROVE  t < u
  <2>1. /\ b[i].kind = "segment" /\ b[i].str = str /\ t \in {b[i].first, b[i].last}
        /\ b[j].kind = "segment" /\ b[j].str = str /\ u \in {b[j].first, b[j].last}
    BY <1>9 DEF Marks
  <2>2. PICK k \in 1..Len(g), m \in 1..Len(g) :
          k < m /\ b[i] = SegmentFrames(g)[k] /\ b[j] = SegmentFrames(g)[m]
    BY <1>11, <2>1 DEF Batch
  <2>3. /\ g[k] \in ss /\ g[m] \in ss /\ g[k].str = str /\ g[m].str = str
        /\ t \in {g[k].first, g[k].last} /\ u \in {g[m].first, g[m].last}
    BY <1>3, <1>4, <2>1, <2>2
  <2>4. g[k].seq < g[m].seq
    BY <1>2, <2>2, <2>3
  <2>5. g[k].last < g[m].first
    BY <1>1, <2>3, <2>4 DEF Numbered, SameStream
  <2>6. /\ g[k].first <= g[k].last /\ g[m].first <= g[m].last
        /\ g[k].first \in Int /\ g[k].last \in Int /\ g[m].first \in Int /\ g[m].last \in Int
    BY <1>1, <2>3, TsIs DEF InSpan, Segment
  <2>7. t <= g[k].last /\ g[m].first <= u /\ t \in Int /\ u \in Int
    BY <2>3, <2>6
  <2> QED BY <2>5, <2>6, <2>7
<1>12. ASSUME NEW s \in ss, NEW t \in s.rows
       PROVE  \E i \in 1..Len(b) : <<s.str, t>> \in RowsOf(b[i])
  <2>1. PICK k \in 1..Len(g) : g[k] = s
    BY <1>2
  <2>2. PICK i \in 1..Len(b) : b[i] = SegmentFrames(g)[k]
    BY DEF Batch
  <2>3. b[i].kind = "segment" /\ b[i].str = s.str /\ b[i].rows = s.rows
    BY <1>4, <2>1, <2>2
  <2>4. <<s.str, t>> \in RowsOf(b[i])
    BY <2>3 DEF RowsOf
  <2> QED BY <2>4
<1> QED BY <1>9, <1>10, <1>11, <1>12

-----------------------------------------------------------------------------
(***************************************************************************)
(* Frames appended to the channel.                                         *)
(***************************************************************************)
LEMMA GrowIs ==
  ASSUME NEW c \in Seq(Frames), NEW b \in Seq(Frames)
  PROVE  /\ c \o b \in Seq(Frames) /\ Len(c \o b) = Len(c) + Len(b)
         /\ Len(c) \in Nat /\ Len(b) \in Nat
         /\ \A i \in 1..Len(c) : i \in 1..Len(c \o b) /\ (c \o b)[i] = c[i]
         /\ \A i \in 1..Len(b) : Len(c) + i \in 1..Len(c \o b) /\ (c \o b)[Len(c) + i] = b[i]
         /\ \A k \in 1..Len(c \o b) :
              \/ k \in 1..Len(c)
              \/ k - Len(c) \in 1..Len(b) /\ (c \o b)[k] = b[k - Len(c)] /\ Len(c) < k
<1>1. Len(c) \in Nat /\ Len(b) \in Nat
  BY LenProperties
<1> DEFINE d == c \o b
<1>2. /\ d \in Seq(Frames) /\ Len(d) = Len(c) + Len(b)
      /\ \A i \in 1..Len(c) + Len(b) : d[i] = IF i <= Len(c) THEN c[i] ELSE b[i - Len(c)]
  BY ConcatProperties
<1> HIDE DEF d
<1>3. \A i \in 1..Len(c) : i \in 1..Len(d) /\ d[i] = c[i]
  BY <1>1, <1>2
<1>4. ASSUME NEW i \in 1..Len(b) PROVE Len(c) + i \in 1..Len(d) /\ d[Len(c) + i] = b[i]
  <2> DEFINE k == Len(c) + i
  <2>1. k \in 1..Len(c) + Len(b) /\ ~ (k <= Len(c)) /\ k - Len(c) = i
    BY <1>1
  <2> HIDE DEF k
  <2>2. k \in 1..Len(d) /\ d[k] = b[i]
    BY <1>2, <2>1
  <2> QED BY <2>2 DEF k
<1>5. \A k \in 1..Len(d) : \/ k \in 1..Len(c)
                           \/ k - Len(c) \in 1..Len(b) /\ d[k] = b[k - Len(c)] /\ Len(c) < k
  BY <1>1, <1>2
<1> QED BY <1>1, <1>2, <1>3, <1>4, <1>5 DEF d

LEMMA GrowReady ==
  ASSUME NEW c \in Seq(Frames), NEW b \in Seq(Frames), NEW s, NEW j \in 1..Len(c) + 1,
         NEW state, ReadyAt(c, s, j, state)
  PROVE  ReadyAt(c \o b, s, j, state)
<1> DEFINE d == c \o b
<1>1. /\ Len(d) \in Nat /\ Len(c) \in Nat /\ \A i \in 1..Len(c) : i \in 1..Len(d) /\ d[i] = c[i]
      /\ \A k \in 1..Len(d) : k \in 1..Len(c) \/ Len(c) < k
  BY GrowIs, LenProperties
<1> HIDE DEF d
<1>2. \A k \in 1..Len(d) : k < j => k \in 1..Len(c) /\ d[k] = c[k]
  BY <1>1
<1>3. StateAt(d, s, j, state)
  BY <1>1, <1>2 DEF ReadyAt, StateAt, Before, NoneBefore
<1>4. FullAt(c, s, j) => FullAt(d, s, j)
  BY <1>1 DEF FullAt
<1> QED BY <1>3, <1>4 DEF ReadyAt, d

LEMMA GrowSeq ==
  ASSUME NEW c \in Seq(Frames), NEW b \in Seq(Frames), NEW s, NEW j \in 1..Len(c) + 1,
         NEW lostSince, NEW n, SeqAt(c, s, lostSince, j, n)
  PROVE  SeqAt(c \o b, s, lostSince, j, n)
<1> DEFINE d == c \o b
<1>1. /\ Len(d) \in Nat /\ Len(c) \in Nat /\ \A i \in 1..Len(c) : i \in 1..Len(d) /\ d[i] = c[i]
      /\ \A k \in 1..Len(d) : k \in 1..Len(c) \/ Len(c) < k
  BY GrowIs, LenProperties
<1> HIDE DEF d
<1>2. \A k \in 1..Len(d) : k < j => k \in 1..Len(c) /\ d[k] = c[k]
  BY <1>1
<1>3. SeqAt(d, s, lostSince, j, n)
  BY <1>1, <1>2 DEF SeqAt, Before, NoneBefore
<1> QED BY <1>3 DEF d

\* Frames that are not of the kind are passed over.
LEMMA OverOthers ==
  ASSUME NEW c \in Seq(Frames), NEW b \in Seq(Frames), NEW kind,
         \A i \in 1..Len(b) : b[i].kind # kind
  PROVE  /\ \A i \in 1..Len(c) : Before(c, kind, i, Len(c) + 1)
                                   => Before(c \o b, kind, i, Len(c \o b) + 1)
         /\ NoneBefore(c, kind, Len(c) + 1) => NoneBefore(c \o b, kind, Len(c \o b) + 1)
<1> DEFINE d == c \o b
<1>1. /\ Len(d) \in Nat /\ Len(c) \in Nat /\ \A i \in 1..Len(c) : i \in 1..Len(d) /\ d[i] = c[i]
      /\ \A k \in 1..Len(d) :
           \/ k \in 1..Len(c)
           \/ k - Len(c) \in 1..Len(b) /\ d[k] = b[k - Len(c)]
  BY GrowIs, LenProperties
<1> HIDE DEF d
<1>2. \A k \in 1..Len(d) : k \in 1..Len(c) \/ d[k].kind # kind
  BY <1>1
<1>3. \A i \in 1..Len(c) : Before(c, kind, i, Len(c) + 1) => Before(d, kind, i, Len(d) + 1)
  BY <1>1, <1>2 DEF Before
<1>4. NoneBefore(c, kind, Len(c) + 1) => NoneBefore(d, kind, Len(d) + 1)
  BY <1>1, <1>2 DEF NoneBefore
<1> QED BY <1>3, <1>4 DEF d

LEMMA OverSeq ==
  ASSUME NEW c \in Seq(Frames), NEW b \in Seq(Frames), NEW s, NEW lostSince, NEW n,
         \A i \in 1..Len(b) : b[i].kind # "rows", SeqAt(c, s, lostSince, Len(c) + 1, n)
  PROVE  SeqAt(c \o b, s, lostSince, Len(c \o b) + 1, n)
<1> DEFINE d == c \o b
<1>1. /\ \A i \in 1..Len(c) : i \in 1..Len(d) /\ d[i] = c[i]
      /\ \A i \in 1..Len(c) : Before(c, "rows", i, Len(c) + 1)
                                => Before(d, "rows", i, Len(d) + 1)
      /\ NoneBefore(c, "rows", Len(c) + 1) => NoneBefore(d, "rows", Len(d) + 1)
  BY GrowIs, OverOthers
<1> HIDE DEF d
<1>2. SeqAt(d, s, lostSince, Len(d) + 1, n)
  BY <1>1 DEF SeqAt
<1> QED BY <1>2 DEF d

LEMMA OverReady ==
  ASSUME NEW c \in Seq(Frames), NEW b \in Seq(Frames), NEW s, NEW state,
         \A i \in 1..Len(b) : b[i].kind # "index", ReadyAt(c, s, Len(c) + 1, state)
  PROVE  ReadyAt(c \o b, s, Len(c \o b) + 1, state)
<1> DEFINE d == c \o b
<1>1. /\ \A i \in 1..Len(c) : i \in 1..Len(d) /\ d[i] = c[i]
      /\ \A i \in 1..Len(c) : Before(c, "index", i, Len(c) + 1)
                                => Before(d, "index", i, Len(d) + 1)
      /\ NoneBefore(c, "index", Len(c) + 1) => NoneBefore(d, "index", Len(d) + 1)
      /\ Len(d) = Len(c) + Len(b) /\ Len(c) \in Nat /\ Len(b) \in Nat
  BY GrowIs, OverOthers
<1> HIDE DEF d
<1>2. StateAt(d, s, Len(d) + 1, state)
  BY <1>1 DEF ReadyAt, StateAt
<1>3. FullAt(c, s, Len(c) + 1) => FullAt(d, s, Len(d) + 1)
  BY <1>1 DEF FullAt
<1> QED BY <1>2, <1>3 DEF ReadyAt, d

LEMMA BatchReady ==
  ASSUME NEW c \in Seq(Frames), NEW s, NEW p, p.state \in Seq(Nat), p.full \in BOOLEAN,
         p.full <=> p.state # NoIndexState, NEW q \in Seq(Nat), NEW g, NEW b,
         Batch(b, p, q, g), ReadyAt(c, s, Len(c) + 1, p.state)
  PROVE  ReadyAt(c \o b, s, Len(c \o b) + 1, p.state \o q)
<1> DEFINE d == c \o b
<1>1. /\ b \in Seq(Frames) /\ Len(q) <= Len(b) /\ Len(q) \in Nat /\ Len(b) \in Nat
      /\ \A i \in 1..Len(q) : b[i] = IndexFrames(p, q)[i]
      /\ \A i \in 1..Len(b) : Len(q) < i => b[i].kind # "index"
  BY LenProperties DEF Batch
<1>2. CASE q = <<>>
  <2>1. Len(q) = 0 /\ p.state \o q = p.state
    BY <1>2, ConcatEmptySeq, EmptySeq
  <2>2. \A i \in 1..Len(b) : b[i].kind # "index"
    BY <1>1, <2>1
  <2> QED BY <1>1, <2>1, <2>2, OverReady
<1>3. CASE q # <<>>
  <2> DEFINE n == Len(q)
             at == Len(c) + n
  <2>1. n \in 1..n /\ 1 \in 1..n
    BY <1>1, <1>3, EmptySeq
  <2>2. /\ Len(d) = Len(c) + Len(b) /\ Len(c) \in Nat /\ Len(d) \in Nat
        /\ \A i \in 1..Len(c) : i \in 1..Len(d) /\ d[i] = c[i]
        /\ \A i \in 1..Len(b) : Len(c) + i \in 1..Len(d) /\ d[Len(c) + i] = b[i]
        /\ \A k \in 1..Len(d) :
             \/ k \in 1..Len(c)
             \/ k - Len(c) \in 1..Len(b) /\ d[k] = b[k - Len(c)] /\ Len(c) < k
    BY <1>1, GrowIs, LenProperties
  <2>3. \A i \in 1..n : i \in 1..Len(b)
    BY <1>1
  <2>4. /\ IndexFrames(p, q)[n].kind = "index"
        /\ IndexFrames(p, q)[n].state = p.state \o SubSeq(q, 1, n)
        /\ IndexFrames(p, q)[1].kind = "index"
        /\ ~ p.full => IndexFrames(p, q)[1].full
    BY <2>1, IndexFramesIs, ZenonT(40)
  <2>5. SubSeq(q, 1, n) = q
    BY SubSeqFull
  <2> HIDE DEF d
  <2>6. /\ at \in 1..Len(d) /\ d[at].kind = "index" /\ d[at].state = p.state \o q
        /\ Len(c) + 1 \in 1..Len(d) /\ d[Len(c) + 1].kind = "index"
        /\ ~ p.full => d[Len(c) + 1].full
    BY <1>1, <2>1, <2>2, <2>3, <2>4, <2>5, ZenonT(40)
  <2>7. \A k \in 1..Len(d) : at < k => d[k].kind # "index"
    <3> SUFFICES ASSUME NEW k \in 1..Len(d), at < k PROVE d[k].kind # "index"
      OBVIOUS
    <3>1. k - Len(c) \in 1..Len(b) /\ d[k] = b[k - Len(c)] /\ n < k - Len(c)
      BY <1>1, <2>2
    <3> QED BY <1>1, <3>1
  <2>8. at < Len(d) + 1
    BY <2>2, <2>6
  <2>9. StateAt(d, s, Len(d) + 1, p.state \o q)
    BY <2>6, <2>7, <2>8 DEF StateAt, Before
  <2>10. FullAt(d, s, Len(d) + 1)
    <3>1. CASE p.full
      <4>1. FullAt(c, s, Len(c) + 1)
        BY <3>1 DEF ReadyAt
      <4> QED BY <2>2, <4>1 DEF FullAt
    <3>2. CASE ~ p.full
      BY <2>2, <2>6, <3>2 DEF FullAt
    <3> QED BY <3>1, <3>2
  <2> QED BY <2>9, <2>10 DEF ReadyAt, d
<1> QED BY <1>2, <1>3

-----------------------------------------------------------------------------
(***************************************************************************)
(* The publisher's cursor.                                                 *)
(***************************************************************************)
Cursors ==
  [wal : [Streams -> Times], index : Times, sent : Nat, clock : Times,
   seq : Nat, state : Seq(Nat), full : BOOLEAN]

LEMMA KeptIs ==
  ASSUME Inv
  PROVE  IsFiniteSet(Kept) /\ Kept \subseteq Nat /\ \A k \in Kept : written[k] \in Timestamps
<1>1. gone \in Nat /\ Len(written) \in Nat /\ written \in Seq(EntryTimes)
  BY LenProperties DEF Inv, TypeOK
<1>2. Kept \subseteq 1..Len(written) /\ IsFiniteSet(Kept)
  BY <1>1, FS_Interval, SMTT(20) DEF Kept
<1>3. \A k \in Kept : written[k] \in EntryTimes
  BY <1>1, <1>2, ElementOfSeq
<1> QED BY <1>2, <1>3, ReplicationAssumption

LEMMA IndexSentIs ==
  ASSUME Inv, NEW p \in Cursors, NEW since, NEW q \in InOrder(Unsent(p, since))
  PROVE  /\ q \in Seq(Nat) /\ IndexSent(p, q) \in Cursors
         /\ IndexSent(p, q).state = p.state \o q
         /\ (p.full <=> p.state # NoIndexState)
              => (IndexSent(p, q).full <=> IndexSent(p, q).state # NoIndexState)
         /\ IndexSent(p, q).wal = p.wal /\ IndexSent(p, q).seq = p.seq
         /\ IndexSent(p, q).clock = p.clock
<1> DEFINE last == Max({written[k] : k \in Range(q)} \cup {p.index})
           sent == IF last = NoTs THEN 0 ELSE Cardinality(EntriesAt(last))
<1>1. /\ Unsent(p, since) \subseteq Kept /\ Unsent(p, since) \subseteq Nat
      /\ IsFiniteSet(Unsent(p, since))
  BY KeptIs, FS_Subset DEF Unsent
<1>2. q \in Seq(Unsent(p, since)) /\ Range(q) = Unsent(p, since)
  BY <1>1, InOrderIs
<1>3. q \in Seq(Nat)
  BY <1>1, <1>2, SeqMonotonic
<1>4. last \in Times
  <2> DEFINE S == {written[k] : k \in Range(q)} \cup {p.index}
  <2>1. S \subseteq Times /\ S # {}
    BY <1>1, <1>2, KeptIs DEF Cursors, Times
  <2> HIDE DEF S
  <2>2. Max(S) \in Times
    BY <2>1, MaxTime
  <2> QED BY <2>2 DEF S
<1>5. sent \in Nat
  <2>1. IsFiniteSet(EntriesAt(last))
    BY KeptIs, FS_Subset DEF EntriesAt
  <2> QED BY <2>1, FS_CardinalityType
<1>6. p.state \o q \in Seq(Nat)
  BY <1>3, ConcatProperties DEF Cursors
<1>7. IndexSent(p, q) = [p EXCEPT !.index = last, !.sent = sent, !.state = p.state \o q,
                                  !.full = p.full \/ q # <<>>]
  BY DEF IndexSent
<1> HIDE DEF last, sent
<1>8. /\ IndexSent(p, q) \in Cursors /\ IndexSent(p, q).state = p.state \o q
      /\ IndexSent(p, q).wal = p.wal /\ IndexSent(p, q).seq = p.seq
      /\ IndexSent(p, q).clock = p.clock
      /\ IndexSent(p, q).full <=> p.full \/ q # <<>>
  BY <1>4, <1>5, <1>6, <1>7 DEF Cursors
<1>9. p.state \o q = <<>> <=> p.state = <<>> /\ q = <<>>
  BY <1>3, ConcatEqualIffEmpty DEF Cursors
<1> QED BY <1>3, <1>8, <1>9 DEF NoIndexState

LEMMA NoCursorIs ==
  /\ NoCursor \in Cursors /\ NoCursor.state = <<>> /\ ~ NoCursor.full
  /\ \A q \in Seq(Nat) : NoCursor.state \o q = q
<1>1. <<>> \in Seq(Nat) /\ NoTs \in Times
  BY EmptySeq DEF Times
<1>2. NoCursor \in Cursors /\ NoCursor.state = <<>> /\ ~ NoCursor.full
  BY <1>1 DEF NoCursor, Cursors, NoIndexState
<1> QED BY <1>2, ConcatEmptySeq

LEMMA ClockSeriesIs ==
  ASSUME Inv
  PROVE  /\ ClockSeries \subseteq Timestamps
         /\ \A S \in SUBSET ClockSeries : IsFiniteSet(S) /\ \A c \in InOrder(S) : c \in Seq(Timestamps)
<1>1. ClockSeries \subseteq Timestamps
  BY DEF Inv, TypeOK, ClockSeries
<1>2. ASSUME NEW S \in SUBSET ClockSeries
      PROVE  IsFiniteSet(S) /\ \A c \in InOrder(S) : c \in Seq(Timestamps)
  <2>1. IsFiniteSet(S) /\ S \subseteq Timestamps
    BY <1>1, TsIs DEF Times
  <2>2. ASSUME NEW c \in InOrder(S) PROVE c \in Seq(Timestamps)
    BY <2>1, InOrderIs, SeqMonotonic
  <2> QED BY <2>1, <2>2
<1> QED BY <1>1, <1>2

\* The origin's segments and live rows are all below what its file has seen.
LEMMA NewestIs ==
  ASSUME Inv, NEW str \in Streams
  PROVE  /\ Live(Origin, str) \subseteq Times
         /\ Watermark(Origin, str) \in Times /\ Watermark(Origin, str) <= newest[str]
         /\ \A t \in Live(Origin, str) : t <= newest[str] /\ Watermark(Origin, str) < t
<1>1. /\ wal \subseteq Row /\ segs \subseteq Segment /\ Pruned /\ Newest
      /\ newest[str] \in Times
  BY DEF Inv, TypeOK, Tables
<1>2. /\ Live(Origin, str) \subseteq Timestamps
      /\ \A t \in Live(Origin, str) :
           \E r \in wal : r.src = Origin /\ r.str = str /\ r.ts = t
      /\ \A t \in Live(Origin, str) : \A s \in segs :
           s.src = Origin /\ s.str = str => s.last < t
  BY <1>1, LiveIs
<1>3. /\ Watermark(Origin, str) \in Times
      /\ \/ Watermark(Origin, str) = NoTs
         \/ \E s \in segs : s.src = Origin /\ s.str = str /\ s.last = Watermark(Origin, str)
  BY <1>1, WatermarkIs
<1>4. Watermark(Origin, str) <= newest[str]
  <2>1. NoTs <= newest[str]
    BY <1>1, TsIs DEF Times
  <2> QED BY <1>1, <1>3, <2>1 DEF Newest
<1>5. \A t \in Live(Origin, str) : t <= newest[str] /\ Watermark(Origin, str) < t
  BY <1>1, <1>2, <1>3, TsIs DEF Newest
<1> QED BY <1>2, <1>3, <1>4, <1>5 DEF Times

(***************************************************************************)
(* A new connection: the copy is empty, and everything up to the cursor    *)
(* that was asked for is in the opening frames.                            *)
(***************************************************************************)
LEMMA ConnectInv ==
  ASSUME Inv, NEW p, NEW frames, NEW start, Connect(p, frames, start),
         NEW q \in Seq(Nat), NEW ss, ss \subseteq {s \in segs : s.src = Origin},
         NEW g \in InSeqOrder(ss), Batch(frames, NoCursor, q, g),
         p \in Cursors, p.state = q, p.full <=> p.state # NoIndexState,
         start \in [Streams -> Int],
         \A str \in Streams : p.wal[str] <= newest[str],
         \A s \in ss : s.last <= p.wal[s.str],
         \A str \in Streams, t \in Timestamps :
           Shows(wal, segs, Origin, str, t) /\ start[str] <= t /\ t <= p.wal[str]
             => \E s \in ss : s.str = str /\ t \in s.rows
  PROVE  Inv'
<1>1. /\ linked' = TRUE /\ pub' = p /\ sub' = NoSource /\ channel' = frames /\ from' = start
      /\ wal' = {r \in wal : r.src = Origin} /\ segs' = {s \in segs : s.src = Origin}
      /\ clock' = {c \in clock : c.src = Origin}
      /\ lost' = {} /\ skipped' = {} /\ gap' = FALSE /\ silence' = 0
      /\ UNCHANGED <<newest, written, gone, work, refused, losses>>
  BY DEF Connect
<1>2. /\ NoCursor \in Cursors /\ NoCursor.state = <<>> /\ ~ NoCursor.full
      /\ NoCursor.state \o q = q /\ NoCursor.state \in Seq(Nat) /\ NoCursor.full \in BOOLEAN
  BY NoCursorIs DEF Cursors
<1>3. /\ \A i \in 1..Len(frames) :
           /\ Sound(frames[i]) /\ frames[i].kind # "rows"
           /\ frames[i].kind = "index" => frames[i].state # NoIndexState
           /\ frames[i].kind = "segment" => \E s \in ss : s.str = frames[i].str
      /\ \A i \in 1..Len(frames) : \A str \in Streams : \A t \in Marks(frames[i], str) :
           \E s \in ss : s.str = str /\ t <= s.last
      /\ \A i, j \in 1..Len(frames) : i < j =>
           \A str \in Streams :
             \A t \in Marks(frames[i], str), u \in Marks(frames[j], str) : t < u
      /\ \A s \in ss : \A t \in s.rows :
           \E i \in 1..Len(frames) : <<s.str, t>> \in RowsOf(frames[i])
  BY <1>2, BatchOrder, ZenonT(40)
<1>4. frames \in Seq(Frames)
  BY DEF Batch
<1>a. \A i \in 1..Len(frames) : \A str \in Streams : \A t \in Marks(frames[i], str) :
        \E s \in ss : s.str = str /\ t <= s.last
  BY <1>3
<1>5. Origin # Copy
  BY ReplicationAssumption
<1>6. TypeOK'
  <2>1. /\ sub' \in [state : Seq(Nat), full : BOOLEAN, last : Nat \cup {-1}, got : Seq(Nat)]
        /\ ~ sub'.full
    BY <1>1, EmptySeq DEF NoSource, NoIndexState
  <2> QED BY <1>1, <1>4, <2>1 DEF Inv, TypeOK, Cursors
<1>7. Tables'
  <2>1. IsFiniteSet(segs')
    BY <1>1, FS_Subset DEF Inv, Tables
  <2> QED BY <1>1, <2>1 DEF Inv, Tables, Numbered, InSpan, Pruned, IsLive, Newest
<1>8. Order'
  <2>1. \A str \in Streams : \A t : CopyUpTo(str, t)' /\ CopyBefore(str, t)'
    BY <1>1, <1>5 DEF CopyUpTo, CopyBefore
  <2>2. Leading'
    BY <1>1, <1>3, <1>5 DEF Leading
  <2>3. Ascending'
    BY <1>1, <1>3 DEF Ascending, Marks
  <2>4. ASSUME NEW i \in 1..Len(frames), NEW str \in Streams, NEW t \in Marks(frames[i], str)
        PROVE  t <= p.wal[str]
    <3>1. PICK s \in ss : s.str = str /\ t <= s.last
      BY <1>a
    <3>2. s.last \in Timestamps /\ t \in Timestamps /\ p.wal[str] \in Times
      <4>1. segs \subseteq Segment /\ s \in segs
        BY DEF Inv, TypeOK
      <4>2. p.wal \in [Streams -> Times]
        BY DEF Cursors
      <4> QED BY <4>1, <4>2 DEF Segment, Marks
    <3>3. s.last <= p.wal[str] /\ s.last \in Int /\ t \in Int /\ p.wal[str] \in Int
      BY <3>1, <3>2, TsIs
    <3> QED BY <3>1, <3>3
  <2> QED BY <1>1, <1>3, <2>1, <2>2, <2>3, <2>4 DEF Order, Sound, Marks
<1>9. NoHole'
  <2> SUFFICES ASSUME NEW str \in Streams, NEW t \in Visible(Origin, str)',
                      start[str] <= t, t <= p.wal[str]
               PROVE  t \in InFlight(str)'
    BY <1>1 DEF NoHole
  <2>1. Origin \in Sources
    BY ReplicationAssumption
  <2>2. wal' \subseteq Row /\ segs' \subseteq Segment /\ Pruned'
    BY <1>6, <1>7 DEF TypeOK, Tables
  <2>3. Shows(wal', segs', Origin, str, t)
    BY <2>1, <2>2, VisibleNext
  <2>4. t \in Timestamps /\ Shows(wal, segs, Origin, str, t)
    BY <1>1, <2>2, <2>3 DEF Shows, Row, Segment
  <2>5. PICK s \in ss : s.str = str /\ t \in s.rows
    BY <2>4
  <2>6. PICK i \in 1..Len(frames) : <<str, t>> \in RowsOf(frames[i])
    BY <1>3, <2>5
  <2> QED BY <1>1, <2>4, <2>6 DEF InFlight, RowsOf
<1>10. Attributed'
  <2> DEFINE e == <<>> \o frames
  <2>1. <<>> \in Seq(Frames) /\ Len(<<>>) = 0 /\ e = frames
    BY <1>4, EmptySeq, ConcatEmptySeq
  <2>2. ReadyAt(<<>>, NoSource, Len(<<>>) + 1, NoCursor.state)
    BY <1>2, <2>1 DEF ReadyAt, StateAt, NoneBefore, NoSource, NoIndexState
  <2>3. ReadyAt(e, NoSource, Len(e) + 1, NoCursor.state \o q)
    <3>1. NoCursor.full <=> NoCursor.state # NoIndexState
      BY <1>2 DEF NoIndexState
    <3> QED BY <1>2, <2>1, <2>2, <3>1, BatchReady
  <2>4. ReadyAt(frames, NoSource, Len(frames) + 1, p.state)
    BY <1>2, <2>1, <2>3
  <2> QED BY <1>1, <1>3, <2>4
          DEF Attributed, ReadyAt, StateAt, FullAt, Before, NoneBefore
<1>11. Counted'
  BY <1>1, <1>3 DEF Counted, SeqAt, NoneBefore, NoSource
<1>12. Declared' /\ NothingRefused'
  BY <1>1, <1>3 DEF Inv, Declared, NothingRefused
<1> QED BY <1>6, <1>7, <1>8, <1>9, <1>10, <1>11, <1>12 DEF Inv

LEMMA CatchUpInv ==
  ASSUME Inv, NEW since \in Sinces, CatchUp(since)
  PROVE  Inv'
<1> DEFINE series == {t \in ClockSeries : since <= t}
           marks == [str \in Streams |-> Watermark(Origin, str)]
           at == Max(series \cup {NoTs})
           start == [str \in Streams |-> since]
<1>1. PICK q \in InOrder(Unsent(NoCursor, since)), g \in InSeqOrder(Overlapping(since)),
           c \in InOrder(series) :
        Connect([IndexSent(NoCursor, q) EXCEPT !.wal = marks, !.clock = at],
                IndexFrames(NoCursor, q) \o SegmentFrames(g) \o ClockFrames(c), start)
  BY DEF CatchUp
<1> DEFINE p == [IndexSent(NoCursor, q) EXCEPT !.wal = marks, !.clock = at]
<1>2. series \subseteq ClockSeries
  OBVIOUS
<1>3. c \in Seq(Timestamps) /\ series \subseteq Timestamps
  BY <1>2, ClockSeriesIs
<1>4. at \in Times
  <2> DEFINE S == series \cup {NoTs}
  <2>1. S \subseteq Times /\ S # {}
    BY <1>3 DEF Times
  <2> HIDE DEF S
  <2>2. Max(S) \in Times
    BY <2>1, MaxTime
  <2> QED BY <2>2 DEF S
<1>5. \A str \in Streams : Watermark(Origin, str) \in Times /\ Watermark(Origin, str) <= newest[str]
  BY NewestIs
<1> HIDE DEF at, series
<1>6. NoCursor \in Cursors /\ NoCursor.state = <<>> /\ ~ NoCursor.full
      /\ \A x \in Seq(Nat) : NoCursor.state \o x = x
  BY NoCursorIs
<1>7. /\ q \in Seq(Nat) /\ IndexSent(NoCursor, q) \in Cursors
      /\ IndexSent(NoCursor, q).state = q
      /\ IndexSent(NoCursor, q).full <=> IndexSent(NoCursor, q).state # NoIndexState
  BY <1>6, IndexSentIs, ZenonT(40) DEF NoIndexState
<1>8. /\ p \in Cursors /\ p.state = q /\ p.wal = marks
      /\ p.full <=> p.state # NoIndexState
  <2>1. marks \in [Streams -> Times]
    BY <1>5
  <2> HIDE DEF marks
  <2> QED BY <1>4, <1>7, <2>1 DEF Cursors
<1>9. Overlapping(since) \subseteq {s \in segs : s.src = Origin} /\ segs \subseteq Segment
      /\ IsFiniteSet(Overlapping(since))
  BY FS_Subset DEF Overlapping, Inv, TypeOK, Tables
<1>10. Batch(IndexFrames(NoCursor, q) \o SegmentFrames(g) \o ClockFrames(c), NoCursor, q, g)
  <2>1. g \in Seq(Overlapping(since)) /\ Overlapping(since) \subseteq Segment
    BY <1>9, InSeqOrderIs
  <2>2. NoCursor.state \in Seq(Nat) /\ NoCursor.full \in BOOLEAN
    BY <1>6 DEF Cursors
  <2> QED BY <1>3, <1>7, <2>1, <2>2, BatchIs
<1>11. since \in Int /\ start \in [Streams -> Int] /\ \A str \in Streams : start[str] = since
  BY ReplicationAssumption, TsIs
<1>12. \A s \in Overlapping(since) : s.last <= p.wal[s.str]
  BY <1>8, <1>9, WatermarkIs DEF Segment, Overlapping
<1>13. ASSUME NEW str \in Streams, NEW t \in Timestamps,
              Shows(wal, segs, Origin, str, t), since <= t, t <= Watermark(Origin, str)
       PROVE  \E s \in Overlapping(since) : s.str = str /\ t \in s.rows
  <2>1. wal \subseteq Row /\ Pruned /\ InSpan
    BY DEF Inv, TypeOK, Tables
  <2>2. ~ \E r \in wal : r.src = Origin /\ r.str = str /\ r.ts = t
    <3>1. t \in Live(Origin, str) => Watermark(Origin, str) < t
      BY NewestIs
    <3>2. Watermark(Origin, str) \in Int /\ t \in Int
      BY <1>5, TsIs
    <3>3. ~ (Watermark(Origin, str) < t)
      BY <1>13, <3>2
    <3> QED BY <2>1, <3>1, <3>3, LiveIs
  <2>3. PICK s \in segs : s.src = Origin /\ s.str = str /\ t \in s.rows
    BY <1>13, <2>2 DEF Shows
  <2>4. t <= s.last /\ s.last \in Int /\ t \in Int
    BY <1>9, <2>1, <2>3, TsIs DEF InSpan, Segment
  <2>5. s \in Overlapping(since)
    BY <1>11, <1>13, <2>3, <2>4 DEF Overlapping
  <2> QED BY <2>3, <2>5
<1>14. Connect(p, IndexFrames(NoCursor, q) \o SegmentFrames(g) \o ClockFrames(c), start)
  BY <1>1
<1> HIDE DEF p, start
<1>15. \A str \in Streams : p.wal[str] = Watermark(Origin, str)
  BY <1>8
<1>16. \A str \in Streams : p.wal[str] <= newest[str]
  BY <1>5, <1>15
<1>17. \A str \in Streams, t \in Timestamps :
         Shows(wal, segs, Origin, str, t) /\ start[str] <= t /\ t <= p.wal[str]
           => \E s \in Overlapping(since) : s.str = str /\ t \in s.rows
  BY <1>11, <1>13, <1>15
<1>18. Overlapping(since) \subseteq {s \in segs : s.src = Origin}
  BY <1>9
<1> QED
  BY <1>7, <1>8, <1>10, <1>11, <1>12, <1>14, <1>16, <1>17, <1>18, ConnectInv, SMTT(20)

LEMMA TailingInv ==
  ASSUME Inv, Tailing
  PROVE  Inv'
<1> DEFINE past == [str \in Streams |-> Max(Live(Origin, str) \cup {Watermark(Origin, str)})]
           at == Max(ClockSeries \cup {NoTs})
           start == [str \in Streams |-> past[str] + 1]
<1>1. PICK q \in InOrder(Unsent(NoCursor, NoTs)) :
        Connect([IndexSent(NoCursor, q) EXCEPT !.wal = past, !.clock = at],
                IndexFrames(NoCursor, q), start)
  BY DEF Tailing
<1> DEFINE p == [IndexSent(NoCursor, q) EXCEPT !.wal = past, !.clock = at]
<1>2. at \in Times
  <2> DEFINE S == ClockSeries \cup {NoTs}
  <2>1. S \subseteq Times /\ S # {}
    BY ClockSeriesIs DEF Times
  <2> HIDE DEF S
  <2>2. Max(S) \in Times
    BY <2>1, MaxTime
  <2> QED BY <2>2 DEF S
<1>3. ASSUME NEW str \in Streams
      PROVE  past[str] \in Times /\ past[str] <= newest[str]
  <2> DEFINE S == Live(Origin, str) \cup {Watermark(Origin, str)}
  <2>1. S \subseteq Times /\ S # {} /\ \A t \in S : t <= newest[str]
    BY NewestIs
  <2>2. past[str] = Max(S)
    OBVIOUS
  <2> HIDE DEF S
  <2>3. Max(S) \in S
    BY <2>1, MaxTime
  <2> HIDE DEF past
  <2> QED BY <2>1, <2>2, <2>3
<1>4. past \in [Streams -> Times]
  BY <1>3
<1> HIDE DEF at, past
<1>5. NoCursor \in Cursors /\ NoCursor.state = <<>> /\ ~ NoCursor.full
      /\ \A x \in Seq(Nat) : NoCursor.state \o x = x
  BY NoCursorIs
<1>6. /\ q \in Seq(Nat) /\ IndexSent(NoCursor, q) \in Cursors
      /\ IndexSent(NoCursor, q).state = q
      /\ IndexSent(NoCursor, q).full <=> IndexSent(NoCursor, q).state # NoIndexState
  BY <1>5, IndexSentIs, ZenonT(40) DEF NoIndexState
<1>7. /\ p \in Cursors /\ p.state = q /\ p.wal = past
      /\ p.full <=> p.state # NoIndexState
  BY <1>2, <1>4, <1>6 DEF Cursors
<1>8. Batch(IndexFrames(NoCursor, q), NoCursor, q, <<>>)
  <2>1. NoCursor.state \in Seq(Nat) /\ NoCursor.full \in BOOLEAN
    BY <1>5 DEF Cursors
  <2> QED BY <1>6, <2>1, BatchOfIndex
<1>a. \A str \in Streams : past[str] \in Int
  BY <1>3, TsIs
<1>9. start \in [Streams -> Int] /\ \A str \in Streams : start[str] = past[str] + 1
  BY <1>a
<1>10. \A str \in Streams, t \in Timestamps : ~ (past[str] + 1 <= t /\ t <= past[str])
  <2>1. \A t \in Timestamps : t \in Int
    BY TsIs
  <2> QED BY <1>a, <2>1
<1> HIDE DEF p, start
<1>11. {} \subseteq {s \in segs : s.src = Origin} /\ <<>> \in InSeqOrder({})
  BY NoSegments
<1>12. \A str \in Streams : p.wal[str] <= newest[str]
  BY <1>3, <1>7
<1>13. \A str \in Streams, t \in Timestamps :
         Shows(wal, segs, Origin, str, t) /\ start[str] <= t /\ t <= p.wal[str]
           => \E s \in {} : s.str = str /\ t \in s.rows
  BY <1>7, <1>9, <1>10
<1>14. Connect(p, IndexFrames(NoCursor, q), start)
  BY <1>1 DEF p, start
<1>15. \A s \in {} : s.last <= p.wal[s.str]
  OBVIOUS
<1> QED BY <1>6, <1>7, <1>8, <1>9, <1>11, <1>12, <1>13, <1>14, <1>15, ConnectInv

(***************************************************************************)
(* A poll: of a stream, segments only when nothing of it was sent yet, and *)
(* tail rows past everything that was.                                     *)
(***************************************************************************)
LEMMA CursorIs ==
  ASSUME Inv, NEW str \in Streams
  PROVE  LET next == Max(Live(Origin, str) \cup {Cursor(str)})
         IN  /\ Cursor(str) \in Times /\ pub.wal[str] <= Cursor(str)
             /\ pub.wal[str] = NoTs => Cursor(str) = Watermark(Origin, str)
             /\ pub.wal[str] # NoTs => Cursor(str) = pub.wal[str]
             /\ next \in Times /\ next <= newest[str]
             /\ Cursor(str) <= next /\ \A t \in Live(Origin, str) : t <= next
<1>1. /\ Live(Origin, str) \subseteq Times
      /\ Watermark(Origin, str) \in Times /\ Watermark(Origin, str) <= newest[str]
      /\ \A t \in Live(Origin, str) : t <= newest[str]
  BY NewestIs
<1>2. pub.wal[str] \in Times /\ pub.wal[str] <= newest[str]
  BY DEF Inv, TypeOK, Tables, Newest
<1>3. \A t \in Times : t \in Int /\ NoTs <= t
  BY TsIs DEF Times
<1>4. /\ Cursor(str) \in Times /\ pub.wal[str] <= Cursor(str) /\ Cursor(str) <= newest[str]
      /\ pub.wal[str] = NoTs => Cursor(str) = Watermark(Origin, str)
      /\ pub.wal[str] # NoTs => Cursor(str) = pub.wal[str]
  BY <1>1, <1>2, <1>3 DEF Cursor
<1> DEFINE S == Live(Origin, str) \cup {Cursor(str)}
<1>5. S \subseteq Times /\ S # {} /\ \A t \in S : t <= newest[str]
  BY <1>1, <1>4
<1>6. Cursor(str) \in S /\ Live(Origin, str) \subseteq S
  OBVIOUS
<1>7. Max(S) \in Times /\ Max(S) <= newest[str] /\ \A t \in S : t <= Max(S)
  <2> HIDE DEF S
  <2>1. Max(S) \in S /\ \A t \in S : t <= Max(S)
    BY <1>5, MaxTime
  <2> QED BY <1>5, <2>1
<1> QED BY <1>4, <1>6, <1>7

\* What a poll does: the batch b, and after it the Rows frame r.
Polled(b, r) ==
  /\ b \in Seq(Frames) /\ r \in Frames /\ r.kind = "rows" /\ r.rows = Unshipped
  /\ channel' = (channel \o b) \o <<r>> /\ UNCHANGED <<wal, segs>>
  /\ \A str \in Streams : pub'.wal[str] = Max(Live(Origin, str) \cup {Cursor(str)})
  /\ \A i \in 1..Len(b) : /\ Sound(b[i]) /\ b[i].kind # "rows"
                          /\ b[i].kind = "segment" => \E s \in Opening : s.str = b[i].str
  /\ \A i \in 1..Len(b) : \A str \in Streams : \A t \in Marks(b[i], str) :
       \E s \in Opening : s.str = str /\ t <= s.last
  /\ \A i, j \in 1..Len(b) : i < j =>
       \A str \in Streams : \A t \in Marks(b[i], str), u \in Marks(b[j], str) : t < u

LEMMA PolledIs ==
  ASSUME Inv, NEW b, NEW r, Polled(b, r)
  PROVE  /\ Len(channel) \in Nat /\ Len(b) \in Nat
         /\ channel' \in Seq(Frames) /\ Len(channel') = Len(channel) + Len(b) + 1
         /\ \A i \in 1..Len(channel) : channel'[i] = channel[i]
         /\ \A i \in 1..Len(b) : channel'[Len(channel) + i] = b[i]
         /\ channel'[Len(channel) + Len(b) + 1] = r
<1>1. b \in Seq(Frames) /\ r \in Frames /\ channel \in Seq(Frames)
  BY DEF Polled, Inv, TypeOK
<1> DEFINE z == <<r>>
           e == (channel \o b) \o z
<1>2. z \in Seq(Frames) /\ Len(z) = 1 /\ z[1] = r /\ 1 \in 1..1
  BY <1>1
<1> HIDE DEF z
<1>3. /\ e \in Seq(Frames) /\ Len(e) = Len(channel) + Len(b) + Len(z)
      /\ Len(channel) \in Nat /\ Len(b) \in Nat
      /\ \A i \in 1..Len(channel) : e[i] = channel[i]
      /\ \A i \in 1..Len(b) : e[Len(channel) + i] = b[i]
      /\ \A i \in 1..Len(z) : e[Len(channel) + Len(b) + i] = z[i]
  BY <1>1, <1>2, ThreeParts, ZenonT(40)
<1>4. channel' = e
  BY DEF Polled, z
<1> HIDE DEF e
<1> QED BY <1>2, <1>3, <1>4

LEMMA PollOrder ==
  ASSUME Inv, NEW b, NEW r, Polled(b, r)
  PROVE  Order'
<1>3. PICK e : channel' = e
  OBVIOUS
<1> DEFINE n == Len(channel)
<1>1. channel \in Seq(Frames) /\ Order /\ wal \subseteq Row /\ segs \subseteq Segment
  BY DEF Inv, TypeOK
<1>2. /\ n \in Nat /\ Len(b) \in Nat /\ e \in Seq(Frames) /\ Len(e) = n + Len(b) + 1
      /\ \A i \in 1..n : e[i] = channel[i]
      /\ \A i \in 1..Len(b) : e[n + i] = b[i]
      /\ e[n + Len(b) + 1] = r
  BY <1>3, PolledIs
<1> HIDE DEF n
<1>a. r.kind = "rows" /\ r.rows = Unshipped /\ wal' = wal /\ segs' = segs
  BY DEF Polled
<1>b. \A str \in Streams : pub'.wal[str] = Max(Live(Origin, str) \cup {Cursor(str)})
  BY DEF Polled
<1>c. \A i \in 1..Len(b) : /\ Sound(b[i]) /\ b[i].kind # "rows"
                           /\ b[i].kind = "segment" => \E s \in Opening : s.str = b[i].str
  BY DEF Polled
<1>d. \A i \in 1..Len(b) : \A str \in Streams : \A t \in Marks(b[i], str) :
        \E s \in Opening : s.str = str /\ t <= s.last
  BY DEF Polled
<1>e. \A i, j \in 1..Len(b) : i < j =>
        \A str \in Streams : \A t \in Marks(b[i], str), u \in Marks(b[j], str) : t < u
  BY DEF Polled
\* A position is in the channel, in the batch, or that of the rows.
<1> DEFINE At(k, i) == i \in 1..Len(b) /\ e[k] = b[i] /\ k = n + i
<1>4. \A k \in 1..Len(e) : \/ k \in 1..n /\ e[k] = channel[k]
                           \/ \E i \in 1..Len(b) : At(k, i)
                           \/ k = n + Len(b) + 1 /\ e[k] = r
  <2> SUFFICES ASSUME NEW k \in 1..Len(e), n < k, k # n + Len(b) + 1
               PROVE  \E i \in 1..Len(b) : At(k, i)
    BY <1>2
  <2> DEFINE i == k - n
  <2>1. i \in 1..Len(b) /\ k = n + i
    BY <1>2
  <2> HIDE DEF i
  <2> QED BY <1>2, <2>1
<1>5. ASSUME NEW k \in 1..n, NEW str \in Streams, NEW t \in Marks(channel[k], str)
      PROVE  CopyBefore(str, t) /\ t <= pub.wal[str] /\ t \in Timestamps /\ pub.wal[str] # NoTs
  <2>1. CopyBefore(str, t) /\ t <= pub.wal[str]
    BY <1>1 DEF Order, n
  <2>2. t \in Timestamps
    BY DEF Marks
  <2>3. ~ (t <= NoTs)
    BY <2>2, TsIs
  <2> QED BY <2>1, <2>2, <2>3
<1>6. ASSUME NEW str \in Streams, pub.wal[str] = NoTs
      PROVE  /\ \A s \in segs : ~ (s.src = Copy /\ s.str = str)
             /\ \A w \in wal : ~ (w.src = Copy /\ w.str = str)
  <2>1. CopyUpTo(str, NoTs)
    BY <1>1, <1>6 DEF Order
  <2>2. \A t \in Timestamps : ~ (t <= NoTs)
    BY TsIs
  <2> QED BY <1>1, <2>1, <2>2 DEF CopyUpTo, Segment, Row
<1>7. ASSUME NEW i \in 1..Len(b), NEW str \in Streams, NEW t \in Marks(b[i], str)
      PROVE  /\ pub.wal[str] = NoTs /\ t <= Cursor(str) /\ t \in Timestamps
             /\ CopyBefore(str, t)
  <2>1. PICK s \in Opening : s.str = str /\ t <= s.last
    BY <1>d
  <2>2. s \in segs /\ s.src = Origin /\ pub.wal[str] = NoTs
    BY <2>1 DEF Opening
  <2>3. s.last <= Watermark(Origin, str) /\ Watermark(Origin, str) \in Times
    BY <1>1, <2>1, <2>2, WatermarkIs
  <2>4. t \in Timestamps
    BY DEF Marks
  <2>5. Cursor(str) = Watermark(Origin, str)
    BY <2>2, CursorIs
  <2>6. t \in Int /\ s.last \in Int /\ Watermark(Origin, str) \in Int
    BY <1>1, <2>2, <2>3, <2>4, TsIs DEF Segment
  <2>7. CopyBefore(str, t)
    BY <1>6, <2>2 DEF CopyBefore
  <2> QED BY <2>1, <2>2, <2>3, <2>4, <2>5, <2>6, <2>7
<1>8. ASSUME NEW str \in Streams, NEW t \in Marks(r, str)
      PROVE  /\ Cursor(str) < t /\ t \in Live(Origin, str) /\ t \in Timestamps
             /\ CopyBefore(str, t)
  <2>1. <<str, t>> \in Unshipped /\ t \in Timestamps
    BY <1>a DEF Marks
  <2>2. Cursor(str) < t /\ t \in Live(Origin, str)
    BY <2>1 DEF Unshipped
  <2>3. CopyUpTo(str, pub.wal[str]) /\ pub.wal[str] <= Cursor(str) /\ Cursor(str) \in Times
        /\ pub.wal[str] \in Times
    BY <1>1, CursorIs DEF Order, Inv, TypeOK
  <2>a. pub.wal[str] \in Int /\ Cursor(str) \in Int /\ t \in Int
    BY <2>1, <2>3, TsIs
  <2>4. pub.wal[str] < t /\ pub.wal[str] \in Int /\ t \in Int
    BY <2>2, <2>3, <2>a
  <2>5. CopyBefore(str, t)
    <3>1. \A s \in segs : s.last \in Int
      BY <1>1, TsIs DEF Segment
    <3>2. \A w \in wal : w.ts \in Int
      BY <1>1, TsIs DEF Row
    <3> QED BY <2>3, <2>4, <3>1, <3>2 DEF CopyUpTo, CopyBefore
  <2> QED BY <2>1, <2>2, <2>5
<1>9. \A i \in 1..Len(e) : Sound(e[i])
  <2>1. Sound(r)
    BY <1>a DEF Sound
  <2> QED BY <1>1, <1>4, <1>c, <2>1 DEF Order, n
<1>10. ASSUME NEW str \in Streams
       PROVE  /\ pub.wal[str] \in Int /\ Cursor(str) \in Int /\ pub.wal[str] <= Cursor(str)
              /\ pub'.wal[str] \in Int /\ Cursor(str) <= pub'.wal[str]
              /\ \A t \in Live(Origin, str) : t <= pub'.wal[str]
  <2>1. /\ Cursor(str) \in Times /\ pub.wal[str] <= Cursor(str)
        /\ Max(Live(Origin, str) \cup {Cursor(str)}) \in Times
        /\ Cursor(str) <= Max(Live(Origin, str) \cup {Cursor(str)})
        /\ \A t \in Live(Origin, str) : t <= Max(Live(Origin, str) \cup {Cursor(str)})
    BY CursorIs
  <2>2. pub.wal[str] \in Times
    BY DEF Inv, TypeOK
  <2> QED BY <1>b, <2>1, <2>2, TsIs
<1>11. ASSUME NEW i \in 1..Len(e), NEW j \in 1..Len(e), i < j, NEW str \in Streams,
              NEW t \in Marks(e[i], str), NEW u \in Marks(e[j], str)
       PROVE  t < u
  <2>1. t \in Int /\ u \in Int
    BY TsIs DEF Marks
  <2>2. CASE i \in 1..n /\ e[i] = channel[i]
    <3>1. CASE j \in 1..n /\ e[j] = channel[j]
      BY <1>1, <1>11, <2>2, <3>1 DEF Order, Ascending, n
    <3>2. CASE \E m \in 1..Len(b) : At(j, m)
      BY <1>5, <1>7, <2>2, <3>2
    <3>3. CASE e[j] = r
      <4>1. t <= pub.wal[str] /\ Cursor(str) < u
        BY <1>5, <1>8, <2>2, <3>3
      <4>2. pub.wal[str] <= Cursor(str) /\ pub.wal[str] \in Int /\ Cursor(str) \in Int
        BY <1>10
      <4> QED BY <2>1, <4>1, <4>2
    <3> QED BY <1>4, <3>1, <3>2, <3>3
  <2>3. ASSUME NEW m \in 1..Len(b), At(i, m) PROVE t < u
    <3>1. CASE j \in 1..n
      BY <1>2, <1>11, <2>3, <3>1
    <3>2. ASSUME NEW k \in 1..Len(b), At(j, k) PROVE t < u
      <4>1. m < k
        BY <1>2, <1>11, <2>3, <3>2
      <4> QED BY <1>e, <2>3, <3>2, <4>1
    <3>3. CASE e[j] = r
      <4>1. t <= Cursor(str) /\ Cursor(str) < u
        BY <1>7, <1>8, <2>3, <3>3
      <4>2. Cursor(str) \in Int
        BY <1>10
      <4> QED BY <2>1, <4>1, <4>2
    <3> QED BY <1>4, <3>1, <3>2, <3>3
  <2>4. CASE i = n + Len(b) + 1
    BY <1>2, <1>11, <2>4
  <2> QED BY <1>4, <2>2, <2>3, <2>4
<1>12. Leading'
  <2> SUFFICES ASSUME NEW j \in 1..Len(e), e[j].kind = "segment"
               PROVE  /\ \A w \in wal : w.src = Copy => w.str # e[j].str
                      /\ \A i \in 1..Len(e) : i < j /\ e[i].kind = "rows" =>
                           \A x \in e[i].rows : x[1] # e[j].str
    BY <1>3, <1>a DEF Leading
  <2>1. CASE j \in 1..n /\ e[j] = channel[j]
    <3>1. \A i \in 1..Len(e) : i < j => i \in 1..n /\ e[i] = channel[i]
      BY <1>2, <2>1
    <3>2. /\ \A w \in wal : w.src = Copy => w.str # channel[j].str
          /\ \A i \in 1..n : i < j /\ channel[i].kind = "rows" =>
               \A x \in channel[i].rows : x[1] # channel[j].str
      <4>1. Leading /\ channel[j].kind = "segment"
        BY <1>1, <2>1 DEF Order
      <4> QED BY <2>1, <4>1 DEF Leading, n
    <3> QED BY <2>1, <3>1, <3>2
  <2>2. ASSUME NEW m \in 1..Len(b), At(j, m)
        PROVE  /\ \A w \in wal : w.src = Copy => w.str # e[j].str
               /\ \A i \in 1..Len(e) : i < j /\ e[i].kind = "rows" =>
                    \A x \in e[i].rows : x[1] # e[j].str
    <3>1. PICK s \in Opening : s.str = b[m].str
      BY <1>c, <2>2
    <3>2. e[j].str \in Streams /\ pub.wal[e[j].str] = NoTs
      BY <1>1, <2>2, <3>1 DEF Opening, Segment
    <3>3. ASSUME NEW i \in 1..Len(e), i < j, e[i].kind = "rows", NEW x \in e[i].rows,
                 x[1] = e[j].str
          PROVE  FALSE
      <4>1. i \in 1..n /\ e[i] = channel[i]
        <5>1. ~ \E k \in 1..Len(b) : At(i, k)
          BY <1>c, <3>3
        <5>2. i # n + Len(b) + 1
          BY <1>2, <2>2, <3>3
        <5> QED BY <1>4, <5>1, <5>2
      <4>2. channel[i] \in Frames
        BY <1>1, <4>1, ElementOfSeq DEF n
      <4>3. channel[i].rows \subseteq Streams \X Timestamps
        BY <3>3, <4>1, <4>2, FrameIs
      <4>4. x[2] \in Timestamps /\ x = <<x[1], x[2]>>
        BY <3>3, <4>1, <4>3
      <4>5. x[2] \in Marks(channel[i], e[j].str)
        <5>1. channel[i].kind = "rows" /\ x \in channel[i].rows
          BY <3>3, <4>1
        <5>2. <<e[j].str, x[2]>> \in channel[i].rows
          BY <3>3, <4>4, <5>1
        <5> QED BY <4>4, <5>1, <5>2 DEF Marks
      <4> QED BY <1>5, <3>2, <4>1, <4>5
    <3> QED BY <1>6, <3>2, <3>3
  <2> QED BY <1>4, <1>a, <2>1, <2>2
<1>13. ASSUME NEW i \in 1..Len(e), NEW str \in Streams, NEW t \in Marks(e[i], str)
       PROVE  CopyBefore(str, t)' /\ t <= pub'.wal[str]
  <2>1. CopyBefore(str, t) /\ t <= pub'.wal[str]
    <3>1. t \in Int
      BY TsIs DEF Marks
    <3>2. CASE i \in 1..n /\ e[i] = channel[i]
      BY <1>5, <1>10, <3>1, <3>2
    <3>3. CASE \E m \in 1..Len(b) : At(i, m)
      BY <1>7, <1>10, <3>1, <3>3
    <3>4. CASE e[i] = r
      BY <1>8, <1>10, <3>4
    <3> QED BY <1>4, <3>2, <3>3, <3>4
  <2> QED BY <1>a, <2>1 DEF CopyBefore
<1>14. ASSUME NEW str \in Streams PROVE CopyUpTo(str, pub.wal[str])'
  <2>1. CopyUpTo(str, pub.wal[str]) /\ pub.wal[str] <= pub'.wal[str]
    BY <1>1, <1>10 DEF Order
  <2>2. \A s \in segs : s.last \in Int
    BY <1>1, TsIs DEF Segment
  <2>3. \A w \in wal : w.ts \in Int
    BY <1>1, TsIs DEF Row
  <2> DEFINE t == pub'.wal[str]
  <2>4. pub.wal[str] \in Int /\ t \in Int /\ pub.wal[str] <= t
    BY <1>10
  <2> HIDE DEF t
  <2>5. CopyUpTo(str, t)
    BY <2>1, <2>2, <2>3, <2>4 DEF CopyUpTo
  <2> QED BY <1>a, <2>5 DEF CopyUpTo, t
<1>15. Ascending'
  BY <1>3, <1>11 DEF Ascending, Marks
<1>16. \A i \in 1..Len(e) : Sound(e[i])'
  BY <1>9 DEF Sound
<1>17. \A i \in 1..Len(e), str \in Streams : \A t \in Marks(e[i], str)' :
         CopyBefore(str, t)' /\ t <= pub'.wal[str]
  BY <1>13 DEF Marks
<1> QED BY <1>3, <1>12, <1>14, <1>15, <1>16, <1>17 DEF Order

LEMMA PollNoHole ==
  ASSUME Inv, NEW b, NEW r, Polled(b, r), linked, ~ SealedPast, UNCHANGED told, linked' = linked,
         \A s \in Opening : \A t \in s.rows :
           \E i \in 1..Len(b) : <<s.str, t>> \in RowsOf(b[i])
  PROVE  NoHole'
<1>1. PICK e : channel' = e
  OBVIOUS
<1>2. /\ Len(channel) \in Nat /\ Len(b) \in Nat /\ Len(e) = Len(channel) + Len(b) + 1
      /\ \A i \in 1..Len(channel) : e[i] = channel[i]
      /\ \A i \in 1..Len(b) : e[Len(channel) + i] = b[i]
      /\ e[Len(channel) + Len(b) + 1] = r
  BY <1>1, PolledIs
<1>3. /\ wal \subseteq Row /\ segs \subseteq Segment /\ Pruned /\ InSpan
      /\ Origin \in Sources /\ wal' = wal /\ segs' = segs
  BY ReplicationAssumption DEF Inv, TypeOK, Tables, Polled
<1> SUFFICES ASSUME NEW str \in Streams, NEW t \in Visible(Origin, str), from[str] <= t
             PROVE  t \in Visible(Copy, str) \cup {u \in Timestamps :
                            \E i \in 1..Len(e) : <<str, u>> \in RowsOf(e[i])} \cup Missed(str)
  BY <1>1, <1>3 DEF NoHole, Visible, InFlight, Missed, told, RowsOf
<1>4. Shows(wal, segs, Origin, str, t)
  BY <1>3, VisibleIs
<1>5. t \in Timestamps
  BY <1>3, <1>4 DEF Shows, Row, Segment
<1>6. CASE t <= pub.wal[str]
  <2>1. t \in Visible(Copy, str) \cup InFlight(str) \cup Missed(str)
    BY <1>6 DEF Inv, NoHole
  <2>2. ASSUME t \in InFlight(str)
        PROVE  \E i \in 1..Len(e) : <<str, t>> \in RowsOf(e[i])
    <3>1. PICK i \in 1..Len(channel) : <<str, t>> \in RowsOf(channel[i])
      BY <2>2 DEF InFlight
    <3>2. i \in 1..Len(e) /\ e[i] = channel[i]
      BY <1>2
    <3> QED BY <3>1, <3>2
  <2> QED BY <1>5, <2>1, <2>2
<1>7. CASE ~ (t <= pub.wal[str])
  <2>1. pub.wal[str] \in Times /\ Watermark(Origin, str) \in Times
    BY <1>3, WatermarkIs DEF Inv, TypeOK
  <2>2. pub.wal[str] \in Int /\ Watermark(Origin, str) \in Int /\ t \in Int
    BY <1>5, <2>1, TsIs
  <2>3. ASSUME NEW w \in wal, w.src = Origin, w.str = str, w.ts = t
        PROVE  \E i \in 1..Len(e) : <<str, t>> \in RowsOf(e[i])
    <3>1. t \in Live(Origin, str)
      BY <1>3, <2>3, LiveIs
    <3>2. Cursor(str) < t
      <4>1. Watermark(Origin, str) < t
        BY <3>1, NewestIs
      <4>2. Cursor(str) \in {pub.wal[str], Watermark(Origin, str)}
        BY CursorIs
      <4> QED BY <1>7, <2>2, <4>1, <4>2
    <3>3. <<str, t>> \in Unshipped
      BY <1>5, <3>1, <3>2 DEF Unshipped
    <3>4. RowsOf(r) = Unshipped
      BY DEF Polled, RowsOf
    <3>5. Len(channel) + Len(b) + 1 \in 1..Len(e)
      BY <1>2
    <3> QED BY <1>2, <3>3, <3>4, <3>5
  <2>4. ASSUME NEW s \in segs, s.src = Origin, s.str = str, t \in s.rows
        PROVE  \E i \in 1..Len(e) : <<str, t>> \in RowsOf(e[i])
    <3>1. t <= s.last /\ s.last <= Watermark(Origin, str) /\ s.last \in Int
      BY <1>3, <2>4, WatermarkIs, TsIs DEF InSpan, Segment
    <3>2. pub.wal[str] < Watermark(Origin, str)
      BY <1>7, <2>2, <3>1
    <3>3. pub.wal[str] = NoTs
      BY <3>2 DEF SealedPast
    <3>4. s \in Opening
      BY <2>4, <3>3 DEF Opening
    <3>5. PICK i \in 1..Len(b) : <<str, t>> \in RowsOf(b[i])
      BY <2>4, <3>4
    <3>6. Len(channel) + i \in 1..Len(e) /\ e[Len(channel) + i] = b[i]
      BY <1>2
    <3> QED BY <3>5, <3>6
  <2> QED BY <1>4, <1>5, <2>3, <2>4 DEF Shows
<1> QED BY <1>6, <1>7

LEMMA PollInv ==
  ASSUME Inv, Poll
  PROVE  Inv'
<1> DEFINE series == {t \in ClockSeries : pub.clock < t}
           upTo == [str \in Streams |-> Max(Live(Origin, str) \cup {Cursor(str)})]
           at == Max(series \cup {pub.clock})
<1>1. PICK q \in InOrder(Unsent(pub, NoTs)), c \in InOrder(series), g \in InSeqOrder(Opening) :
        /\ channel' = channel \o (IndexFrames(pub, q) \o ClockFrames(c) \o SegmentFrames(g))
                        \o <<[kind |-> "rows", seq |-> pub.seq,
                              state |-> IndexSent(pub, q).state, rows |-> Unshipped]>>
        /\ pub' = [IndexSent(pub, q) EXCEPT !.wal = upTo, !.clock = at, !.seq = pub.seq + 1]
  BY DEF Poll
<1>2. /\ linked /\ linked' = linked /\ ~ SealedPast /\ sub' = sub
      /\ UNCHANGED <<wal, segs, clock, newest, written, gone, work>>
      /\ UNCHANGED <<from, lost, skipped, refused, gap, silence, losses>>
  BY DEF Poll, file, told
<1> DEFINE b == IndexFrames(pub, q) \o ClockFrames(c) \o SegmentFrames(g)
           r == [kind |-> "rows", seq |-> pub.seq,
                 state |-> IndexSent(pub, q).state, rows |-> Unshipped]
<1>3. /\ pub \in Cursors /\ pub.state \in Seq(Nat) /\ pub.full \in BOOLEAN /\ pub.seq \in Nat
      /\ pub.full <=> pub.state # NoIndexState
  BY DEF Inv, TypeOK, Cursors
<1>4. /\ q \in Seq(Nat) /\ IndexSent(pub, q) \in Cursors
      /\ IndexSent(pub, q).state = pub.state \o q
      /\ IndexSent(pub, q).full <=> IndexSent(pub, q).state # NoIndexState
  BY <1>3, IndexSentIs
<1>5. c \in Seq(Timestamps) /\ series \subseteq Timestamps
  <2>1. series \subseteq ClockSeries
    OBVIOUS
  <2> QED BY <2>1, ClockSeriesIs
<1>6. Opening \subseteq {s \in segs : s.src = Origin} /\ Opening \subseteq Segment
  BY DEF Opening, Inv, TypeOK
<1>7. g \in Seq(Opening)
  <2>1. IsFiniteSet(Opening)
    BY <1>6, FS_Subset DEF Inv, Tables
  <2> QED BY <2>1, InSeqOrderIs
<1>8. at \in Times
  <2> DEFINE S == series \cup {pub.clock}
  <2>1. S \subseteq Times /\ S # {}
    BY <1>3, <1>5 DEF Times, Cursors
  <2> HIDE DEF S
  <2>2. Max(S) \in Times
    BY <2>1, MaxTime
  <2> QED BY <2>2 DEF S
<1>9. upTo \in [Streams -> Times] /\ \A str \in Streams : upTo[str] <= newest[str]
  BY CursorIs
<1>10. \A str \in Streams : upTo[str] = Max(Live(Origin, str) \cup {Cursor(str)})
  OBVIOUS
<1> HIDE DEF at, upTo, series
<1>11. /\ pub' \in Cursors /\ pub'.wal = upTo /\ pub'.seq = pub.seq + 1
       /\ pub'.state = pub.state \o q /\ (pub'.full <=> pub'.state # NoIndexState)
  <2>1. PICK m \in Cursors : m = IndexSent(pub, q)
    BY <1>4
  <2>2. PICK n : n = pub.seq + 1
    OBVIOUS
  <2>a. pub' = [m EXCEPT !.wal = upTo, !.clock = at, !.seq = n]
    BY <1>1, <2>1, <2>2
  <2>b. n \in Nat
    BY <1>3, <2>2
  <2>3. m.state = pub.state \o q /\ (m.full <=> m.state # NoIndexState)
    BY <1>4, <2>1
  <2>4. /\ pub'.wal = upTo /\ pub'.seq = n /\ pub'.state = m.state
        /\ pub'.full <=> m.full
    BY <2>a DEF Cursors
  <2>5. pub' \in Cursors
    BY <1>8, <1>9, <2>a, <2>b DEF Cursors
  <2>6. pub'.full <=> pub'.state # NoIndexState
    BY <2>3, <2>4
  <2>7. pub'.wal = upTo /\ pub'.seq = pub.seq + 1 /\ pub'.state = pub.state \o q
    BY <2>2, <2>3, <2>4
  <2> QED BY <2>5, <2>6, <2>7
<1>12. Batch(b, pub, q, g)
  BY <1>3, <1>4, <1>5, <1>6, <1>7, BatchIs
<1>13. /\ r \in Frames /\ r.kind = "rows" /\ r.rows = Unshipped /\ r.seq = pub.seq
       /\ r.state = pub.state \o q
  <2>1. Unshipped \subseteq Streams \X Timestamps
    BY DEF Unshipped
  <2>2. IndexSent(pub, q).state \in Seq(Nat)
    BY <1>4 DEF Cursors
  <2> QED BY <1>3, <1>4, <2>1, <2>2 DEF Frames
<1>14. channel' = (channel \o b) \o <<r>>
  BY <1>1
<1> HIDE DEF b, r
<1>15. /\ \A i \in 1..Len(b) : /\ Sound(b[i]) /\ b[i].kind # "rows"
                               /\ b[i].kind = "index" => b[i].state # NoIndexState
                               /\ b[i].kind = "segment" => \E s \in Opening : s.str = b[i].str
       /\ \A i \in 1..Len(b) : \A str \in Streams : \A t \in Marks(b[i], str) :
            \E s \in Opening : s.str = str /\ t <= s.last
       /\ \A i, j \in 1..Len(b) : i < j =>
            \A str \in Streams : \A t \in Marks(b[i], str), u \in Marks(b[j], str) : t < u
       /\ \A s \in Opening : \A t \in s.rows :
            \E i \in 1..Len(b) : <<s.str, t>> \in RowsOf(b[i])
  BY <1>3, <1>4, <1>6, <1>12, BatchOrder, ZenonT(40)
<1>16. Polled(b, r)
  <2>1. b \in Seq(Frames)
    BY <1>12 DEF Batch
  <2>2. wal' = wal /\ segs' = segs
    BY <1>2
  <2>3. \A str \in Streams : pub'.wal[str] = Max(Live(Origin, str) \cup {Cursor(str)})
    BY <1>10, <1>11
  <2> QED BY <1>13, <1>14, <1>15, <2>1, <2>2, <2>3 DEF Polled
<1>17. TypeOK'
  <2>1. channel' \in Seq(Frames)
    BY <1>16, PolledIs
  <2> QED BY <1>2, <1>11, <2>1 DEF Inv, TypeOK, Cursors
<1>18. Tables'
  <2>1. Newest'
    BY <1>2, <1>9, <1>11 DEF Inv, Tables, Newest
  <2> QED BY <1>2, <2>1 DEF Inv, Tables, Numbered, InSpan, Pruned
<1>19. Order'
  BY <1>16, PollOrder
<1>20. NoHole'
  <2>1. UNCHANGED told
    BY <1>2 DEF told
  <2> QED BY <1>2, <1>15, <1>16, <2>1, PollNoHole
\* The chains, through the batch and then past the rows.
<1>21. PICK d : d = channel \o b
  OBVIOUS
<1>22. PICK z : z = <<r>>
  OBVIOUS
<1>23. PICK e : e = d \o z
  OBVIOUS
<1>24. channel' = e
  BY <1>14, <1>21, <1>22, <1>23
<1>25. /\ channel \in Seq(Frames) /\ b \in Seq(Frames) /\ d \in Seq(Frames)
       /\ Len(d) = Len(channel) + Len(b) /\ Len(channel) \in Nat /\ Len(b) \in Nat
       /\ \A i \in 1..Len(channel) : d[i] = channel[i]
       /\ \A k \in 1..Len(d) :
            \/ k \in 1..Len(channel)
            \/ k - Len(channel) \in 1..Len(b) /\ d[k] = b[k - Len(channel)]
  <2>1. channel \in Seq(Frames) /\ b \in Seq(Frames)
    BY <1>12 DEF Inv, TypeOK, Batch
  <2> QED BY <1>21, <2>1, GrowIs
<1>26. z \in Seq(Frames) /\ Len(z) = 1 /\ \A i \in 1..Len(z) : z[i] = r
  BY <1>13, <1>22
<1>27. /\ e \in Seq(Frames) /\ Len(e) = Len(d) + 1 /\ Len(d) \in Nat
       /\ \A i \in 1..Len(d) : e[i] = d[i]
       /\ e[Len(d) + 1] = r
  <2>1. /\ e \in Seq(Frames) /\ Len(e) = Len(d) + Len(z) /\ Len(d) \in Nat
        /\ \A i \in 1..Len(d) : e[i] = d[i]
        /\ \A i \in 1..Len(z) : e[Len(d) + i] = z[i]
    BY <1>23, <1>25, <1>26, GrowIs
  <2>2. 1 \in 1..Len(z)
    BY <1>26
  <2> QED BY <1>26, <2>1, <2>2
<1>28. \A k \in 1..Len(e) : /\ \/ k \in 1..Len(d) /\ e[k] = d[k]
                               \/ k = Len(d) + 1 /\ e[k] = r
  BY <1>27
<1>29. \A k \in 1..Len(d) : \/ k \in 1..Len(channel) /\ d[k] = channel[k]
                            \/ \E i \in 1..Len(b) : d[k] = b[i]
  BY <1>25
<1>30. Attributed'
  <2> SUFFICES ASSUME "index" \notin Lossy
               PROVE  /\ \A j \in 1..Len(e) : e[j].kind = "rows" => ReadyAt(e, sub, j, e[j].state)
                      /\ ReadyAt(e, sub, Len(e) + 1, pub.state \o q)
                      /\ skipped = {}
    <3>1. channel' = e /\ sub' = sub /\ skipped' = skipped /\ pub'.state = pub.state \o q
      BY <1>2, <1>11, <1>24
    <3>2. PICK w : w = pub.state \o q
      OBVIOUS
    <3>3. pub'.state = w /\ (pub.state \o q) = w
      BY <3>1, <3>2
    <3>4. ASSUME \A j \in 1..Len(e) : e[j].kind = "rows" => ReadyAt(e, sub, j, e[j].state),
                 ReadyAt(e, sub, Len(e) + 1, w), skipped = {}
          PROVE  Attributed'
      <4>1. channel' = e /\ sub' = sub /\ skipped' = skipped /\ pub'.state = w
        BY <3>1, <3>3
      <4> QED BY <3>4, <4>1 DEF Attributed, ReadyAt, StateAt, FullAt, Before, NoneBefore
    <3>5. CASE "index" \in Lossy
      BY <3>5 DEF Attributed
    <3> QED BY <3>3, <3>4, <3>5
  <2>1. /\ \A j \in 1..Len(channel) : channel[j].kind = "rows" =>
             ReadyAt(channel, sub, j, channel[j].state)
        /\ ReadyAt(channel, sub, Len(channel) + 1, pub.state)
        /\ skipped = {}
    BY <1>2 DEF Inv, Attributed
  <2>2. ReadyAt(d, sub, Len(d) + 1, pub.state \o q)
    BY <1>3, <1>4, <1>12, <1>21, <1>25, <2>1, BatchReady
  <2>3. ReadyAt(e, sub, Len(d) + 1, pub.state \o q)
    <3>1. Len(d) + 1 \in 1..Len(d) + 1
      BY <1>27
    <3> QED BY <1>23, <1>25, <1>26, <2>2, <3>1, GrowReady
  <2>4. ReadyAt(e, sub, Len(e) + 1, pub.state \o q)
    <3>1. \A i \in 1..Len(z) : z[i].kind # "index"
      BY <1>13, <1>26
    <3> QED BY <1>23, <1>25, <1>26, <2>2, <3>1, OverReady
  <2>5. ASSUME NEW j \in 1..Len(channel), channel[j].kind = "rows"
        PROVE  ReadyAt(e, sub, j, channel[j].state)
    <3>1. j \in 1..Len(channel) + 1 /\ j \in 1..Len(d) + 1
      BY <1>25
    <3>2. ReadyAt(d, sub, j, channel[j].state)
      BY <1>21, <1>25, <2>1, <2>5, <3>1, GrowReady
    <3> QED BY <1>23, <1>25, <1>26, <3>1, <3>2, GrowReady
  <2>6. ASSUME NEW j \in 1..Len(e), e[j].kind = "rows"
        PROVE  ReadyAt(e, sub, j, e[j].state)
    <3>1. CASE j = Len(d) + 1 /\ e[j] = r
      BY <1>13, <2>3, <3>1
    <3>2. CASE j \in 1..Len(channel) /\ e[j] = channel[j]
      BY <2>5, <2>6, <3>2
    <3>3. CASE \E i \in 1..Len(b) : e[j] = b[i]
      BY <1>15, <2>6, <3>3
    <3> QED BY <1>28, <1>29, <3>1, <3>2, <3>3
  <2> QED BY <2>1, <2>4, <2>6
<1>31. Counted'
  <2> SUFFICES /\ sub.last = -1 => silence = 0
               /\ \A j \in 1..Len(e) : e[j].kind = "rows" => SeqAt(e, sub, silence, j, e[j].seq)
               /\ SeqAt(e, sub, silence, Len(e) + 1, pub.seq + 1)
    BY <1>2, <1>11, <1>24 DEF Counted, SeqAt, Before, NoneBefore
  <2>1. /\ sub.last = -1 => silence = 0
        /\ \A j \in 1..Len(channel) : channel[j].kind = "rows" =>
             SeqAt(channel, sub, silence, j, channel[j].seq)
        /\ SeqAt(channel, sub, silence, Len(channel) + 1, pub.seq)
    BY <1>2 DEF Inv, Counted
  <2>2. SeqAt(d, sub, silence, Len(d) + 1, pub.seq)
    <3>1. \A i \in 1..Len(b) : b[i].kind # "rows"
      BY <1>15
    <3> QED BY <1>21, <1>25, <2>1, <3>1, OverSeq
  <2>3. SeqAt(e, sub, silence, Len(d) + 1, r.seq)
    <3>1. Len(d) + 1 \in 1..Len(d) + 1
      BY <1>27
    <3> QED BY <1>13, <1>23, <1>25, <1>26, <2>2, <3>1, GrowSeq
  <2>4. SeqAt(e, sub, silence, Len(e) + 1, pub.seq + 1)
    <3>1. Before(e, "rows", Len(d) + 1, Len(e) + 1)
      BY <1>13, <1>27 DEF Before
    <3>2. Len(d) + 1 \in 1..Len(e)
      BY <1>27
    <3> QED BY <1>13, <1>27, <3>1, <3>2 DEF SeqAt
  <2>5. ASSUME NEW j \in 1..Len(channel), channel[j].kind = "rows"
        PROVE  SeqAt(e, sub, silence, j, channel[j].seq)
    <3>1. j \in 1..Len(channel) + 1 /\ j \in 1..Len(d) + 1
      BY <1>25
    <3>2. SeqAt(d, sub, silence, j, channel[j].seq)
      BY <1>21, <1>25, <2>1, <2>5, <3>1, GrowSeq
    <3> QED BY <1>23, <1>25, <1>26, <3>1, <3>2, GrowSeq
  <2>6. ASSUME NEW j \in 1..Len(e), e[j].kind = "rows"
        PROVE  SeqAt(e, sub, silence, j, e[j].seq)
    <3>1. CASE j = Len(d) + 1 /\ e[j] = r
      BY <2>3, <3>1
    <3>2. CASE j \in 1..Len(channel) /\ e[j] = channel[j]
      BY <2>5, <2>6, <3>2
    <3>3. CASE \E i \in 1..Len(b) : e[j] = b[i]
      BY <1>15, <2>6, <3>3
    <3> QED BY <1>28, <1>29, <3>1, <3>2, <3>3
  <2> QED BY <2>1, <2>4, <2>6
<1>32. Declared'
  <2> SUFFICES ASSUME NEW j \in 1..Len(e), e[j].kind = "index"
               PROVE  e[j].state # NoIndexState
    BY <1>24 DEF Declared
  <2>1. \A k \in 1..Len(channel) : channel[k].kind = "index" => channel[k].state # NoIndexState
    BY DEF Inv, Declared
  <2>2. e[j] # r
    BY <1>13
  <2> QED BY <1>15, <1>28, <1>29, <2>1, <2>2
<1>33. NothingRefused'
  BY <1>2 DEF Inv, NothingRefused
<1> QED BY <1>17, <1>18, <1>19, <1>20, <1>30, <1>31, <1>32, <1>33 DEF Inv

LEMMA StutterInv ==
  ASSUME Inv, UNCHANGED vars
  PROVE  Inv'
<1>1. Quiet /\ UNCHANGED <<wal, segs, newest>>
  BY DEF vars, file, Quiet
<1>2. TypeOK'
  BY DEF vars, file, link, told, Inv, TypeOK
<1> QED BY <1>1, <1>2, SideInv

LEMMA NextInv == Inv /\ [Next]_vars => Inv'
<1> SUFFICES ASSUME Inv, [Next]_vars PROVE Inv'
  OBVIOUS
<1>1. ASSUME NEW str \in Streams, NEW t \in Timestamps, Write(str, t) PROVE Inv'
  BY <1>1, WriteInv
<1>2. ASSUME NEW t \in EntryTimes, WriteEntry(t) PROVE Inv'
  BY <1>2, WriteEntryInv
<1>3. ASSUME NEW t \in ClockTimes, Observe(t) PROVE Inv'
  BY <1>3, ObserveInv
<1>4. ASSUME NEW str \in Streams, Seal(str) PROVE Inv'
  BY <1>4, SealInv
<1>5. ASSUME NEW str \in Streams, SealCopy(str) PROVE Inv'
  BY <1>5, SealCopyInv
<1>6. ASSUME NEW cutoff \in Cutoffs, Evict(cutoff) PROVE Inv'
  BY <1>6, EvictInv
<1>7. ASSUME NEW since \in Sinces, CatchUp(since) PROVE Inv'
  BY <1>7, CatchUpInv
<1>8. CASE Tailing
  BY <1>8, TailingInv
<1>9. CASE Poll
  BY <1>9, PollInv
<1>10. CASE PollFails
  BY <1>10, PollFailsInv
<1>11. CASE Disconnect
  BY <1>11, DisconnectInv
<1>12. CASE ApplyIndex
  BY <1>12, ApplyIndexInv
<1>13. CASE ApplyClock
  BY <1>13, ApplyClockInv
<1>14. CASE ApplySegment
  BY <1>14, ApplySegmentInv
<1>15. CASE ApplyRows
  BY <1>15, ApplyRowsInv
<1>16. CASE Lose
  BY <1>16, LoseInv
<1>17. CASE UNCHANGED vars
  BY <1>17, StutterInv
<1> QED
  BY <1>1, <1>2, <1>3, <1>4, <1>5, <1>6, <1>7, <1>8, <1>9, <1>10, <1>11, <1>12, <1>13,
     <1>14, <1>15, <1>16, <1>17 DEF Next, Apply

-----------------------------------------------------------------------------
(***************************************************************************)
(* The two files, the cursors and the frames in between follow one another *)
(* as Order, Attributed and Counted say, in every behaviour.               *)
(***************************************************************************)
THEOREM InvHolds == Spec => []Inv
BY InitInv, NextInv, PTL DEF Spec

\* Both files, the cursors and every frame on its way are well typed, whatever is
\* written, sealed, evicted, sent and lost.
THEOREM TypeCorrect == Spec => []TypeOK
<1>1. Inv => TypeOK
  BY DEF Inv
<1> QED BY <1>1, InvHolds, PTL

(***************************************************************************)
(* A row of the publisher's file that a subscriber asked for, at or below  *)
(* the cursor, is in the copy, on its way, or reported missing: however    *)
(* seals and retention on either side fall between opening and the polls.  *)
(* (ArchivePublisher: "rather than shipping a stream with a hole in it")   *)
(***************************************************************************)
THEOREM CopyHasNoHole == Spec => []NoHole
<1>1. Inv => NoHole
  BY DEF Inv
<1> QED BY <1>1, InvHolds, PTL

(***************************************************************************)
(* The copy's writer drops no row and refuses no segment of a frame:       *)
(* adopt_segment's check for a segment that shadows live rows, or that     *)
(* straddles the watermark, never fires in a stream of frames in order.    *)
(***************************************************************************)
THEOREM CopyRefusesNothing == Spec => []NothingRefused
<1>1. Inv => NothingRefused
  BY DEF Inv
<1> QED BY <1>1, InvHolds, PTL

(***************************************************************************)
(* Unless an index entry was lost, the subscriber is in the index state    *)
(* every Rows frame names, and past a Full, when it applies the frame      *)
(* (rule 4; emit_index marks the first entry it sends Full, whichever      *)
(* batch that is in).                                                      *)
(***************************************************************************)
THEOREM RowsAreResolvable == Spec => []NothingSkipped
<1>1. Inv => NothingSkipped
  BY DEF Inv, Attributed, NothingSkipped
<1> QED BY <1>1, InvHolds, PTL

\* The number of a Rows frame counts what was lost since the last one.
LEMMA ApplyRowsGap ==
  ASSUME Inv, ApplyRows
  PROVE  gap' <=> silence > 0
<1> DEFINE n == channel[1].seq
<1>1. First("rows") /\ gap' = Jumps(Head(channel).seq)
  BY DEF ApplyRows
<1>2. /\ sub.last # -1 => n = sub.last + 1 + silence
      /\ channel[1] \in Frames /\ channel[1].kind = "rows" /\ Head(channel) = channel[1]
  BY <1>1, FirstIs, FirstRowsIs DEF First
<1>3. n \in Nat /\ gap' = Jumps(n)
  BY <1>1, <1>2, FrameIs
<1>4. sub.last \in Nat \cup {-1} /\ silence \in Nat /\ (sub.last = -1 => silence = 0)
  BY DEF Inv, TypeOK, Counted
<1> HIDE DEF n
<1>5. gap' <=> sub.last # -1 /\ sub.last + 1 < n
  BY <1>3 DEF Jumps
<1> QED BY <1>2, <1>3, <1>4, <1>5

(***************************************************************************)
(* The number of a Rows frame is the last one applied, plus one, plus the  *)
(* frames lost in between; so apply reports a gap exactly when one was     *)
(* lost.  (rule 6)                                                         *)
(***************************************************************************)
THEOREM GapsMeanLoss == Spec => GapMeansLoss
<1> DEFINE Heard == sub'.last # sub.last /\ sub'.last # -1
<1>1. ASSUME Inv, [Next]_vars, Heard PROVE gap' <=> silence > 0
  <2>1. CASE ApplyRows
    BY <1>1, <2>1, ApplyRowsGap
  <2>2. CASE ~ ApplyRows
    <3>1. \/ sub' = sub \/ sub' = NoSource \/ ApplyIndex
      BY <1>1, <2>2 DEF Next, vars, link, Apply, Write, WriteEntry, Observe, Seal, SealCopy,
         SealTo, Evict, CatchUp, Tailing, Connect, Poll, PollFails, Disconnect, ApplyClock,
         ApplySegment, Lose
    <3>2. sub' = NoSource => sub'.last = -1
      BY DEF NoSource
    <3>3. ApplyIndex => sub'.last = sub.last
      BY <1>1 DEF ApplyIndex, Inv, TypeOK
    <3> QED BY <1>1, <3>1, <3>2, <3>3
  <2> QED BY <2>1, <2>2
<1>2. Inv /\ [Next]_vars =>
        [sub'.last # sub.last /\ sub'.last # -1 => (gap' <=> silence > 0)]_vars
  BY <1>1
<1> QED BY <1>2, InvHolds, PTL DEF Spec, GapMeansLoss

=============================================================================
