----------------------- MODULE DendroCompactionProofs -----------------------
(***************************************************************************)
(* What is proved of compaction, of the reads taken meanwhile and of the   *)
(* copies of what it leaves, for any streams, rows, encoders, targets and  *)
(* policies, and any number of passes.  The argument: a stream's segments  *)
(* are in the order of their watermarks, what a pass has yet to look at is *)
(* the end of its stream, and what it merges is the beginning of that; so  *)
(* the run's last segment has the run's watermark, and nothing lies        *)
(* between two segments of a run.  A read's connection answers from the    *)
(* file of its first query, and what a read has gathered is promised of    *)
(* the streams it has passed.  A copy's segments are those in its range,   *)
(* renumbered by how many come before each.                                *)
(* A pass leaves settled what it has passed.                               *)
(***************************************************************************)
EXTENDS DendroReader, DendroCopy, FiniteSetTheorems, TLAPS

PassShape ==
  DOMAIN pass = {"at", "keys", "left", "ahead", "out", "target", "schema", "merge",
                 "before", "after", "merges"}

\* Every run of segments has a first and a last.
Bounded(S) ==
  \A run \in SUBSET S : run # {} =>
    /\ \E s \in run : \A u \in run : s.seq <= u.seq
    /\ \E s \in run : \A u \in run : u.seq <= s.seq

\* Every set of WAL rows has an oldest and a newest.
Spanned(W) ==
  \A rows \in SUBSET W : rows # {} =>
    /\ \E r \in rows : \A q \in rows : r.ts <= q.ts
    /\ \E r \in rows : \A q \in rows : q.ts <= r.ts

\* A stream's segments are numbered in the order of their watermarks.
Ordered ==
  \A s, u \in segs : SameStream(s, u) =>
    /\ s.seq < u.seq => s.last < u.last
    /\ s.seq = u.seq => s = u

\* What a pass has yet to look at in its stream is the end of the stream.
Ahead ==
  Running =>
    /\ \A s, u \in pass.ahead : SameStream(s, u)
    /\ \A s \in pass.ahead, u \in segs :
         SameStream(s, u) /\ s.seq <= u.seq => u \in pass.ahead

\* A segment's rows are in its span, and past every earlier one's watermark.
RowsInOrder ==
  /\ \A s \in segs : \A t \in s.rows : s.first <= t /\ t <= s.last
  /\ \A s, u \in segs : SameStream(s, u) /\ s.seq < u.seq => \A t \in u.rows : s.last < t

Inv == TypeOK /\ PassShape /\ Bounded(segs) /\ Spanned(wal) /\ Ordered /\ RowsInOrder /\ Ahead

-----------------------------------------------------------------------------
(***************************************************************************)
(* Firsts and lasts, without induction: they are had of a set that grows   *)
(* by one.                                                                 *)
(***************************************************************************)
LEMMA BoundedSub ==
  ASSUME NEW S, NEW T, T \subseteq S, Bounded(S)
  PROVE  Bounded(T)
BY DEF Bounded

LEMMA BoundedAdd ==
  ASSUME NEW S, Bounded(S), \A s \in S : s.seq \in Nat, NEW m, m.seq \in Nat
  PROVE  Bounded(S \cup {m})
<1> SUFFICES ASSUME NEW run \in SUBSET (S \cup {m}), run # {}
             PROVE  /\ \E s \in run : \A u \in run : s.seq <= u.seq
                    /\ \E s \in run : \A u \in run : u.seq <= s.seq
  BY DEF Bounded
<1> DEFINE old == run \ {m}
<1>1. old \in SUBSET S /\ \A u \in run : u \in old \/ u = m
  OBVIOUS
<1>2. CASE old = {}
  BY <1>1, <1>2
<1>3. CASE old # {}
  <2>1. PICK s \in old : \A u \in old : s.seq <= u.seq
    BY <1>1, <1>3 DEF Bounded
  <2>2. PICK t \in old : \A u \in old : u.seq <= t.seq
    BY <1>1, <1>3 DEF Bounded
  <2>3. s \in S /\ t \in S /\ s.seq \in Nat /\ t.seq \in Nat
    BY <1>1
  <2>4. CASE m \notin run
    BY <1>1, <2>1, <2>2, <2>4
  <2>5. CASE m \in run
    <3>1. \E x \in run : \A u \in run : x.seq <= u.seq
      <4>1. CASE m.seq <= s.seq
        BY <1>1, <2>1, <2>3, <2>5, <4>1
      <4>2. CASE s.seq <= m.seq
        BY <1>1, <2>1, <2>3, <2>5, <4>2
      <4> QED BY <2>3, <4>1, <4>2
    <3>2. \E x \in run : \A u \in run : u.seq <= x.seq
      <4>1. CASE t.seq <= m.seq
        BY <1>1, <2>2, <2>3, <2>5, <4>1
      <4>2. CASE m.seq <= t.seq
        BY <1>1, <2>2, <2>3, <2>5, <4>2
      <4> QED BY <2>3, <4>1, <4>2
    <3> QED BY <3>1, <3>2
  <2> QED BY <2>4, <2>5
<1> QED BY <1>2, <1>3

LEMMA SpannedAdd ==
  ASSUME NEW W, Spanned(W), \A r \in W : r.ts \in Int,
         NEW t \in Int, NEW new, \A r \in new : r.ts = t
  PROVE  Spanned(W \cup new)
<1> SUFFICES ASSUME NEW rows \in SUBSET (W \cup new), rows # {}
             PROVE  /\ \E r \in rows : \A q \in rows : r.ts <= q.ts
                    /\ \E r \in rows : \A q \in rows : q.ts <= r.ts
  BY DEF Spanned
<1> DEFINE old == rows \cap W
<1>1. old \in SUBSET W /\ \A q \in rows : q \in old \/ q.ts = t
  OBVIOUS
<1>2. CASE old = {}
  BY <1>1, <1>2
<1>3. CASE old # {}
  <2>1. PICK r \in old : \A q \in old : r.ts <= q.ts
    BY <1>1, <1>3 DEF Spanned
  <2>2. PICK v \in old : \A q \in old : q.ts <= v.ts
    BY <1>1, <1>3 DEF Spanned
  <2>3. r \in rows /\ v \in rows /\ r.ts \in Int /\ v.ts \in Int
    BY <1>1
  <2>4. CASE rows \subseteq old
    BY <2>1, <2>2, <2>3, <2>4
  <2>5. ASSUME NEW n \in rows, n \notin old
        PROVE  /\ \E x \in rows : \A q \in rows : x.ts <= q.ts
               /\ \E x \in rows : \A q \in rows : q.ts <= x.ts
    <3>1. n.ts = t
      BY <1>1, <2>5
    <3>2. \E x \in rows : \A q \in rows : x.ts <= q.ts
      <4>1. CASE t <= r.ts
        BY <1>1, <2>1, <2>3, <2>5, <3>1, <4>1
      <4>2. CASE r.ts <= t
        BY <1>1, <2>1, <2>3, <4>2
      <4> QED BY <2>3, <4>1, <4>2
    <3>3. \E x \in rows : \A q \in rows : q.ts <= x.ts
      <4>1. CASE v.ts <= t
        BY <1>1, <2>2, <2>3, <2>5, <3>1, <4>1
      <4>2. CASE t <= v.ts
        BY <1>1, <2>2, <2>3, <4>2
      <4> QED BY <2>3, <4>1, <4>2
    <3> QED BY <3>2, <3>3
  <2> QED BY <2>4, <2>5
<1> QED BY <1>2, <1>3

LEMMA FirstLast ==
  ASSUME NEW S, Bounded(S), NEW run, run \subseteq S, run # {}
  PROVE  /\ First(run) \in run /\ \A u \in run : First(run).seq <= u.seq
         /\ Last(run) \in run /\ \A u \in run : u.seq <= Last(run).seq
<1>1. /\ \E s \in run : \A u \in run : s.seq <= u.seq
      /\ \E s \in run : \A u \in run : u.seq <= s.seq
  BY DEF Bounded
<1> QED BY <1>1 DEF First, Last

-----------------------------------------------------------------------------
LEMMA NoPassShape ==
  /\ DOMAIN NoPass = {"at", "keys", "left", "ahead", "out", "target", "schema", "merge",
                      "before", "after", "merges"}
  /\ NoPass.at = "none" /\ NoPass.left = {}
BY DEF NoPass

LEMMA InitInv == Init => Inv
<1> SUFFICES ASSUME Init PROVE Inv
  OBVIOUS
<1>1. NoPass.at = "none" /\ NoPass.left = {}
  BY NoPassShape
<1>2. TypeOK
  BY <1>1 DEF Init, TypeOK, Running
<1>3. PassShape
  BY NoPassShape DEF Init, PassShape
<1>4. Bounded(segs) /\ Spanned(wal) /\ Ordered /\ RowsInOrder /\ Ahead
  BY <1>1 DEF Init, Bounded, Spanned, Ordered, RowsInOrder, Ahead, Running
<1> QED BY <1>2, <1>3, <1>4 DEF Inv

\* The writer's steps come between passes.
LEMMA BetweenPasses ==
  ASSUME Inv, ~ Running, pass' = pass
  PROVE  PassShape' /\ Ahead' /\ ~ Running'
BY DEF Inv, PassShape, Ahead, Running

LEMMA TickKeeps ==
  ASSUME Inv, NEW src \in Sources, NEW strs \in SUBSET Streams, Tick(src, strs)
  PROVE  Inv'
<1>1. PassShape' /\ Ahead' /\ ~ Running' /\ segs' = segs
  BY BetweenPasses DEF Tick
<1>2. PICK t \in Timestamps :
        wal' = wal \cup {[src |-> src, str |-> str, ts |-> t] : str \in strs}
  BY DEF Tick
<1> DEFINE new == {[src |-> src, str |-> str, ts |-> t] : str \in strs}
<1>3. new \subseteq Row /\ \A r \in new : r.ts = t
  BY DEF Row
<1>4. t \in Int /\ \A r \in wal : r.ts \in Int
  BY TimestampsAssumption DEF Inv, TypeOK, Row
<1>5. Spanned(wal')
  <2> HIDE DEF new
  <2>1. wal' = wal \cup new
    BY <1>2 DEF new
  <2>2. Spanned(wal)
    BY DEF Inv
  <2> QED BY <1>3, <1>4, <2>1, <2>2, SpannedAdd
<1>6. TypeOK'
  BY <1>1, <1>2, <1>3 DEF Inv, TypeOK, Tick, Running
<1> QED BY <1>1, <1>5, <1>6 DEF Inv, Spanned, Ordered, RowsInOrder

\* The live rows of a stream span from an oldest to a newest.
LEMMA LiveSpan ==
  ASSUME Inv, NEW src, NEW str,
         LiveTimes(wal, segs, src, str) # {}
  PROVE  /\ Min(LiveTimes(wal, segs, src, str)) \in LiveTimes(wal, segs, src, str)
         /\ Max(LiveTimes(wal, segs, src, str)) \in LiveTimes(wal, segs, src, str)
         /\ \A t \in LiveTimes(wal, segs, src, str) :
              /\ Min(LiveTimes(wal, segs, src, str)) <= t
              /\ t <= Max(LiveTimes(wal, segs, src, str))
<1> DEFINE rows == {r \in LiveWal(wal, segs) : r.src = src /\ r.str = str}
           live == LiveTimes(wal, segs, src, str)
<1>1. rows \in SUBSET wal /\ rows # {}
  BY DEF LiveTimes, LiveWal
<1>2. /\ \A r \in rows : r.ts \in live
      /\ \A t \in live : \E r \in rows : r.ts = t
  BY DEF LiveTimes, LiveWal, Inv, TypeOK, Row
<1> HIDE DEF rows, live
<1>3. /\ \E r \in rows : \A q \in rows : r.ts <= q.ts
      /\ \E r \in rows : \A q \in rows : q.ts <= r.ts
  BY <1>1 DEF Inv, Spanned
<1>4. /\ \E x \in live : \A y \in live : x <= y
      /\ \E x \in live : \A y \in live : x >= y
  <2>1. PICK r \in rows : \A q \in rows : r.ts <= q.ts
    BY <1>3
  <2>2. PICK v \in rows : \A q \in rows : q.ts <= v.ts
    BY <1>3
  <2>3. r.ts \in live /\ \A y \in live : r.ts <= y
    BY <1>2, <2>1
  <2>4. v.ts \in live /\ \A y \in live : y <= v.ts
    BY <1>2, <2>2
  <2>5. live \subseteq Int
    BY TimestampsAssumption DEF live, LiveTimes
  <2> QED BY <2>3, <2>4, <2>5
<1>5. live \subseteq Int
  BY TimestampsAssumption DEF live, LiveTimes
<1> QED BY <1>4, <1>5 DEF live, Min, Max

LEMMA SealKeeps ==
  ASSUME Inv, NEW src \in Sources, NEW str \in Streams, Seal(src, str)
  PROVE  Inv'
<1> DEFINE live == LiveTimes(wal, segs, src, str)
<1>1. PassShape' /\ Ahead' /\ ~ Running' /\ wal' = wal /\ pass' = pass
  BY BetweenPasses DEF Seal
<1>2. PICK n \in 0..Cardinality(Timestamps), e \in Written :
        /\ IsNextSeq(segs, src, str, n)
        /\ segs' = segs \cup
             {[src |-> src, str |-> str, seq |-> n, rows |-> live,
               first |-> Min(live), last |-> Max(live), fields |-> e.fields,
               kv |-> e.kv, index |-> IndexOver(live, e)]}
  BY DEF Seal
<1> DEFINE m == [src |-> src, str |-> str, seq |-> n, rows |-> live,
                 first |-> Min(live), last |-> Max(live), fields |-> e.fields,
                 kv |-> e.kv, index |-> IndexOver(live, e)]
<1>3. /\ m.src = src /\ m.str = str /\ m.seq = n /\ m.rows = live
      /\ m.first = Min(live) /\ m.last = Max(live) /\ m.fields = e.fields
  OBVIOUS
<1>4. segs' = segs \cup {m}
  BY <1>2
<1>5. /\ live \subseteq Timestamps /\ live # {}
      /\ Min(live) \in live /\ Max(live) \in live
      /\ \A t \in live : Min(live) <= t /\ t <= Max(live)
  <2>1. live \subseteq Timestamps /\ live # {}
    BY DEF Seal, LiveTimes
  <2> QED BY <2>1, LiveSpan
<1>6. \A t \in live, s \in segs : s.src = src /\ s.str = str => s.last < t
  BY DEF LiveTimes, LiveWal, IsLive, SameStream
<1>7. /\ n \in Nat /\ DOMAIN e.fields \subseteq Columns
      /\ e.fields \in [DOMAIN e.fields -> Field]
  <2>1. Cardinality(Timestamps) \in Nat
    BY CompactionAssumption, FS_CardinalityType
  <2> QED BY <2>1, WrittenAssumption DEF Columns
<1> HIDE DEF m, live
<1>8. \A s \in segs : s.src = src /\ s.str = str => s.seq < n /\ s.last < m.last
  BY <1>2, <1>3, <1>5, <1>6 DEF IsNextSeq, StreamSegments
<1>9. TypeOK'
  <2>1. /\ m.src \in Sources /\ m.str \in Streams /\ m.seq \in Nat
        /\ m.first \in Timestamps /\ m.last \in Timestamps
        /\ m.rows \in (SUBSET Timestamps) \ {{}} /\ DOMAIN m.fields \subseteq Columns
        /\ m.fields \in [DOMAIN m.fields -> Field]
    BY <1>3, <1>5, <1>7
  <2>2. pass'.at \in {"none", "streams", "done"} /\ pass'.left \subseteq Key
    BY <1>1 DEF Inv, TypeOK
  <2> QED BY <1>1, <1>4, <2>1, <2>2 DEF Inv, TypeOK
<1>10. Bounded(segs')
  BY <1>3, <1>4, <1>7, BoundedAdd DEF Inv, TypeOK
<1>11. Ordered'
  <2> SUFFICES ASSUME NEW s \in segs', NEW u \in segs', SameStream(s, u)
               PROVE  /\ s.seq < u.seq => s.last < u.last
                      /\ s.seq = u.seq => s = u
    BY DEF Ordered
  <2>1. \A x \in segs' : x.seq \in Nat /\ x.last \in Int
    BY <1>9, TimestampsAssumption DEF TypeOK
  <2>2. CASE s \in segs /\ u \in segs
    BY <2>2 DEF Inv, Ordered
  <2>3. CASE s \in segs /\ u = m
    BY <1>3, <1>8, <2>1, <2>3 DEF SameStream
  <2>4. CASE s = m /\ u \in segs
    BY <1>3, <1>4, <1>8, <2>1, <2>4 DEF SameStream
  <2>5. CASE s = m /\ u = m
    BY <2>1, <2>5
  <2> QED BY <1>4, <2>2, <2>3, <2>4, <2>5
<1>12. RowsInOrder'
  <2>1. \A x \in segs' : x.seq \in Nat
    BY <1>9 DEF TypeOK
  <2>2. \A s \in segs' : \A t \in s.rows : s.first <= t /\ t <= s.last
    BY <1>3, <1>4, <1>5 DEF Inv, RowsInOrder
  <2>3. ASSUME NEW s \in segs', NEW u \in segs', SameStream(s, u), s.seq < u.seq
        PROVE  \A t \in u.rows : s.last < t
    <3>1. CASE s \in segs /\ u \in segs
      BY <2>3, <3>1 DEF Inv, RowsInOrder
    <3>2. CASE s \in segs /\ u = m
      BY <1>3, <1>6, <2>3, <3>2 DEF SameStream
    <3>3. CASE s = m
      BY <1>3, <1>4, <1>8, <2>1, <2>3, <3>3 DEF SameStream
    <3> QED BY <1>4, <3>1, <3>2, <3>3
  <2> QED BY <2>2, <2>3 DEF RowsInOrder
<1> QED BY <1>1, <1>9, <1>10, <1>11, <1>12 DEF Inv, Spanned

\* Prune and retention only take away.
LEMMA RemovalKeeps ==
  ASSUME Inv, ~ Running, pass' = pass, segs' \subseteq segs, wal' \subseteq wal
  PROVE  Inv'
<1>1. PassShape' /\ Ahead' /\ ~ Running'
  BY BetweenPasses
<1>2. TypeOK'
  BY <1>1 DEF Inv, TypeOK
<1>3. Bounded(segs') /\ Spanned(wal') /\ Ordered' /\ RowsInOrder'
  BY DEF Inv, Bounded, Spanned, Ordered, RowsInOrder
<1> QED BY <1>1, <1>2, <1>3 DEF Inv

-----------------------------------------------------------------------------
(***************************************************************************)
(* The steps of a pass.                                                    *)
(***************************************************************************)
\* A step of the pass that writes nothing.
LEMMA LookingKeeps ==
  ASSUME Inv, UNCHANGED <<segs, wal>>, PassShape', Ahead',
         pass'.at \in {"none", "streams", "done"}, pass'.left \subseteq Key,
         Running' => pass'.ahead \subseteq segs
  PROVE  Inv'
<1>1. TypeOK'
  BY DEF Inv, TypeOK
<1> QED BY <1>1 DEF Inv, Bounded, Spanned, Ordered, RowsInOrder

LEMMA BeginKeeps ==
  ASSUME Inv, NEW keys, keys \subseteq Key, NEW target, NEW schema, NEW merge,
         Begin(keys, target, schema, merge)
  PROVE  Inv'
<1>1. /\ UNCHANGED <<segs, wal>> /\ PassShape'
      /\ pass'.at = "streams" /\ pass'.left = keys /\ pass'.ahead = {}
  BY DEF Begin, PassShape
<1>2. Ahead'
  BY <1>1 DEF Ahead
<1> QED BY <1>1, <1>2, LookingKeeps

LEMMA NextStreamKeeps ==
  ASSUME Inv, NEW key \in Key, NextStream(key)
  PROVE  Inv'
<1>1. /\ UNCHANGED <<segs, wal>> /\ PassShape'
      /\ pass'.at = "streams" /\ pass'.left \subseteq Key
      /\ pass'.ahead = StreamSegments(segs, key[1], key[2])
  BY DEF NextStream, Inv, PassShape, TypeOK, Running
<1>2. Ahead' /\ pass'.ahead \subseteq segs
  BY <1>1 DEF Ahead, StreamSegments, SameStream
<1> QED BY <1>1, <1>2, LookingKeeps

LEMMA SkipKeeps ==
  ASSUME Inv, Skip
  PROVE  Inv'
<1> DEFINE f == First(pass.ahead)
<1>1. /\ UNCHANGED <<segs, wal>> /\ PassShape'
      /\ pass'.at = "streams" /\ pass'.left \subseteq Key
      /\ pass'.ahead = pass.ahead \ {f}
  BY DEF Skip, Inv, PassShape, TypeOK, Running
<1>2. pass.ahead \subseteq segs /\ pass.ahead # {} /\ Running
  BY DEF Skip, Inv, TypeOK
<1>3. f \in pass.ahead /\ \A u \in pass.ahead : f.seq <= u.seq
  BY <1>2, FirstLast DEF Inv
<1> HIDE DEF f
<1>4. Ahead'
  <2>1. \A s \in pass.ahead \ {f}, u \in segs :
          SameStream(s, u) /\ s.seq <= u.seq => u \in pass.ahead \ {f}
    <3> SUFFICES ASSUME NEW s \in pass.ahead \ {f}, NEW u \in segs,
                        SameStream(s, u), s.seq <= u.seq
                 PROVE  u \in pass.ahead \ {f}
      OBVIOUS
    <3>1. u \in pass.ahead
      BY <1>2 DEF Inv, Ahead
    <3>2. u # f
      BY <1>2, <1>3 DEF Inv, Ordered, TypeOK
    <3> QED BY <3>1, <3>2
  <2> QED BY <1>1, <1>2, <2>1 DEF Inv, Ahead
<1> QED BY <1>1, <1>2, <1>4, LookingKeeps

\* What is merged is where the pass is, with nothing left out.
LEMMA ConsumedIsPrefix ==
  ASSUME Inv, Running
  PROVE  /\ Consumed \subseteq pass.ahead
         /\ \A s \in Consumed, u \in pass.ahead : u.seq <= s.seq => u \in Consumed
<1>1. Consumed \subseteq pass.ahead
  BY DEF Consumed, Planned
<1>2. ASSUME NEW s \in Consumed, NEW u \in pass.ahead, u.seq <= s.seq
      PROVE  u \in Consumed
  <2>1. Upto(u) \subseteq Upto(s)
    <3>1. \A x \in pass.ahead : x.seq \in Nat
      BY DEF Inv, TypeOK
    <3> QED BY <1>1, <1>2, <3>1 DEF Upto
  <2> QED BY <1>2, <2>1 DEF Consumed, Planned
<1> QED BY <1>1, <1>2

(***************************************************************************)
(* The merged segment: its place is the run's first, its watermark every   *)
(* one of the run's, and what is not in the run is before or after it.     *)
(***************************************************************************)
LEMMA MergedInPlace ==
  ASSUME Inv, Running, Consumed # {}
  PROVE  LET m == Merged(Consumed) IN
         /\ m.src \in Sources /\ m.str \in Streams /\ m.seq \in Nat
         /\ m.first \in Timestamps /\ m.last \in Timestamps
         /\ m.rows = UNION {s.rows : s \in Consumed}
         /\ \A t \in m.rows : m.first <= t /\ t <= m.last
         /\ m.fields = UnionOf(Consumed) /\ m.kv = UNION {s.kv : s \in Consumed}
         /\ DOMAIN m.fields = UNION {DOMAIN s.fields : s \in Consumed}
         /\ Consumed \subseteq segs
         /\ \A s \in Consumed : SameStream(s, m) /\ s.last <= m.last /\ m.seq <= s.seq
         /\ \E s \in Consumed : s.last = m.last
         /\ \A u \in segs \ Consumed : SameStream(u, m) =>
              \/ u.seq < m.seq /\ u.last < m.last /\ \A t \in m.rows : u.last < t
              \/ m.seq < u.seq /\ m.last < u.last /\ \A t \in u.rows : m.last < t
<1> DEFINE run == Consumed
           f == First(run)
           l == Last(run)
           m == Merged(run)
<1>1. /\ run \subseteq pass.ahead /\ run # {}
      /\ \A s \in run, u \in pass.ahead : u.seq <= s.seq => u \in run
  BY ConsumedIsPrefix
<1>2. run \subseteq segs /\ Bounded(segs)
  BY <1>1 DEF Inv, TypeOK
<1>3. /\ m.src = f.src /\ m.str = f.str /\ m.seq = f.seq
      /\ m.first = f.first /\ m.last = l.last
      /\ m.rows = UNION {s.rows : s \in run} /\ m.fields = UnionOf(run)
      /\ m.kv = UNION {s.kv : s \in run}
  BY DEF Merged
<1> HIDE DEF run, m, f, l
<1>4. /\ f \in run /\ \A u \in run : f.seq <= u.seq
      /\ l \in run /\ \A u \in run : u.seq <= l.seq
  BY <1>1, <1>2, FirstLast DEF f, l
<1>5. \A s \in segs : s.seq \in Nat /\ s.last \in Int
  BY TimestampsAssumption DEF Inv, TypeOK
<1>6. \A s, u \in run : SameStream(s, u)
  BY <1>1 DEF Inv, Ahead
<1>7. \A s \in run : s.last <= l.last
  BY <1>2, <1>4, <1>5, <1>6 DEF Inv, Ordered
<1>8. ASSUME NEW u \in segs \ run, SameStream(u, m)
      PROVE  \/ u.seq < m.seq /\ u.last < m.last /\ \A t \in m.rows : u.last < t
             \/ m.seq < u.seq /\ m.last < u.last /\ \A t \in u.rows : m.last < t
  <2>1. SameStream(u, f) /\ SameStream(u, l) /\ f \in segs /\ l \in segs /\ u \in segs
    BY <1>2, <1>3, <1>4, <1>6, <1>8 DEF SameStream
  <2>2. SameStream(f, u) /\ SameStream(l, u)
    BY <2>1 DEF SameStream
  <2>3. CASE u.seq < f.seq
    <3>1. u.seq < m.seq /\ u.last < m.last
      BY <1>3, <1>4, <1>5, <1>7, <2>1, <2>3 DEF Inv, Ordered
    <3>2. ASSUME NEW s \in run, NEW t \in s.rows PROVE u.last < t
      <4>1. s \in segs /\ SameStream(s, f) /\ f.seq <= s.seq
        BY <1>2, <1>4, <1>6
      <4>2. SameStream(u, s) /\ u.seq < s.seq
        <5>1. u.seq \in Nat /\ f.seq \in Nat /\ s.seq \in Nat
          BY <1>5, <2>1, <4>1
        <5>2. u.seq < s.seq
          BY <2>3, <4>1, <5>1
        <5> QED BY <2>1, <4>1, <5>2 DEF SameStream
      <4> QED BY <2>1, <4>1, <4>2 DEF Inv, RowsInOrder
    <3> QED BY <1>3, <3>1, <3>2
  <2>4. CASE f.seq <= u.seq
    <3>1. u \in pass.ahead
      BY <1>1, <1>4, <2>1, <2>2, <2>4 DEF Inv, Ahead
    <3>2. l.seq < u.seq
      BY <1>1, <1>4, <1>5, <1>8, <2>1, <3>1
    <3>3. f.seq < u.seq
      BY <1>4, <1>5, <2>1, <3>2
    <3> QED BY <1>3, <2>1, <2>2, <3>2, <3>3 DEF Inv, Ordered, RowsInOrder
  <2> QED BY <1>5, <2>1, <2>3, <2>4
<1>9. DOMAIN m.fields = UNION {DOMAIN s.fields : s \in run}
  BY <1>3 DEF UnionOf
<1>10. /\ m.src \in Sources /\ m.str \in Streams /\ m.seq \in Nat
       /\ m.first \in Timestamps /\ m.last \in Timestamps
  BY <1>2, <1>3, <1>4 DEF Inv, TypeOK
<1>11. \A s \in run : SameStream(s, m) /\ s.last <= m.last /\ m.seq <= s.seq
  BY <1>3, <1>4, <1>6, <1>7 DEF SameStream
<1>12. \A t \in m.rows : m.first <= t /\ t <= m.last
  <2> SUFFICES ASSUME NEW s \in run, NEW t \in s.rows PROVE m.first <= t /\ t <= m.last
    BY <1>3
  <2>1. t <= s.last /\ s.last <= l.last /\ s.last \in Int /\ l.last \in Int /\ t \in Int
    BY <1>2, <1>4, <1>5, <1>7, TimestampsAssumption DEF Inv, RowsInOrder, TypeOK
  <2>2. f.first <= t
    <3>1. CASE s = f
      BY <1>2, <1>4, <3>1 DEF Inv, RowsInOrder
    <3>2. CASE s # f
      <4>1. PICK x \in f.rows : TRUE
        BY <1>2, <1>4 DEF Inv, TypeOK
      <4>2. f.first <= x /\ x <= f.last
        BY <1>2, <1>4 DEF Inv, RowsInOrder
      <4>3. f.first \in Int /\ x \in Int /\ f.last \in Int
        BY <1>2, <1>4, TimestampsAssumption DEF Inv, TypeOK
      <4>4. f \in segs /\ s \in segs /\ SameStream(f, s) /\ f.seq <= s.seq
        BY <1>2, <1>4, <1>6
      <4>5. f.seq < s.seq
        BY <1>5, <3>2, <4>4 DEF Inv, Ordered
      <4>6. f.last < t
        BY <4>4, <4>5 DEF Inv, RowsInOrder
      <4> QED BY <2>1, <4>2, <4>3, <4>6
    <3> QED BY <3>1, <3>2
  <2> QED BY <1>3, <2>1, <2>2
<1> QED BY <1>2, <1>3, <1>4, <1>8, <1>9, <1>10, <1>11, <1>12 DEF run, m

LEMMA SomeConsumed ==
  ASSUME Cardinality(Consumed) >= 2
  PROVE  Consumed # {}
BY FS_EmptySet

\* The union of well-typed columns is well typed.
LEMMA UnionTyped ==
  ASSUME NEW run, \A s \in run : s.fields \in [DOMAIN s.fields -> Field]
  PROVE  UnionOf(run) \in [DOMAIN UnionOf(run) -> Field]
<1> SUFFICES ASSUME NEW c \in UNION {DOMAIN s.fields : s \in run}
             PROVE  UnionOf(run)[c] \in Field
  BY DEF UnionOf
<1> DEFINE d == (CHOOSE s \in run : c \in DOMAIN s.fields).fields[c]
<1>1. d \in Field
  OBVIOUS
<1>2. UnionOf(run)[c] = [def |-> d.def, null |-> d.null \/ \E s \in run : c \notin DOMAIN s.fields]
  BY DEF UnionOf
<1> HIDE DEF d
<1> QED BY <1>1, <1>2 DEF Field

LEMMA MergeKeeps ==
  ASSUME Inv, Merge
  PROVE  Inv'
<1> DEFINE run == Consumed
           m == Merged(Consumed)
<1>1. Running /\ run # {} /\ segs' = (segs \ run) \cup {m} /\ wal' = wal
  BY SomeConsumed DEF Merge
<1>2. /\ PassShape' /\ pass'.at = "streams" /\ pass'.left \subseteq Key
      /\ pass'.ahead = pass.ahead \ run
  BY DEF Merge, Inv, PassShape, TypeOK, Running
<1>3. /\ m.src \in Sources /\ m.str \in Streams /\ m.seq \in Nat
      /\ m.first \in Timestamps /\ m.last \in Timestamps
      /\ m.rows = UNION {s.rows : s \in run}
      /\ \A t \in m.rows : m.first <= t /\ t <= m.last
      /\ m.fields = UnionOf(run)
      /\ DOMAIN m.fields = UNION {DOMAIN s.fields : s \in run}
      /\ run \subseteq segs
      /\ \A s \in run : SameStream(s, m) /\ s.last <= m.last /\ m.seq <= s.seq
      /\ \A u \in segs \ run : SameStream(u, m) =>
           \/ u.seq < m.seq /\ u.last < m.last /\ \A t \in m.rows : u.last < t
           \/ m.seq < u.seq /\ m.last < u.last /\ \A t \in u.rows : m.last < t
  BY <1>1, MergedInPlace
<1>4. /\ run \subseteq pass.ahead /\ pass.ahead \subseteq segs
      /\ \A s \in run, u \in pass.ahead : u.seq <= s.seq => u \in run
  BY <1>1, ConsumedIsPrefix DEF Inv, TypeOK
<1> HIDE DEF run, m
<1>5. \A s \in segs' : s.seq \in Nat /\ s.last \in Int
  BY <1>1, <1>3, TimestampsAssumption DEF Inv, TypeOK
<1>6. TypeOK'
  <2>1. m.rows \in (SUBSET Timestamps) \ {{}} /\ DOMAIN m.fields \subseteq Columns
    <3>1. \A s \in run : s.rows \in (SUBSET Timestamps) \ {{}} /\ DOMAIN s.fields \subseteq Columns
      BY <1>3 DEF Inv, TypeOK
    <3>2. PICK s \in run : TRUE
      BY <1>1
    <3> QED BY <1>3, <3>1, <3>2
  <2>2. m.fields \in [DOMAIN m.fields -> Field]
    BY <1>3, UnionTyped DEF Inv, TypeOK
  <2> QED BY <1>1, <1>2, <1>3, <1>4, <2>1, <2>2 DEF Inv, TypeOK
<1>7. Bounded(segs')
  <2>1. Bounded(segs \ run) /\ \A s \in segs \ run : s.seq \in Nat
    BY BoundedSub DEF Inv, TypeOK
  <2> QED BY <1>1, <1>3, <2>1, BoundedAdd
<1>8. Ordered'
  <2> SUFFICES ASSUME NEW s \in segs', NEW u \in segs', SameStream(s, u)
               PROVE  /\ s.seq < u.seq => s.last < u.last
                      /\ s.seq = u.seq => s = u
    BY DEF Ordered
  <2>1. CASE s \in segs /\ u \in segs
    BY <2>1 DEF Inv, Ordered
  <2>2. CASE s \in segs \ run /\ u = m
    BY <1>3, <1>5, <2>2
  <2>3. CASE s = m /\ u \in segs \ run
    <3>1. SameStream(u, m)
      BY <2>3 DEF SameStream
    <3> QED BY <1>3, <1>5, <2>3, <3>1
  <2>4. CASE s = m /\ u = m
    BY <1>5, <2>4
  <2> QED BY <1>1, <2>1, <2>2, <2>3, <2>4
<1>9. Ahead'
  <2>1. \A s, u \in pass.ahead \ run : SameStream(s, u)
    BY <1>1 DEF Inv, Ahead
  <2>2. \A s \in pass.ahead \ run, u \in segs' :
          SameStream(s, u) /\ s.seq <= u.seq => u \in pass.ahead \ run
    <3> SUFFICES ASSUME NEW s \in pass.ahead \ run, NEW u \in segs',
                        SameStream(s, u), s.seq <= u.seq
                 PROVE  u \in pass.ahead \ run
      OBVIOUS
    <3>1. CASE u \in segs \ run
      BY <1>1, <3>1 DEF Inv, Ahead
    <3>2. CASE u = m
      <4>1. PICK x \in run : TRUE
        BY <1>1
      <4>2. s \in segs \ run /\ x \in segs /\ x \in segs /\ m.seq <= x.seq
        BY <1>3, <1>4, <4>1
      <4>3. s.seq \in Nat /\ x.seq \in Nat /\ m.seq \in Nat
        BY <1>3, <4>2 DEF Inv, TypeOK
      <4>4. s.seq <= x.seq
        BY <3>2, <4>2, <4>3
      <4> QED BY <1>4, <4>1, <4>4
    <3> QED BY <1>1, <3>1, <3>2
  <2> QED BY <1>2, <2>1, <2>2 DEF Ahead
<1>10. Spanned(wal')
  BY <1>1 DEF Inv
<1>11. RowsInOrder'
  <2>1. \A s \in segs' : \A t \in s.rows : s.first <= t /\ t <= s.last
    BY <1>1, <1>3 DEF Inv, RowsInOrder
  <2>2. ASSUME NEW s \in segs', NEW u \in segs', SameStream(s, u), s.seq < u.seq
        PROVE  \A t \in u.rows : s.last < t
    <3>1. CASE s \in segs /\ u \in segs
      BY <2>2, <3>1 DEF Inv, RowsInOrder
    <3>2. CASE s \in segs \ run /\ u = m
      BY <1>3, <1>5, <2>2, <3>2
    <3>3. CASE s = m /\ u \in segs \ run
      <4>1. SameStream(u, m)
        BY <2>2, <3>3 DEF SameStream
      <4> QED BY <1>3, <1>5, <2>2, <3>3, <4>1
    <3>4. CASE s = m /\ u = m
      BY <1>5, <2>2, <3>4
    <3> QED BY <1>1, <3>1, <3>2, <3>3, <3>4
  <2> QED BY <2>1, <2>2 DEF RowsInOrder
<1> QED BY <1>2, <1>6, <1>7, <1>8, <1>9, <1>10, <1>11 DEF Inv

LEMMA EndKeeps ==
  ASSUME Inv, Finish \/ Abort
  PROVE  Inv'
<1>1. UNCHANGED <<segs, wal>> /\ PassShape' /\ pass'.left = {} /\ pass'.at \in {"none", "done"}
  BY NoPassShape DEF Finish, Abort, PassShape
<1>2. ~ Running' /\ Ahead'
  BY <1>1 DEF Running, Ahead
<1> QED BY <1>1, <1>2, LookingKeeps

LEMMA NextInv == Inv /\ [Next]_vars => Inv'
<1> SUFFICES ASSUME Inv, [Next]_vars PROVE Inv'
  OBVIOUS
<1>1. CASE UNCHANGED vars
  BY <1>1 DEF vars, Inv, TypeOK, PassShape, Bounded, Spanned, Ordered, RowsInOrder, Ahead,
     Running
<1>2. CASE WriterNext
  <2>1. ASSUME NEW src \in Sources, NEW str \in Streams, Prune(src, str) PROVE Inv'
    BY <2>1, RemovalKeeps DEF Prune
  <2>2. ASSUME NEW src \in Sources, NEW cutoff \in Cutoffs, Evict(src, cutoff) PROVE Inv'
    BY <2>2, RemovalKeeps DEF Evict
  <2> QED BY <1>2, <2>1, <2>2, TickKeeps, SealKeeps DEF WriterNext
<1>3. CASE PassNext
  <2>1. ASSUME NEW keys \in {Key} \cup {{k} : k \in Key}, NEW target \in Targets,
               NEW p \in Policies, Begin(keys, target, p[1], p[2])
        PROVE  Inv'
    BY <2>1, BeginKeeps
  <2> QED BY <1>3, <2>1, NextStreamKeeps, SkipKeeps, MergeKeeps, EndKeeps DEF PassNext
<1> QED BY <1>1, <1>2, <1>3 DEF Next

\* The invariant of every behaviour of the passes and of the writer's commits
\* between their steps.  (compact_stream_with)
THEOREM InvHolds == Spec => []Inv
BY InitInv, NextInv, PTL DEF Spec

-----------------------------------------------------------------------------
(***************************************************************************)
(* Every table and every pass is well typed: a merged segment's times and  *)
(* rows are rows' times, and a pass works on segments that are there.      *)
(***************************************************************************)
THEOREM TypeCorrect == Spec => []TypeOK
BY InvHolds, PTL DEF Inv

\* A merge seals no row and unseals none.
LEMMA MergeMovesNothing ==
  ASSUME Inv, Merge
  PROVE  /\ SealedRows(segs') = SealedRows(segs)
         /\ LiveWal(wal', segs') = LiveWal(wal, segs)
<1> DEFINE run == Consumed
           m == Merged(Consumed)
<1>1. Running /\ run # {} /\ segs' = (segs \ run) \cup {m} /\ wal' = wal
  BY SomeConsumed DEF Merge
<1>2. /\ m.rows = UNION {s.rows : s \in run} /\ m.last \in Timestamps
      /\ run \subseteq segs
      /\ \A s \in run : SameStream(s, m) /\ s.last <= m.last
      /\ \E s \in run : s.last = m.last
  BY <1>1, MergedInPlace
<1> HIDE DEF run, m
<1>3. SealedRows(segs') = SealedRows(segs)
  <2>1. ASSUME NEW r \in Row, NEW s \in segs, SameStream(s, r), r.ts \in s.rows
        PROVE  \E x \in segs' : SameStream(x, r) /\ r.ts \in x.rows
    <3>1. CASE s \in run
      BY <1>1, <1>2, <2>1, <3>1 DEF SameStream
    <3>2. CASE s \notin run
      BY <1>1, <2>1, <3>2
    <3> QED BY <3>1, <3>2
  <2>2. ASSUME NEW r \in Row, NEW s \in segs', SameStream(s, r), r.ts \in s.rows
        PROVE  \E x \in segs : SameStream(x, r) /\ r.ts \in x.rows
    <3>1. CASE s = m
      BY <1>2, <2>2, <3>1 DEF SameStream
    <3>2. CASE s # m
      BY <1>1, <2>2, <3>2
    <3> QED BY <3>1, <3>2
  <2> QED BY <2>1, <2>2 DEF SealedRows
<1>4. \A r \in wal : IsLive(r, segs') <=> IsLive(r, segs)
  <2> SUFFICES ASSUME NEW r \in wal PROVE IsLive(r, segs') <=> IsLive(r, segs)
    OBVIOUS
  <2>1. r.ts \in Int /\ m.last \in Int /\ \A s \in segs : s.last \in Int
    BY <1>2, TimestampsAssumption DEF Inv, TypeOK, Row
  <2>2. ASSUME IsLive(r, segs) PROVE IsLive(r, segs')
    BY <1>1, <1>2, <2>2 DEF IsLive, SameStream
  <2>3. ASSUME IsLive(r, segs') PROVE IsLive(r, segs)
    BY <1>1, <1>2, <2>1, <2>3 DEF IsLive, SameStream
  <2> QED BY <2>2, <2>3
<1> QED BY <1>1, <1>3, <1>4 DEF LiveWal

(***************************************************************************)
(* No step of a pass, a failed or killed one included, moves a row in or   *)
(* out of what a reader sees, or between the segments and the tail.        *)
(* (compact_stream_with's transaction)                                     *)
(***************************************************************************)
THEOREM ReadsStayPut == Spec => ReadsUnmoved
<1> DEFINE Unmoved == /\ SealedRows(segs') = SealedRows(segs)
                      /\ LiveWal(wal', segs') = LiveWal(wal, segs)
<1>1. Inv /\ [Next]_vars => [Running => Unmoved]_vars
  <2> SUFFICES ASSUME Inv, Next, Running PROVE Unmoved
    OBVIOUS
  <2>1. Merge \/ UNCHANGED <<segs, wal>>
    BY DEF Next, WriterNext, PassNext, Tick, Seal, Prune, Evict, Begin, NextStream,
       Skip, Finish, Abort
  <2> QED BY <2>1, MergeMovesNothing
<1> QED BY <1>1, InvHolds, PTL DEF Spec, ReadsUnmoved

(***************************************************************************)
(* What the policies admit to a run: segments that agree on every column   *)
(* they share.  (concat_parquet)                                           *)
(***************************************************************************)
LEMMA RunAgrees ==
  ASSUME Inv, Running
  PROVE  /\ \A s, u \in Consumed : Agree(s.fields, u.fields)
         /\ pass.schema = "StopAtChange" =>
              \A s, u \in Consumed : s.fields = u.fields
         /\ pass.merge = "Identical" => \A s, u \in Consumed : s.kv = u.kv
<1>1. Consumed \subseteq pass.ahead /\ pass.ahead \subseteq segs
  BY ConsumedIsPrefix DEF Inv, TypeOK
<1>2. \A s \in pass.ahead : s.seq \in Nat
  BY <1>1 DEF Inv, TypeOK
<1>3. \A s \in Consumed : Admits(s)
  BY <1>1, <1>2 DEF Consumed, Upto
<1>4. \A s, u \in Consumed : s \in Upto(u) \/ u \in Upto(s)
  BY <1>1, <1>2 DEF Upto
<1>5. CASE pass.schema = "StopAtChange"
  BY <1>3, <1>5 DEF Admits, Agree
<1>6. CASE pass.schema # "StopAtChange"
  BY <1>3, <1>4, <1>6 DEF Admits, Agree
<1> QED BY <1>5, <1>6

LEMMA UnionKeeps ==
  ASSUME NEW run, \A s, u \in run : Agree(s.fields, u.fields),
         \A s \in run : s.fields \in [DOMAIN s.fields -> Field],
         NEW s \in run
  PROVE  /\ \A c \in DOMAIN s.fields :
              /\ c \in DOMAIN UnionOf(run)
              /\ UnionOf(run)[c].def = s.fields[c].def
              /\ s.fields[c].null => UnionOf(run)[c].null
         /\ \A c \in DOMAIN UnionOf(run) \ DOMAIN s.fields : UnionOf(run)[c].null
         /\ (\A u \in run : u.fields = s.fields) => UnionOf(run) = s.fields
<1> DEFINE field(c) == (CHOOSE u \in run : c \in DOMAIN u.fields).fields[c]
           lacking(c) == \E u \in run : c \notin DOMAIN u.fields
<1>1. DOMAIN UnionOf(run) = UNION {DOMAIN u.fields : u \in run}
  BY DEF UnionOf
<1>2. \A c \in DOMAIN UnionOf(run) :
        UnionOf(run)[c] = [def |-> field(c).def, null |-> field(c).null \/ lacking(c)]
  BY DEF UnionOf
<1>3. ASSUME NEW c \in DOMAIN s.fields PROVE field(c) = s.fields[c]
  BY <1>3 DEF Agree
<1> HIDE DEF field
<1>4. ASSUME NEW c \in DOMAIN s.fields
      PROVE  /\ c \in DOMAIN UnionOf(run)
             /\ UnionOf(run)[c].def = s.fields[c].def
             /\ s.fields[c].null => UnionOf(run)[c].null
  <2>1. c \in DOMAIN UnionOf(run)
    BY <1>1, <1>4
  <2>2. field(c) = s.fields[c]
    BY <1>3, <1>4
  <2> HIDE DEF lacking
  <2>3. /\ UnionOf(run)[c].def = field(c).def
        /\ UnionOf(run)[c].null = (field(c).null \/ lacking(c))
    BY <1>2, <2>1
  <2> QED BY <2>1, <2>2, <2>3, Zenon
<1>5. ASSUME NEW c \in DOMAIN UnionOf(run) \ DOMAIN s.fields
      PROVE  UnionOf(run)[c].null
  <2>1. lacking(c)
    BY <1>5
  <2> HIDE DEF lacking
  <2>2. UnionOf(run)[c].null = (field(c).null \/ lacking(c))
    BY <1>2, <1>5
  <2> QED BY <2>1, <2>2, Zenon
<1>6. ASSUME \A u \in run : u.fields = s.fields
      PROVE  UnionOf(run) = s.fields
  <2>1. DOMAIN UnionOf(run) = DOMAIN s.fields
    BY <1>1, <1>6
  <2>2. ASSUME NEW c \in DOMAIN s.fields PROVE UnionOf(run)[c] = s.fields[c]
    <3>1. ~ lacking(c)
      BY <1>6, <2>2
    <3>2. s.fields[c] \in Field
      BY <2>2
    <3>3. UnionOf(run)[c] = [def |-> s.fields[c].def, null |-> s.fields[c].null]
      BY <1>2, <1>3, <2>1, <2>2, <3>1, <3>2 DEF Field
    <3> QED BY <3>2, <3>3 DEF Field
  <2> QED BY <2>1, <2>2 DEF UnionOf
<1> QED BY <1>4, <1>5, <1>6

LEMMA MergeKeepsColumns ==
  ASSUME Inv, Merge, NEW s \in segs, s \in Consumed
  PROVE  LET m == Merged(Consumed) IN
         /\ Keeps(s, m)
         /\ pass.schema = "StopAtChange" => m.fields = s.fields
         /\ pass.merge = "Identical" => m.kv = s.kv
<1> DEFINE run == Consumed
           m == Merged(Consumed)
<1>1. Running /\ run # {}
  BY SomeConsumed DEF Merge
<1>2. /\ m.fields = UnionOf(run) /\ m.kv = UNION {u.kv : u \in run}
      /\ run \subseteq segs
  BY <1>1, MergedInPlace
<1>3. /\ \A u, v \in run : Agree(u.fields, v.fields)
      /\ pass.schema = "StopAtChange" => \A u, v \in run : u.fields = v.fields
      /\ pass.merge = "Identical" => \A u, v \in run : u.kv = v.kv
  BY <1>1, RunAgrees
<1>4. \A u \in run : u.fields \in [DOMAIN u.fields -> Field]
  BY <1>2 DEF Inv, TypeOK
<1> HIDE DEF m
<1>5. /\ \A c \in DOMAIN s.fields :
           /\ c \in DOMAIN m.fields
           /\ m.fields[c].def = s.fields[c].def
           /\ s.fields[c].null => m.fields[c].null
      /\ \A c \in DOMAIN m.fields \ DOMAIN s.fields : m.fields[c].null
      /\ (\A u \in run : u.fields = s.fields) => m.fields = s.fields
  BY <1>2, <1>3, <1>4, UnionKeeps
<1>6. s.kv \subseteq m.kv /\ (pass.merge = "Identical" => m.kv = s.kv)
  BY <1>2, <1>3
<1> QED BY <1>3, <1>5, <1>6 DEF Keeps, m

(***************************************************************************)
(* Segments that share a row are one segment: a row is sealed once.        *)
(***************************************************************************)
LEMMA SealedOnce ==
  ASSUME Inv, NEW s \in segs, NEW u \in segs, SameStream(s, u), s.rows \cap u.rows # {}
  PROVE  s = u
<1>1. PICK t \in s.rows : t \in u.rows
  OBVIOUS
<1>2. /\ s.seq \in Nat /\ u.seq \in Nat /\ s.last \in Int /\ u.last \in Int /\ t \in Int
      /\ t <= s.last /\ t <= u.last
  BY <1>1, TimestampsAssumption DEF Inv, TypeOK, RowsInOrder
<1>3. ~ s.seq < u.seq
  BY <1>1, <1>2 DEF Inv, RowsInOrder
<1>4. ~ u.seq < s.seq
  BY <1>1, <1>2 DEF Inv, RowsInOrder, SameStream
<1> QED BY <1>2, <1>3, <1>4 DEF Inv, Ordered

LEMMA KeepsItself ==
  ASSUME NEW s PROVE Keeps(s, s)
BY DEF Keeps

(***************************************************************************)
(* Each row keeps every column its segment had, as the same series; what   *)
(* it did not have reads as null; and its file metadata says what it said, *)
(* whatever the policies admitted to the run.  (SchemaPolicy)              *)
(***************************************************************************)
THEOREM ColumnsKeep == Spec => ColumnsKeepTheirMeaning
<1> DEFINE Kept(s, x) == /\ Keeps(s, x)
                         /\ pass.schema = "StopAtChange" => x.fields = s.fields
                         /\ pass.merge = "Identical" => x.kv = s.kv
<1>1. Inv /\ [Next]_vars =>
        [Running => \A s \in segs, m \in segs' :
           SameStream(s, m) /\ s.rows \cap m.rows # {} => Kept(s, m)]_vars
  <2> SUFFICES ASSUME Inv, Next, Running, NEW s \in segs, NEW x \in segs',
                      SameStream(s, x), s.rows \cap x.rows # {}
               PROVE  Kept(s, x)
    OBVIOUS
  <2>1. Merge \/ UNCHANGED <<segs, wal>>
    BY DEF Next, WriterNext, PassNext, Tick, Seal, Prune, Evict, Begin, NextStream,
       Skip, Finish, Abort
  <2>2. CASE x \in segs
    BY <2>2, SealedOnce, KeepsItself
  <2>3. CASE Merge /\ x \notin segs
    <3>1. Consumed # {} /\ x = Merged(Consumed)
      BY <2>3, SomeConsumed DEF Merge
    <3>2. s \in Consumed
      <4> SUFFICES ASSUME s \notin Consumed PROVE FALSE
        OBVIOUS
      <4>1. PICK t \in s.rows : t \in x.rows
        OBVIOUS
      <4>2. /\ t <= x.last
            /\ \/ s.last < t
               \/ x.last < t
        BY <3>1, <4>1, MergedInPlace
      <4>3. t <= s.last /\ t \in Int /\ s.last \in Int /\ x.last \in Int
        BY <3>1, <4>1, MergedInPlace, TimestampsAssumption DEF Inv, RowsInOrder, TypeOK
      <4> QED BY <4>2, <4>3
    <3> QED BY <2>3, <3>1, <3>2, MergeKeepsColumns
  <2> QED BY <2>1, <2>2, <2>3
<1> QED BY <1>1, InvHolds, PTL DEF Spec, ColumnsKeepTheirMeaning

-----------------------------------------------------------------------------
(***************************************************************************)
(* A reader's connection.  Which of its steps opens a transaction is       *)
(* decided by whether one is open, so the depth at which a read finds      *)
(* itself is all that its end has to remember.                             *)
(***************************************************************************)
\* As much of the shape of the read under way as its end depends on.
Shaped ==
  /\ DOMAIN call = {"kind", "own", "at", "left", "now", "sealed", "out"}
  /\ call.own \in BOOLEAN
  /\ call = NoCall <=> call.at = "none"
  /\ db = [tx |-> db.tx, view |-> db.view] /\ db.tx \in BOOLEAN
  /\ outer \in BOOLEAN

\* One transaction at most, and it sees the file of its first query.
Depth ==
  /\ db.tx <=> outer \/ call.at # "none"
  /\ call.at # "none" => call.own = ~ outer
  /\ db.tx => db.view = instant
  /\ ~ db.tx => db = Autocommit

ReaderInv == Shaped /\ Depth

-----------------------------------------------------------------------------
LEMMA NoCallShape ==
  /\ DOMAIN NoCall = {"kind", "own", "at", "left", "now", "sealed", "out"}
  /\ NoCall.own = FALSE /\ NoCall.at = "none"
BY DEF NoCall

LEMMA AutocommitShape ==
  Autocommit = [tx |-> Autocommit.tx, view |-> Autocommit.view] /\ Autocommit.tx = FALSE
BY DEF Autocommit

LEMMA ReaderInitInv == ReaderInit => ReaderInv
<1> SUFFICES ASSUME ReaderInit PROVE ReaderInv
  OBVIOUS
<1>1. db = Autocommit /\ outer = FALSE /\ call = NoCall
  BY DEF ReaderInit
<1> QED BY <1>1, NoCallShape, AutocommitShape DEF ReaderInv, Shaped, Depth

\* A query pins the transaction's snapshot to the file, if nothing has yet.
LEMMA QueryPins ==
  ASSUME ReaderInv, Query, call.at # "none"
  PROVE  /\ outer' = outer /\ db' = [tx |-> TRUE, view |-> instant']
         /\ db.tx
<1>1. db.tx /\ db.view = instant
  BY DEF ReaderInv, Depth
<1>2. db' = [db EXCEPT !.view = Seen] /\ outer' = outer
  BY <1>1 DEF Query
<1>3. Seen = instant'
  BY <1>1 DEF Query, Seen
<1> QED BY <1>1, <1>2, <1>3 DEF ReaderInv, Shaped

\* A step of a read's own, up to its end, leaves what that end depends on.
LEMMA QueriesKeep ==
  ASSUME ReaderInv, Query,
         NEW c, call' = c, DOMAIN c = DOMAIN call, c.own = call.own,
         call.at # "none", c.at # "none"
  PROVE  ReaderInv'
<1>1. outer' = outer /\ db' = [tx |-> TRUE, view |-> instant'] /\ db.tx
  BY QueryPins
<1>2. Shaped'
  BY <1>1 DEF ReaderInv, Shaped, NoCall
<1>3. Depth'
  BY <1>1 DEF ReaderInv, Depth
<1> QED BY <1>2, <1>3 DEF ReaderInv

LEMMA AnswerKeeps ==
  ASSUME ReaderInv, Query, call.at # "none", NEW found, NEW tail, Answer(found, tail)
  PROVE  ReaderInv'
<1>1. /\ DOMAIN call' = DOMAIN call /\ call'.own = call.own
      /\ call'.at # "none"
  BY DEF Answer, ReaderInv, Shaped
<1> QED BY <1>1, QueriesKeep

LEMMA ReadsKeep ==
  ASSUME ReaderInv,
         \/ ListStreams \/ (\E key \in Key : ReadSegments(key))
         \/ ReadBytes \/ ReadTail
  PROVE  ReaderInv'
<1>1. CASE ListStreams
  <2>1. /\ DOMAIN call' = DOMAIN call /\ call'.own = call.own
        /\ call'.at # "none" /\ call.at # "none"
    BY <1>1 DEF ListStreams, ReaderInv, Shaped
  <2> QED BY <1>1, <2>1, QueriesKeep DEF ListStreams
<1>2. ASSUME NEW key \in Key, ReadSegments(key) PROVE ReaderInv'
  <2>1. /\ DOMAIN call' = DOMAIN call /\ call'.own = call.own
        /\ call'.at # "none" /\ call.at # "none"
    BY <1>2 DEF ReadSegments, ReaderInv, Shaped
  <2> QED BY <1>2, <2>1, QueriesKeep DEF ReadSegments
<1>3. CASE ReadBytes
  BY <1>3, AnswerKeeps DEF ReadBytes
<1>4. CASE ReadTail
  BY <1>4, AnswerKeeps DEF ReadTail
<1> QED BY <1>1, <1>2, <1>3, <1>4

\* A read begins inside the caller's snapshot, or opens its own.
LEMMA StartKeeps ==
  ASSUME ReaderInv, NEW kind, NEW keys, Start(kind, keys)
  PROVE  ReaderInv'
<1>1. /\ DOMAIN call' = DOMAIN NoCall /\ call'.own = ~ db.tx
      /\ call'.at # "none" /\ outer' = outer
  BY NoCallShape DEF Start
<1>2. call.at = "none" /\ (db.tx <=> outer)
  BY NoCallShape DEF Start, ReaderInv, Depth
<1>3. IF outer THEN db' = db /\ instant' = instant
               ELSE db' = [tx |-> TRUE, view |-> NoFile] /\ instant' = NoFile
  BY <1>2 DEF Start, Entered, Deferred
<1>4. Shaped'
  <2>1. DOMAIN call' = DOMAIN NoCall /\ call'.own \in BOOLEAN /\ call' # NoCall
    BY <1>1, NoCallShape
  <2>2. db' = [tx |-> db'.tx, view |-> db'.view] /\ db'.tx \in BOOLEAN
    <3>1. CASE outer
      <4>1. db' = db
        BY <1>3, <3>1
      <4> QED BY <4>1 DEF ReaderInv, Shaped
    <3>2. CASE ~ outer
      <4>1. db' = Deferred
        BY <1>2, <3>2 DEF Start, Entered
      <4>2. Deferred = [tx |-> Deferred.tx, view |-> Deferred.view] /\ Deferred.tx = TRUE
        BY DEF Deferred
      <4> QED BY <4>1, <4>2
    <3> QED BY <3>1, <3>2
  <2> QED BY <1>1, <2>1, <2>2, NoCallShape DEF ReaderInv, Shaped
<1>5. Depth'
  BY <1>1, <1>2, <1>3 DEF ReaderInv, Shaped, Depth
<1> QED BY <1>4, <1>5 DEF ReaderInv

\* However a read is left, the transaction ends if the read opened it.
LEMMA LeaveKeeps ==
  ASSUME ReaderInv, Return \/ Unwind
  PROVE  ReaderInv'
<1>1. call.at # "none" /\ call' = NoCall /\ outer' = outer /\ instant' = instant
  BY NoCallShape DEF Return, Unwind, ReaderInv, Shaped
<1>2. IF call.own THEN db' = Autocommit ELSE db' = db
  BY DEF Return, Unwind, ReaderInv, Shaped
<1>3. call.own = ~ outer
  BY <1>1 DEF ReaderInv, Depth
<1>4. Shaped'
  BY <1>1, <1>2, NoCallShape, AutocommitShape DEF ReaderInv, Shaped
<1>5. Depth'
  BY <1>1, <1>2, <1>3, NoCallShape, AutocommitShape DEF ReaderInv, Shaped, Depth
<1> QED BY <1>4, <1>5 DEF ReaderInv

LEMMA SnapshotKeeps ==
  ASSUME ReaderInv, OpenSnapshot \/ CloseSnapshot
  PROVE  ReaderInv'
<1>1. call.at = "none" /\ call' = call
  BY DEF OpenSnapshot, CloseSnapshot, NoCall
<1>2. CASE OpenSnapshot
  <2>1. db' = Deferred /\ outer' = TRUE /\ instant' = NoFile
    BY <1>1, <1>2 DEF OpenSnapshot, Entered, ReaderInv, Depth
  <2> QED BY <1>1, <2>1 DEF ReaderInv, Shaped, Depth, Deferred
<1>3. CASE CloseSnapshot
  BY <1>1, <1>3 DEF CloseSnapshot, ReaderInv, Shaped, Depth, Autocommit
<1> QED BY <1>2, <1>3

LEMMA ReaderNextInv ==
  ReaderInv /\ [ReaderNext \/ (Next /\ UNCHANGED reader)]_<<vars, reader>> => ReaderInv'
<1> SUFFICES ASSUME ReaderInv, [ReaderNext \/ (Next /\ UNCHANGED reader)]_<<vars, reader>>
             PROVE  ReaderInv'
  OBVIOUS
<1>1. CASE UNCHANGED reader
  BY <1>1 DEF reader, ReaderInv, Shaped, Depth
<1>2. CASE ReaderNext
  BY <1>2, ReadsKeep, StartKeeps, LeaveKeeps, SnapshotKeeps DEF ReaderNext
<1> QED BY <1>1, <1>2

-----------------------------------------------------------------------------
(***************************************************************************)
(* A snapshot ends with the read or the closure that opened it, whichever  *)
(* way that was left, and while it lasts it answers from the file of its   *)
(* first query.  (read_snapshot, EndSnapshot)                              *)
(***************************************************************************)
THEOREM SnapshotsEndWithTheirReads == ReaderSpec => []SnapshotsEnd
<1>1. ReaderInv => SnapshotsEnd
  BY DEF ReaderInv, Shaped, Depth, SnapshotsEnd, Autocommit, NoFile
<1> QED BY <1>1, ReaderInitInv, ReaderNextInv, PTL DEF ReaderSpec

-----------------------------------------------------------------------------
(***************************************************************************)
(* What a read has in hand.  A snapshot is a file some step left, so its   *)
(* segments are in order too; every answer is one of the snapshot's        *)
(* stream, and every stream not yet visited is still to come.              *)
(***************************************************************************)
SoundFile(f) ==
  /\ \A s \in f.segs :
       /\ s.src \in Sources /\ s.str \in Streams /\ s.seq \in Nat
       /\ s.first \in Timestamps /\ s.last \in Timestamps /\ s.rows \subseteq Timestamps
       /\ \A t \in s.rows : s.first <= t /\ t <= s.last
  /\ f.wal \subseteq Row
  /\ Bounded(f.segs)
  /\ \A s, u \in f.segs : SameStream(s, u) =>
       /\ s.seq = u.seq => s = u
       /\ s.seq < u.seq => \A t \in u.rows : s.last < t

\* The segments a read finds of a stream.
Found(f, kind, key) ==
  {s \in StreamSegments(f.segs, key[1], key[2]) :
     kind = "range" => s.last >= RangeFrom /\ s.first <= RangeTo}

\* What it has promised of an answer, and of a stream it is done with.
PromisedOf(f, kind, a) ==
  CASE kind = "probe" -> Cardinality(a.segs) = 1 \/ (a.segs = {} /\ Rows(a) = RowsAt(f, a.key))
    [] kind = "range" -> /\ Rows(a) \subseteq RowsAt(f, a.key)
                         /\ {t \in RowsAt(f, a.key) : InRange(t)} \subseteq Rows(a)
                         /\ \A t \in a.tail : InRange(t)
    [] OTHER -> Rows(a) = RowsAt(f, a.key)

Disjoint(a) ==
  /\ \A s \in a.segs : s.rows \cap a.tail = {}
  /\ \A s, u \in a.segs : s = u \/ s.rows \cap u.rows = {}

AnsweredOf(f, kind, out, k) ==
  \/ \E a \in out : a.key = k
  \/ RowsAt(f, k) = {}
  \/ kind = "range" /\ \A t \in RowsAt(f, k) : ~ InRange(t)

\* The streams a read c has come to, but for the one it is in.
Behind(c) ==
  (IF c.kind = "archive" THEN Key ELSE c.now)
    \ (c.left \cup IF c.at \in {"bytes", "tail"} THEN c.now ELSE {})

ReadingOf(f, c) ==
  /\ f.known => SoundFile(f)
  /\ c.at # "none" =>
       /\ c.at \in {"streams", "segments", "bytes", "tail", "done"}
       /\ c.left \subseteq Key /\ c.now \subseteq Key
       /\ c.at = "streams" => c.out = {}
       /\ c.at = "done" => c.left = {}
       /\ c.at \in {"bytes", "tail"} =>
            \E k \in Key : c.now = {k} /\ c.sealed = Found(f, c.kind, k)
       /\ c.at = "bytes" => c.kind = "probe" /\ c.sealed # {}
       /\ c.at = "tail" /\ c.kind = "probe" => c.sealed = {}
       /\ ~ f.known => /\ c.at = "streams" \/ (c.at = "segments" /\ c.kind # "archive")
                       /\ c.out = {} /\ c.now = {}
       /\ \A a \in c.out : PromisedOf(f, c.kind, a) /\ Disjoint(a)
       /\ c.at # "streams" => \A k \in Behind(c) : AnsweredOf(f, c.kind, c.out, k)

Reading == ReadingOf(instant, call)

LEMMA FileIsSound ==
  ASSUME Inv
  PROVE  SoundFile(TheFile) /\ TheFile.known = TRUE
BY DEF Inv, TypeOK, Ordered, RowsInOrder, SoundFile, TheFile

\* A stream's rows are those of its segments and its live tail, each in one.
LEMMA RowsOfStream ==
  ASSUME NEW f, SoundFile(f), NEW k \in Key
  PROVE  LET live == LiveTimes(f.wal, f.segs, k[1], k[2])
             mine == StreamSegments(f.segs, k[1], k[2])
         IN  /\ RowsAt(f, k) = (UNION {s.rows : s \in mine}) \cup live
             /\ \A s \in mine : s.rows \cap live = {}
             /\ \A s, u \in mine : s = u \/ s.rows \cap u.rows = {}
<1> DEFINE live == LiveTimes(f.wal, f.segs, k[1], k[2])
           mine == StreamSegments(f.segs, k[1], k[2])
           row(t) == [src |-> k[1], str |-> k[2], ts |-> t]
<1>1. k[1] \in Sources /\ k[2] \in Streams
  BY DEF Key
<1>2. \A t \in Timestamps : /\ row(t) \in Row /\ row(t).src = k[1] /\ row(t).str = k[2]
                            /\ row(t).ts = t
  BY <1>1 DEF Row
<1>3. \A r \in f.wal : r.src = k[1] /\ r.str = k[2] => r = row(r.ts) /\ r.ts \in Timestamps
  BY DEF SoundFile, Row
<1>4. \A t \in RowsAt(f, k) : t \in Timestamps /\ row(t) \in Readable(f.wal, f.segs)
  BY DEF RowsAt
<1>5. \A t \in Timestamps : row(t) \in Readable(f.wal, f.segs) => t \in RowsAt(f, k)
  BY DEF RowsAt
<1> HIDE DEF row
<1>6. ASSUME NEW t \in RowsAt(f, k)
      PROVE  t \in (UNION {s.rows : s \in mine}) \cup live
  <2>1. t \in Timestamps /\ row(t) \in Readable(f.wal, f.segs)
    BY <1>4, <1>6
  <2>2. CASE row(t) \in SealedRows(f.segs)
    BY <1>2, <2>1, <2>2 DEF SealedRows, StreamSegments, SameStream
  <2>3. CASE row(t) \in LiveWal(f.wal, f.segs)
    BY <1>2, <2>1, <2>3 DEF LiveTimes
  <2> QED BY <2>1, <2>2, <2>3 DEF Readable
<1>7. ASSUME NEW s \in mine, NEW t \in s.rows
      PROVE  t \in RowsAt(f, k)
  <2>1. s \in f.segs /\ s.src = k[1] /\ s.str = k[2] /\ t \in Timestamps
    BY <1>7 DEF StreamSegments, SoundFile
  <2>2. row(t) \in SealedRows(f.segs)
    BY <1>2, <1>7, <2>1 DEF SealedRows, SameStream
  <2> QED BY <1>5, <2>1, <2>2 DEF Readable
<1>8. ASSUME NEW t \in live
      PROVE  t \in RowsAt(f, k)
  <2>1. PICK r \in LiveWal(f.wal, f.segs) : r.src = k[1] /\ r.str = k[2] /\ r.ts = t
    BY <1>8 DEF LiveTimes
  <2>2. r = row(t) /\ t \in Timestamps
    BY <1>3, <2>1 DEF LiveWal
  <2> QED BY <1>5, <2>1, <2>2 DEF Readable
<1>9. ASSUME NEW s \in mine, NEW t \in s.rows, t \in live
      PROVE  FALSE
  <2>1. PICK r \in LiveWal(f.wal, f.segs) : r.src = k[1] /\ r.str = k[2] /\ r.ts = t
    BY <1>9 DEF LiveTimes
  <2>2. s \in f.segs /\ SameStream(s, r)
    BY <2>1 DEF StreamSegments, SameStream
  <2>3. s.last < t
    BY <2>1, <2>2 DEF LiveWal, IsLive
  <2>4. t <= s.last /\ t \in Int /\ s.last \in Int
    BY <1>9, <2>2, TimestampsAssumption DEF SoundFile
  <2> QED BY <2>3, <2>4
<1>10. ASSUME NEW s \in mine, NEW u \in mine, s # u, NEW t \in s.rows, t \in u.rows
       PROVE  FALSE
  <2>1. s \in f.segs /\ u \in f.segs /\ SameStream(s, u) /\ SameStream(u, s)
    BY DEF StreamSegments, SameStream
  <2>2. /\ s.seq \in Nat /\ u.seq \in Nat /\ t \in Int /\ s.last \in Int /\ u.last \in Int
        /\ t <= s.last /\ t <= u.last
    BY <1>10, <2>1, TimestampsAssumption DEF SoundFile
  <2>3. s.seq < u.seq => s.last < t
    BY <1>10, <2>1 DEF SoundFile
  <2>4. u.seq < s.seq => u.last < t
    BY <1>10, <2>1 DEF SoundFile
  <2>5. s.seq # u.seq
    BY <1>10, <2>1 DEF SoundFile
  <2> QED BY <2>2, <2>3, <2>4, <2>5
<1>11. RowsAt(f, k) = (UNION {s.rows : s \in mine}) \cup live
  BY <1>6, <1>7, <1>8
<1> QED BY <1>9, <1>10, <1>11

\* The answer of a read that has come to the tail of a stream.
LEMMA TailAnswers ==
  ASSUME NEW f, SoundFile(f), NEW k \in Key, NEW kind,
         NEW found, found = Found(f, kind, k), kind = "probe" => found = {},
         NEW tail, tail = {t \in LiveTimes(f.wal, f.segs, k[1], k[2]) :
                             kind = "range" => InRange(t)}
  PROVE  LET a == [key |-> k, segs |-> found, tail |-> tail] IN
         /\ PromisedOf(f, kind, a) /\ Disjoint(a) /\ a.key = k
         /\ found = {} /\ tail = {} => AnsweredOf(f, kind, {}, k)
<1> DEFINE a == [key |-> k, segs |-> found, tail |-> tail]
           live == LiveTimes(f.wal, f.segs, k[1], k[2])
           mine == StreamSegments(f.segs, k[1], k[2])
<1>1. /\ RowsAt(f, k) = (UNION {s.rows : s \in mine}) \cup live
      /\ \A s \in mine : s.rows \cap live = {}
      /\ \A s, u \in mine : s = u \/ s.rows \cap u.rows = {}
  BY RowsOfStream
<1>2. a.key = k /\ a.segs = found /\ a.tail = tail
  OBVIOUS
<1>3. found \subseteq mine /\ tail \subseteq live
  BY DEF Found
<1>4. Rows(a) = (UNION {s.rows : s \in found}) \cup tail
  BY <1>2 DEF Rows
<1>5. Rows(a) \subseteq RowsAt(f, k)
  BY <1>1, <1>3, <1>4
<1>6. kind # "range" => found = mine /\ tail = live
  BY DEF Found
<1>7. ASSUME kind = "range", NEW t \in RowsAt(f, k), InRange(t)
      PROVE  t \in Rows(a)
  <2>1. CASE t \in live
    BY <1>4, <1>7, <2>1
  <2>2. ASSUME NEW s \in mine, t \in s.rows PROVE t \in Rows(a)
    <3>1. s.first <= t /\ t <= s.last /\ s.first \in Int /\ t \in Int /\ s.last \in Int
      BY <2>2, TimestampsAssumption DEF SoundFile, StreamSegments
    <3>2. s.last >= RangeFrom /\ s.first <= RangeTo
      BY <1>7, <3>1, RangeAssumption DEF InRange
    <3>3. s \in found
      BY <3>2 DEF Found
    <3> QED BY <1>4, <2>2, <3>3
  <2> QED BY <1>1, <1>7, <2>1, <2>2
<1>8. \A t \in tail : kind = "range" => InRange(t)
  OBVIOUS
<1> HIDE DEF a, live, mine
<1>9. PromisedOf(f, kind, a)
  <2>1. CASE kind = "probe"
    BY <1>1, <1>2, <1>4, <1>6, <2>1 DEF PromisedOf
  <2>2. CASE kind = "range"
    BY <1>2, <1>5, <1>7, <1>8, <2>2 DEF PromisedOf
  <2>3. CASE kind \notin {"probe", "range"}
    BY <1>1, <1>2, <1>4, <1>6, <2>3 DEF PromisedOf
  <2> QED BY <2>1, <2>2, <2>3
<1>10. Disjoint(a)
  BY <1>1, <1>2, <1>3 DEF Disjoint
<1>11. found = {} /\ tail = {} => AnsweredOf(f, kind, {}, k)
  <2> SUFFICES ASSUME found = {}, tail = {} PROVE AnsweredOf(f, kind, {}, k)
    OBVIOUS
  <2>1. CASE kind = "range"
    BY <1>4, <1>7, <2>1 DEF AnsweredOf
  <2>2. CASE kind # "range"
    BY <1>1, <1>6, <2>2 DEF AnsweredOf
  <2> QED BY <2>1, <2>2
<1> QED BY <1>2, <1>9, <1>10, <1>11 DEF a


\* The answer of a probe that has found a segment: that segment.
LEMMA ProbeAnswers ==
  ASSUME NEW f, SoundFile(f), NEW k \in Key,
         NEW sealed, sealed = Found(f, "probe", k), sealed # {},
         NEW found, found = {s \in StreamSegments(f.segs, k[1], k[2]) :
                               s.seq = First(sealed).seq}
  PROVE  LET a == [key |-> k, segs |-> found, tail |-> {}] IN
         PromisedOf(f, "probe", a) /\ Disjoint(a) /\ a.key = k /\ found # {}
<1> DEFINE a == [key |-> k, segs |-> found, tail |-> {}]
<1>1. sealed = StreamSegments(f.segs, k[1], k[2])
  BY DEF Found
<1>2. PICK s \in sealed : s = First(sealed)
  BY <1>1, FirstLast DEF SoundFile, StreamSegments
<1>3. \A u \in sealed : u.seq = s.seq => u = s
  BY <1>1 DEF SoundFile, StreamSegments, SameStream
<1>4. found = {s}
  BY <1>1, <1>2, <1>3
<1>5. Cardinality(found) = 1
  BY <1>4, FS_Singleton
<1>6. a.key = k /\ a.segs = found /\ a.tail = {}
  OBVIOUS
<1> HIDE DEF a
<1>7. PromisedOf(f, "probe", a)
  BY <1>5, <1>6 DEF PromisedOf
<1>8. Disjoint(a)
  BY <1>4, <1>6 DEF Disjoint
<1> QED BY <1>4, <1>6, <1>7, <1>8 DEF a

\* A stream that the file does not list has no rows to return.
LEMMA UnlistedIsEmpty ==
  ASSUME NEW f, SoundFile(f), NEW k \in Key \ Held(f)
  PROVE  RowsAt(f, k) = {}
<1> SUFFICES ASSUME NEW t \in RowsAt(f, k) PROVE FALSE
  OBVIOUS
<1> DEFINE r == [src |-> k[1], str |-> k[2], ts |-> t]
<1>1. r \in Readable(f.wal, f.segs) /\ r.src = k[1] /\ r.str = k[2]
  BY DEF RowsAt
<1> HIDE DEF r
<1>2. k = <<k[1], k[2]>>
  BY DEF Key
<1>3. CASE r \in f.wal
  BY <1>1, <1>2, <1>3 DEF Held
<1>4. ASSUME NEW s \in f.segs, SameStream(s, r) PROVE FALSE
  BY <1>1, <1>2, <1>4 DEF Held, SameStream, StreamOf
<1> QED BY <1>1, <1>3, <1>4 DEF Readable, SealedRows, LiveWal

\* What a query reads is the instant of the read, a file some step left.
LEMMA QuerySees ==
  ASSUME Inv, ReaderInv, Reading, Query, call.at # "none"
  PROVE  /\ Seen = instant' /\ instant'.known /\ SoundFile(instant')
         /\ instant.known => instant' = instant
<1>1. db.tx /\ db.view = instant
  BY DEF ReaderInv, Depth
<1>2. Seen = instant'
  BY <1>1 DEF Query, Seen
<1>3. CASE instant.known
  <2>1. instant' = instant
    BY <1>3 DEF Query
  <2> QED BY <1>2, <1>3, <2>1 DEF Reading, ReadingOf
<1>4. CASE ~ instant.known
  <2>1. instant' = TheFile
    BY <1>4 DEF Query
  <2> QED BY <1>2, <1>4, <2>1, FileIsSound
<1> QED BY <1>3, <1>4

LEMMA ListKeepsReading ==
  ASSUME Inv, ReaderInv, Reading, ListStreams
  PROVE  Reading'
<1>1. call.at = "streams" /\ Query /\ call.out = {} /\ call.now \subseteq Key
  BY DEF ListStreams, Reading, ReadingOf
<1>2. Seen = instant' /\ instant'.known /\ SoundFile(instant')
  BY <1>1, QuerySees
<1>3. /\ call'.out = {} /\ call'.now = call.now /\ call'.left = Held(instant')
      /\ call'.at = IF Held(instant') = {} THEN "done" ELSE "segments"
  BY <1>1, <1>2 DEF ListStreams, ReaderInv, Shaped
<1>4. Held(instant') \subseteq Key
  BY DEF Held
<1>5. \A k \in Behind(call') : AnsweredOf(instant', call'.kind, {}, k)
  <2> SUFFICES ASSUME NEW k \in Behind(call')
               PROVE  AnsweredOf(instant', call'.kind, {}, k)
    OBVIOUS
  <2>1. k \in Key \ Held(instant')
    BY <1>1, <1>3 DEF Behind
  <2> QED BY <1>2, <2>1, UnlistedIsEmpty DEF AnsweredOf
<1> QED BY <1>1, <1>2, <1>3, <1>4, <1>5 DEF Reading, ReadingOf

LEMMA SegmentsKeepReading ==
  ASSUME Inv, ReaderInv, Reading, NEW key \in Key, ReadSegments(key)
  PROVE  Reading'
<1> DEFINE found == Found(instant', call.kind, key)
<1>1. call.at = "segments" /\ Query /\ key \in call.left
  BY DEF ReadSegments
<1>2. Seen = instant' /\ instant'.known /\ SoundFile(instant')
      /\ (instant.known => instant' = instant)
  BY <1>1, QuerySees
<1>3. found = LET mine == StreamSegments(Seen.segs, key[1], key[2])
              IN  IF call.kind = "range"
                    THEN {s \in mine : s.last >= RangeFrom /\ s.first <= RangeTo}
                    ELSE mine
  BY <1>2 DEF Found
<1> HIDE DEF found
<1>4. /\ call'.out = call.out /\ call'.kind = call.kind /\ call'.now = {key}
      /\ call'.left = call.left \ {key} /\ call'.sealed = found
      /\ call'.at = IF call.kind = "probe" /\ found # {} THEN "bytes" ELSE "tail"
  BY <1>1, <1>3 DEF ReadSegments, ReaderInv, Shaped
<1>5. \A a \in call.out : PromisedOf(instant', call.kind, a) /\ Disjoint(a)
  BY <1>1, <1>2 DEF Reading, ReadingOf
<1>6. \A k \in Behind(call') : AnsweredOf(instant', call.kind, call.out, k)
  <2> SUFFICES ASSUME NEW k \in Behind(call')
               PROVE  AnsweredOf(instant', call.kind, call.out, k)
    OBVIOUS
  <2>1. call.kind = "archive" /\ k \in Key \ call.left
    BY <1>4 DEF Behind
  <2>2. k \in Behind(call) /\ instant.known
    BY <1>1, <2>1 DEF Behind, Reading, ReadingOf
  <2> QED BY <1>1, <1>2, <2>2 DEF Reading, ReadingOf
<1>7. call.left \subseteq Key
  BY <1>1 DEF Reading, ReadingOf
<1> QED BY <1>1, <1>2, <1>4, <1>5, <1>6, <1>7 DEF Reading, ReadingOf, found

\* An answer, right of its stream, joins those that the read has.
LEMMA AnswerKeepsReading ==
  ASSUME Inv, ReaderInv, Reading, Query, call.at \in {"bytes", "tail"},
         NEW found, NEW tail, Answer(found, tail),
         NEW k \in Key, call.now = {k},
         NEW a, a = [key |-> k, segs |-> found, tail |-> tail],
         PromisedOf(instant', call.kind, a), Disjoint(a),
         found = {} /\ tail = {} => AnsweredOf(instant', call.kind, {}, k)
  PROVE  Reading'
<1>1. Seen = instant' /\ instant'.known /\ SoundFile(instant') /\ instant.known /\ instant' = instant
  BY QuerySees DEF Reading, ReadingOf
<1>2. Now = k
  BY DEF Now
<1>3. /\ call'.kind = call.kind /\ call'.now = {k} /\ call'.left = call.left
      /\ call'.out = IF found = {} /\ tail = {} THEN call.out ELSE call.out \cup {a}
      /\ call'.at = IF call.left = {} THEN "done" ELSE "segments"
  BY <1>2 DEF Answer, ReaderInv, Shaped
<1>4. \A b \in call'.out : PromisedOf(instant', call.kind, b) /\ Disjoint(b)
  BY <1>1, <1>3 DEF Reading, ReadingOf
<1>5. call.left \subseteq Key
  BY DEF Reading, ReadingOf
<1>6. \A h \in Behind(call') : AnsweredOf(instant', call.kind, call'.out, h)
  <2> SUFFICES ASSUME NEW h \in Behind(call')
               PROVE  AnsweredOf(instant', call.kind, call'.out, h)
    OBVIOUS
  <2>1. CASE h = k
    <3>1. CASE found = {} /\ tail = {}
      BY <2>1, <3>1 DEF AnsweredOf
    <3>2. CASE ~ (found = {} /\ tail = {})
      BY <1>3, <2>1, <3>2 DEF AnsweredOf
    <3> QED BY <3>1, <3>2
  <2>2. CASE h # k
    <3>1. h \in Behind(call)
      BY <1>3, <2>2 DEF Behind
    <3>2. AnsweredOf(instant', call.kind, call.out, h)
      BY <1>1, <3>1 DEF Reading, ReadingOf
    <3>3. call.out \subseteq call'.out
      BY <1>3
    <3> QED BY <3>2, <3>3 DEF AnsweredOf
  <2> QED BY <2>1, <2>2
<1> QED BY <1>1, <1>3, <1>4, <1>5, <1>6 DEF Reading, ReadingOf

LEMMA BytesKeepReading ==
  ASSUME Inv, ReaderInv, Reading, ReadBytes
  PROVE  Reading'
<1>1. call.at = "bytes" /\ Query /\ instant.known
  BY DEF ReadBytes, Reading, ReadingOf
<1>2. Seen = instant' /\ SoundFile(instant') /\ instant' = instant
  BY <1>1, QuerySees
<1>3. PICK k \in Key : call.now = {k} /\ call.sealed = Found(instant, call.kind, k)
  BY <1>1 DEF Reading, ReadingOf
<1>4. call.kind = "probe" /\ call.sealed # {}
  BY <1>1 DEF Reading, ReadingOf
<1>5. Now = k
  BY <1>3 DEF Now
<1>6. PICK found : found = {s \in StreamSegments(instant'.segs, k[1], k[2]) :
                              s.seq = First(call.sealed).seq}
  OBVIOUS
<1>7. Answer(found, {})
  BY <1>2, <1>5, <1>6 DEF ReadBytes
<1>8. PICK a : a = [key |-> k, segs |-> found, tail |-> {}]
  OBVIOUS
<1>9. PromisedOf(instant', "probe", a) /\ Disjoint(a) /\ found # {}
  BY <1>2, <1>3, <1>4, <1>6, <1>8, ProbeAnswers
<1> QED BY <1>1, <1>3, <1>4, <1>7, <1>8, <1>9, AnswerKeepsReading

LEMMA TailKeepsReading ==
  ASSUME Inv, ReaderInv, Reading, ReadTail
  PROVE  Reading'
<1>1. call.at = "tail" /\ Query /\ instant.known
  BY DEF ReadTail, Reading, ReadingOf
<1>2. Seen = instant' /\ SoundFile(instant') /\ instant' = instant
  BY <1>1, QuerySees
<1>3. PICK k \in Key : call.now = {k} /\ call.sealed = Found(instant, call.kind, k)
  BY <1>1 DEF Reading, ReadingOf
<1>4. call.kind = "probe" => call.sealed = {}
  BY <1>1 DEF Reading, ReadingOf
<1>5. Now = k
  BY <1>3 DEF Now
<1>6. PICK tail : tail = {t \in LiveTimes(instant'.wal, instant'.segs, k[1], k[2]) :
                            call.kind = "range" => InRange(t)}
  OBVIOUS
<1>7. Answer(call.sealed, tail)
  BY <1>2, <1>5, <1>6 DEF ReadTail
<1>8. PICK a : a = [key |-> k, segs |-> call.sealed, tail |-> tail]
  OBVIOUS
<1>9. /\ PromisedOf(instant', call.kind, a) /\ Disjoint(a)
      /\ call.sealed = {} /\ tail = {} => AnsweredOf(instant', call.kind, {}, k)
  BY <1>2, <1>3, <1>4, <1>6, <1>8, TailAnswers
<1> QED BY <1>1, <1>3, <1>7, <1>8, <1>9, AnswerKeepsReading

LEMMA StartKeepsReading ==
  ASSUME ReaderInv, Reading, NEW kind, NEW keys \in SUBSET Key, Start(kind, keys),
         kind = "archive" => keys = {}
  PROVE  Reading'
<1>1. /\ call'.kind = kind /\ call'.left = keys /\ call'.now = {} /\ call'.out = {}
      /\ call'.at = IF kind = "archive" THEN "streams" ELSE "segments"
  BY DEF Start
<1>2. instant' = IF outer THEN instant ELSE NoFile
  BY DEF Start
<1>3. instant'.known => SoundFile(instant')
  BY <1>2 DEF Reading, ReadingOf, NoFile
<1>4. Behind(call') = {} \/ call'.at = "streams"
  BY <1>1 DEF Behind
<1> QED BY <1>1, <1>3, <1>4 DEF Reading, ReadingOf

LEMMA ReadingKept ==
  ASSUME Inv, ReaderInv, Reading,
         [ReaderNext \/ (Next /\ UNCHANGED reader)]_<<vars, reader>>
  PROVE  Reading'
<1>1. CASE UNCHANGED reader
  BY <1>1 DEF reader, Reading
<1>2. CASE Return \/ Unwind
  <2>1. call' = NoCall /\ instant' = instant
    BY <1>2 DEF Return, Unwind
  <2> QED BY <2>1 DEF Reading, ReadingOf, NoCall
<1>3. CASE OpenSnapshot \/ CloseSnapshot
  <2>1. call' = NoCall /\ instant' = NoFile
    BY <1>3 DEF OpenSnapshot, CloseSnapshot
  <2> QED BY <2>1 DEF Reading, ReadingOf, NoCall, NoFile
<1>4. CASE Start("archive", {})
  BY <1>4, StartKeepsReading
<1>5. CASE \E kind \in {"stream", "range", "probe"}, key \in Key : Start(kind, {key})
  <2>1. PICK kind \in {"stream", "range", "probe"}, key \in Key : Start(kind, {key})
    BY <1>5
  <2>2. {key} \in SUBSET Key /\ kind # "archive"
    OBVIOUS
  <2> QED BY <2>1, <2>2, StartKeepsReading
<1> QED BY <1>1, <1>2, <1>3, <1>4, <1>5, ListKeepsReading, SegmentsKeepReading,
           BytesKeepReading, TailKeepsReading DEF ReaderNext

\* A read changes nothing of the archive.
LEMMA ReadsMoveNothing ==
  ASSUME ReaderNext
  PROVE  UNCHANGED vars
<1>1. Query => UNCHANGED vars
  BY DEF Query, vars
<1> QED BY <1>1 DEF ReaderNext, OpenSnapshot, CloseSnapshot, Start, ListStreams,
           ReadSegments, ReadBytes, ReadTail, Return, Unwind, vars

-----------------------------------------------------------------------------
(***************************************************************************)
(* What a finished read returns is one instant's facts, whatever was       *)
(* sealed, pruned, evicted or merged between its queries: the rows of the  *)
(* stream's segments and of its live tail as they stood at the first query *)
(* of the outermost snapshot, each in one segment, none left out; and an   *)
(* archive's streams are of the same instant.                              *)
(* (stream_segments_snapshotted, read_snapshot)                            *)
(***************************************************************************)
THEOREM ReadsAreOneInstant == ReaderSpec => []ReadIsOneInstant
<1>1. ReaderInit => Inv /\ ReaderInv /\ Reading
  <2> SUFFICES ASSUME ReaderInit PROVE Reading
    BY InitInv, ReaderInitInv DEF ReaderInit
  <2>1. call = NoCall /\ instant = NoFile
    BY DEF ReaderInit
  <2> QED BY <2>1 DEF Reading, ReadingOf, NoCall, NoFile
<1>2. Inv /\ ReaderInv /\ Reading /\ [ReaderNext \/ (Next /\ UNCHANGED reader)]_<<vars, reader>>
        => (Inv /\ ReaderInv /\ Reading)'
  <2> SUFFICES ASSUME Inv, ReaderInv, Reading,
                      [ReaderNext \/ (Next /\ UNCHANGED reader)]_<<vars, reader>>
               PROVE  Inv'
    BY ReaderNextInv, ReadingKept
  <2>1. [Next]_vars
    BY ReadsMoveNothing DEF vars
  <2> QED BY <2>1, NextInv
<1>3. Reading => ReadIsOneInstant
  <2> SUFFICES ASSUME Reading, call.at = "done", instant.known
               PROVE  ReadIsOneInstant
    BY DEF ReadIsOneInstant
  <2>1. \A a : PromisedOf(instant, call.kind, a) => Promised(a)
    BY DEF PromisedOf, Promised, Whole
  <2>2. \A a \in call.out : Promised(a) /\ Disjoint(a)
    BY <2>1 DEF Reading, ReadingOf
  <2>3. \A k \in Visited : AnsweredOf(instant, call.kind, call.out, k)
    BY DEF Reading, ReadingOf, Behind, Visited
  <2> QED BY <2>2, <2>3 DEF ReadIsOneInstant, Disjoint, AnsweredOf
<1> QED BY <1>1, <1>2, <1>3, PTL DEF ReaderSpec

-----------------------------------------------------------------------------
(***************************************************************************)
(* A copy.  What it needs of the file beyond Inv: the segments are         *)
(* finitely many and no more than the stream's times, each begins and ends *)
(* with a row, and an index is of the segment it lies beside.              *)
(***************************************************************************)
Before(t) == {x \in Timestamps : x < t}

Filled(s) ==
  /\ DOMAIN s = {"src", "str", "seq", "rows", "first", "last", "fields", "kv", "index"}
  /\ s.first \in s.rows /\ s.last \in s.rows
  /\ s.seq <= Cardinality(Before(s.last))
  /\ Describes(s)

Filed == IsFiniteSet(segs) /\ \A s \in segs : Filled(s)

LEMMA BeforeFinite ==
  ASSUME NEW t
  PROVE  /\ IsFiniteSet(Before(t)) /\ Cardinality(Before(t)) \in Nat
         /\ Cardinality(Timestamps) \in Nat
         /\ Cardinality(Before(t)) <= Cardinality(Timestamps)
<1>1. Before(t) \in SUBSET Timestamps /\ IsFiniteSet(Timestamps)
  BY CompactionAssumption DEF Before
<1>2. IsFiniteSet(Before(t)) /\ Cardinality(Before(t)) <= Cardinality(Timestamps)
  BY <1>1, FS_Subset
<1> QED BY <1>1, <1>2, FS_CardinalityType

\* The times before a later one are more.
LEMMA BeforeGrows ==
  ASSUME NEW t \in Timestamps, NEW u \in Timestamps
  PROVE  /\ t <= u => Cardinality(Before(t)) <= Cardinality(Before(u))
         /\ t < u => Cardinality(Before(t)) + 1 <= Cardinality(Before(u))
<1>1. t \in Int /\ u \in Int /\ Timestamps \subseteq Int
  BY TimestampsAssumption
<1>2. IsFiniteSet(Before(t)) /\ IsFiniteSet(Before(u))
  BY BeforeFinite
<1>3. ASSUME t <= u PROVE Cardinality(Before(t)) <= Cardinality(Before(u))
  <2>1. \A x \in Timestamps : x < t => x < u
    BY <1>1, <1>3
  <2>2. Before(t) \in SUBSET Before(u)
    BY <2>1 DEF Before
  <2> QED BY <1>2, <2>2, FS_Subset
<1>4. ASSUME t < u PROVE Cardinality(Before(t)) + 1 <= Cardinality(Before(u))
  <2>1. \A x \in Timestamps : x < t \/ x = t => x < u
    BY <1>1, <1>4
  <2>2. Before(t) \cup {t} \in SUBSET Before(u)
    BY <2>1 DEF Before
  <2>3. t \notin Before(t)
    BY <1>1 DEF Before
  <2>4. Cardinality(Before(t) \cup {t}) = Cardinality(Before(t)) + 1
    BY <1>2, <2>3, FS_AddElement
  <2>5. Cardinality(Before(t) \cup {t}) <= Cardinality(Before(u))
    BY <1>2, <2>2, FS_Subset
  <2> QED BY <2>4, <2>5
<1> QED BY <1>3, <1>4

\* The number the next segment of a stream takes is one the stream has times for.
LEMMA NextIsNumbered ==
  ASSUME Inv, Filed, NEW src, NEW str, NEW n, IsNextSeq(segs, src, str, n),
         NEW t \in Timestamps, \A s \in StreamSegments(segs, src, str) : s.last < t
  PROVE  n \in 0..Cardinality(Timestamps) /\ n <= Cardinality(Before(t))
<1>1. Cardinality(Before(t)) \in Nat /\ Cardinality(Before(t)) <= Cardinality(Timestamps)
      /\ Cardinality(Timestamps) \in Nat
  BY BeforeFinite
<1>2. CASE StreamSegments(segs, src, str) = {}
  BY <1>1, <1>2 DEF IsNextSeq
<1>3. CASE StreamSegments(segs, src, str) # {}
  <2>1. PICK s \in StreamSegments(segs, src, str) : n = s.seq + 1
    BY <1>3 DEF IsNextSeq
  <2>2. /\ s \in segs /\ s.seq \in Nat /\ s.last \in Timestamps
        /\ s.seq <= Cardinality(Before(s.last))
    BY DEF Inv, TypeOK, Filed, Filled, StreamSegments
  <2>3. Cardinality(Before(s.last)) + 1 <= Cardinality(Before(t))
    BY <2>2, BeforeGrows
  <2>4. Cardinality(Before(s.last)) \in Nat
    BY BeforeFinite
  <2> QED BY <1>1, <2>1, <2>2, <2>3, <2>4
<1> QED BY <1>2, <1>3

LEMMA IndexDescribes ==
  ASSUME NEW rows, NEW e, NEW m, m.rows = rows, m.fields = e.fields,
         m.index = IndexOver(rows, e)
  PROVE  Describes(m)
BY DEF Describes, IndexOver

LEMMA FiledGrows ==
  ASSUME Filed, NEW S \in SUBSET segs, NEW m, segs' = S \cup {m}, Filled(m)
  PROVE  Filed'
<1>1. IsFiniteSet(S)
  BY FS_Subset DEF Filed
<1>2. IsFiniteSet(segs')
  BY <1>1, FS_AddElement
<1> QED BY <1>2 DEF Filed

LEMMA FiledShrinks ==
  ASSUME Filed, segs' \subseteq segs
  PROVE  Filed'
<1>1. IsFiniteSet(segs')
  BY FS_Subset DEF Filed
<1> QED BY <1>1 DEF Filed

LEMMA SealIsFiled ==
  ASSUME Inv, Filed, NEW src \in Sources, NEW str \in Streams, Seal(src, str)
  PROVE  Filed'
<1> DEFINE live == LiveTimes(wal, segs, src, str)
<1>1. PICK n \in 0..Cardinality(Timestamps), e \in Written :
        /\ IsNextSeq(segs, src, str, n)
        /\ segs' = segs \cup
             {[src |-> src, str |-> str, seq |-> n, rows |-> live,
               first |-> Min(live), last |-> Max(live), fields |-> e.fields,
               kv |-> e.kv, index |-> IndexOver(live, e)]}
  BY DEF Seal
<1> DEFINE m == [src |-> src, str |-> str, seq |-> n, rows |-> live,
                 first |-> Min(live), last |-> Max(live), fields |-> e.fields,
                 kv |-> e.kv, index |-> IndexOver(live, e)]
<1>2. /\ m.seq = n /\ m.rows = live /\ m.first = Min(live) /\ m.last = Max(live)
      /\ m.fields = e.fields /\ m.index = IndexOver(live, e)
      /\ DOMAIN m = {"src", "str", "seq", "rows", "first", "last", "fields", "kv", "index"}
  OBVIOUS
<1>3. segs' = segs \cup {m}
  BY <1>1
<1> HIDE DEF m
<1>4. Min(live) \in live /\ Max(live) \in live /\ live \subseteq Timestamps
  <2>1. live # {} /\ live \subseteq Timestamps
    BY DEF Seal, LiveTimes
  <2> QED BY <2>1, LiveSpan
<1>5. \A s \in StreamSegments(segs, src, str) : s.last < Max(live)
  BY <1>4 DEF LiveTimes, LiveWal, IsLive, SameStream, StreamSegments
<1>6. n <= Cardinality(Before(Max(live)))
  BY <1>1, <1>4, <1>5, NextIsNumbered
<1>7. Describes(m)
  BY <1>2, IndexDescribes
<1>8. Filled(m)
  BY <1>2, <1>4, <1>6, <1>7 DEF Filled
<1> QED BY <1>3, <1>8, FiledGrows

LEMMA MergeIsFiled ==
  ASSUME Inv, Filed, Merge
  PROVE  Filed'
<1> DEFINE run == Consumed
           m == Merged(Consumed)
<1>1. Running /\ run # {} /\ segs' = (segs \ run) \cup {m}
  BY SomeConsumed DEF Merge
<1>2. /\ run \subseteq segs /\ m.rows = UNION {s.rows : s \in run}
      /\ m.last \in Timestamps /\ m.seq \in Nat
      /\ \A s \in run : s.last <= m.last /\ m.seq <= s.seq
      /\ \E s \in run : s.last = m.last
  BY <1>1, MergedInPlace
<1>3. First(run) \in run
  BY <1>1, <1>2, FirstLast DEF Inv
<1>4. /\ m.first = First(run).first /\ m.index = NoIndex
      /\ DOMAIN m = {"src", "str", "seq", "rows", "first", "last", "fields", "kv", "index"}
  BY DEF Merged
<1> HIDE DEF m, run
<1>5. m.first \in m.rows /\ m.last \in m.rows
  BY <1>2, <1>3, <1>4 DEF Filed, Filled
<1>6. m.seq <= Cardinality(Before(m.last))
  <2>1. PICK s \in run : s.last = m.last
    BY <1>2
  <2>2. s.seq \in Nat /\ s.seq <= Cardinality(Before(m.last)) /\ m.seq <= s.seq
    BY <1>2, <2>1 DEF Filed, Filled, Inv, TypeOK
  <2>3. Cardinality(Before(m.last)) \in Nat
    BY BeforeFinite
  <2> QED BY <1>2, <2>2, <2>3
<1>7. Filled(m)
  BY <1>4, <1>5, <1>6 DEF Filled, Describes
<1> QED BY <1>1, <1>7, FiledGrows

LEMMA FiledKept ==
  ASSUME Inv, Filed, [Next]_vars
  PROVE  Filed'
<1>1. CASE segs' \subseteq segs
  BY <1>1, FiledShrinks
<1>2. CASE \E src \in Sources, str \in Streams : Seal(src, str)
  BY <1>2, SealIsFiled
<1>3. CASE Merge
  BY <1>3, MergeIsFiled
<1>4. \/ segs' \subseteq segs \/ Merge
      \/ \E src \in Sources, str \in Streams : Seal(src, str)
  BY DEF Next, WriterNext, PassNext, Tick, Prune, Evict, Begin, NextStream, Skip, Finish,
     Abort, vars
<1> QED BY <1>1, <1>2, <1>3, <1>4

LEMMA InitIsFiled == Init => Filed
BY FS_EmptySet DEF Init, Filed

-----------------------------------------------------------------------------
(***************************************************************************)
(* The segments a copy chooses from: a stream's own, and its live tail     *)
(* past all of them.                                                       *)
(***************************************************************************)
Choice(src, str, e) == StreamSegments(segs, src, str) \cup Tail(src, str, e)

LEMMA NextSeqExists ==
  ASSUME Inv, NEW src, NEW str
  PROVE  \E n \in Nat : IsNextSeq(segs, src, str, n)
<1> DEFINE mine == StreamSegments(segs, src, str)
<1>1. CASE mine = {}
  BY <1>1 DEF IsNextSeq
<1>2. CASE mine # {}
  <2>1. PICK s \in mine : \A u \in mine : u.seq <= s.seq
    BY <1>2 DEF Inv, Bounded, StreamSegments
  <2>2. \A u \in mine : u.seq \in Nat
    BY DEF Inv, TypeOK, StreamSegments
  <2>3. IsNextSeq(segs, src, str, s.seq + 1)
    BY <2>1, <2>2 DEF IsNextSeq
  <2> QED BY <2>2, <2>3
<1> QED BY <1>1, <1>2

LEMMA NextSeqOne ==
  ASSUME Inv, NEW src, NEW str, NEW n \in Nat, IsNextSeq(segs, src, str, n),
         NEW o \in Nat, IsNextSeq(segs, src, str, o)
  PROVE  n = o
<1> DEFINE mine == StreamSegments(segs, src, str)
<1>1. \A u \in mine : u.seq \in Nat /\ u.seq < n /\ u.seq < o
  BY DEF Inv, TypeOK, StreamSegments, IsNextSeq
<1>2. CASE mine = {}
  BY <1>2 DEF IsNextSeq
<1>3. CASE mine # {}
  <2>1. (\E u \in mine : n = u.seq + 1) /\ (\E u \in mine : o = u.seq + 1)
    BY <1>3 DEF IsNextSeq
  <2> QED BY <1>1, <2>1
<1> QED BY <1>2, <1>3

\* The tail of a stream is one segment, or none when nothing is live.
LEMMA TailIsOne ==
  ASSUME Inv, Filed, NEW src \in Sources, NEW str \in Streams, NEW e
  PROVE  LET live == LiveTimes(wal, segs, src, str) IN
         /\ live = {} => Tail(src, str, e) = {}
         /\ live # {} => \E m :
              /\ Tail(src, str, e) = {m}
              /\ m.src = src /\ m.str = str /\ m.seq \in Nat
              /\ IsNextSeq(segs, src, str, m.seq)
              /\ m.rows = live /\ m.rows \subseteq Timestamps
              /\ \A t \in m.rows : m.first <= t /\ t <= m.last
              /\ Filled(m)
<1> DEFINE live == LiveTimes(wal, segs, src, str)
           seg(n) == [src |-> src, str |-> str, seq |-> n, rows |-> live, first |-> Min(live),
                      last |-> Max(live), fields |-> e.fields, kv |-> e.kv,
                      index |-> IndexOver(live, e)]
<1>1. Tail(src, str, e) =
        {seg(n) : n \in {x \in 0..Cardinality(Timestamps) :
                           live # {} /\ IsNextSeq(segs, src, str, x)}}
  BY DEF Tail
<1>2. \A n : /\ seg(n).src = src /\ seg(n).str = str /\ seg(n).seq = n /\ seg(n).rows = live
             /\ seg(n).first = Min(live) /\ seg(n).last = Max(live)
             /\ seg(n).fields = e.fields /\ seg(n).index = IndexOver(live, e)
             /\ DOMAIN seg(n) = {"src", "str", "seq", "rows", "first", "last", "fields",
                                 "kv", "index"}
  OBVIOUS
<1> HIDE DEF seg
<1>3. live \subseteq Timestamps
  BY DEF LiveTimes
<1>4. ASSUME live # {}
      PROVE  \E m :
        /\ Tail(src, str, e) = {m}
        /\ m.src = src /\ m.str = str /\ m.seq \in Nat
        /\ IsNextSeq(segs, src, str, m.seq)
        /\ m.rows = live /\ m.rows \subseteq Timestamps
        /\ \A t \in m.rows : m.first <= t /\ t <= m.last
        /\ Filled(m)
  <2>1. /\ Min(live) \in live /\ Max(live) \in live
        /\ \A t \in live : Min(live) <= t /\ t <= Max(live)
    BY <1>4, LiveSpan
  <2> HIDE DEF live
  <2>2. PICK n \in Nat : IsNextSeq(segs, src, str, n)
    BY NextSeqExists
  <2>3. \A s \in StreamSegments(segs, src, str) : s.last < Max(live)
    BY <2>1 DEF live, LiveTimes, LiveWal, IsLive, SameStream, StreamSegments
  <2>4. n \in 0..Cardinality(Timestamps) /\ n <= Cardinality(Before(Max(live)))
    BY <1>3, <2>1, <2>2, <2>3, NextIsNumbered
  <2>5. \A x \in 0..Cardinality(Timestamps) : IsNextSeq(segs, src, str, x) => x = n
    <3> SUFFICES ASSUME NEW x \in 0..Cardinality(Timestamps), IsNextSeq(segs, src, str, x)
                 PROVE  x = n
      OBVIOUS
    <3>1. x \in Nat
      BY BeforeFinite
    <3> QED BY <2>2, <3>1, NextSeqOne
  <2>6. Tail(src, str, e) = {seg(n)}
    BY <1>1, <1>4, <2>2, <2>4, <2>5
  <2>7. Describes(seg(n))
    BY <1>2, IndexDescribes
  <2>8. Filled(seg(n))
    BY <1>2, <2>1, <2>4, <2>7 DEF Filled
  <2> QED BY <1>2, <1>3, <2>1, <2>2, <2>6, <2>8
<1>5. live = {} => Tail(src, str, e) = {}
  BY <1>1
<1> QED BY <1>4, <1>5

\* They are few, whole, in order, and hold what a reader of the stream sees.
LEMMA ChoiceInOrder ==
  ASSUME Inv, Filed, NEW src \in Sources, NEW str \in Streams, NEW e
  PROVE  /\ IsFiniteSet(Choice(src, str, e))
         /\ \A s \in Choice(src, str, e) :
              /\ s.src = src /\ s.str = str /\ s.seq \in Nat /\ s.rows \subseteq Timestamps
              /\ \A t \in s.rows : s.first <= t /\ t <= s.last
              /\ Filled(s)
         /\ \A s, u \in Choice(src, str, e) :
              /\ s.seq = u.seq => s = u
              /\ s.seq < u.seq => s.last < u.first
         /\ UNION {s.rows : s \in Choice(src, str, e)} = RowsAt(TheFile, <<src, str>>)
<1> DEFINE mine == StreamSegments(segs, src, str)
           live == LiveTimes(wal, segs, src, str)
           T == Tail(src, str, e)
<1>1. \A s \in mine :
        /\ s \in segs
        /\ s.src = src /\ s.str = str /\ s.seq \in Nat /\ s.rows \subseteq Timestamps
        /\ \A t \in s.rows : s.first <= t /\ t <= s.last
        /\ Filled(s)
  BY DEF StreamSegments, Inv, TypeOK, RowsInOrder, Filed
<1>2. IsFiniteSet(mine)
  <2>1. mine \in SUBSET segs /\ IsFiniteSet(segs)
    BY DEF StreamSegments, Filed
  <2> QED BY <2>1, FS_Subset
<1>3. \A s, u \in mine : /\ s.seq = u.seq => s = u
                         /\ s.seq < u.seq => s.last < u.first
  <2> SUFFICES ASSUME NEW s \in mine, NEW u \in mine
               PROVE  /\ s.seq = u.seq => s = u
                      /\ s.seq < u.seq => s.last < u.first
    OBVIOUS
  <2>1. SameStream(s, u) /\ u.first \in u.rows
    BY <1>1 DEF SameStream, Filled
  <2> QED BY <1>1, <2>1 DEF Inv, Ordered, RowsInOrder
<1>4. (UNION {s.rows : s \in mine}) \cup live = RowsAt(TheFile, <<src, str>>)
  <2>1. PICK k : k = <<src, str>>
    OBVIOUS
  <2>2. PICK f : f = TheFile
    OBVIOUS
  <2>3. k \in Key /\ k[1] = src /\ k[2] = str /\ SoundFile(f) /\ f.wal = wal /\ f.segs = segs
    BY <2>1, <2>2, FileIsSound DEF Key, TheFile
  <2>4. RowsAt(f, k) = (UNION {s.rows : s \in StreamSegments(f.segs, k[1], k[2])})
                         \cup LiveTimes(f.wal, f.segs, k[1], k[2])
    BY <2>3, RowsOfStream
  <2> QED BY <2>1, <2>2, <2>3, <2>4
<1>5. CASE live = {}
  <2>1. Choice(src, str, e) = mine
    BY <1>5, TailIsOne DEF Choice
  <2> HIDE DEF mine
  <2> QED BY <1>1, <1>2, <1>3, <1>4, <1>5, <2>1
<1>6. CASE live # {}
  <2>1. PICK m :
          /\ T = {m}
          /\ m.src = src /\ m.str = str /\ m.seq \in Nat
          /\ IsNextSeq(segs, src, str, m.seq)
          /\ m.rows = live /\ m.rows \subseteq Timestamps
          /\ \A t \in m.rows : m.first <= t /\ t <= m.last
          /\ Filled(m)
    BY <1>6, TailIsOne
  <2>2. \A s \in mine : s.seq < m.seq
    BY <2>1 DEF IsNextSeq
  <2>3. \A s \in mine, t \in live : s.last < t
    BY DEF LiveTimes, LiveWal, IsLive, SameStream, StreamSegments
  <2>4. Choice(src, str, e) = mine \cup {m}
    BY <2>1 DEF Choice
  <2>5. m.first \in live
    BY <2>1 DEF Filled
  <2> HIDE DEF mine, live, T
  <2>6. IsFiniteSet(mine \cup {m})
    BY <1>2, FS_AddElement
  <2>7. UNION {s.rows : s \in mine \cup {m}} = (UNION {s.rows : s \in mine}) \cup m.rows
    OBVIOUS
  <2>8. ASSUME NEW s \in mine \cup {m}, NEW u \in mine \cup {m}
        PROVE  /\ s.seq = u.seq => s = u
               /\ s.seq < u.seq => s.last < u.first
    <3>1. CASE s \in mine /\ u \in mine
      BY <1>3, <3>1
    <3>2. CASE s \in mine /\ u = m
      BY <1>1, <2>1, <2>2, <2>3, <2>5, <3>2
    <3>3. CASE s = m /\ u \in mine
      BY <1>1, <2>1, <2>2, <3>3
    <3>4. CASE s = m /\ u = m
      BY <2>1, <3>4
    <3> QED BY <3>1, <3>2, <3>3, <3>4
  <2> QED BY <1>1, <1>4, <2>1, <2>4, <2>6, <2>7, <2>8
<1> QED BY <1>5, <1>6

\* A segment's place among those taken.
Rank(S, s) == Cardinality({u \in S : u.seq < s.seq})

LEMMA RanksInOrder ==
  ASSUME NEW S, IsFiniteSet(S), \A s \in S : s.seq \in Nat, NEW s \in S, NEW u \in S
  PROVE  /\ Rank(S, s) \in Nat /\ Rank(S, u) \in Nat
         /\ s.seq < u.seq <=> Rank(S, s) < Rank(S, u)
         /\ s.seq = u.seq => Rank(S, s) = Rank(S, u)
<1> DEFINE below(x) == {v \in S : v.seq < x.seq}
<1>1. \A x : below(x) \in SUBSET S
  OBVIOUS
<1>2. IsFiniteSet(below(s)) /\ IsFiniteSet(below(u))
  BY <1>1, FS_Subset
<1>3. Rank(S, s) = Cardinality(below(s)) /\ Rank(S, u) = Cardinality(below(u))
  BY DEF Rank
<1>4. Rank(S, s) \in Nat /\ Rank(S, u) \in Nat
  BY <1>2, <1>3, FS_CardinalityType
<1>5. ASSUME s.seq < u.seq PROVE Rank(S, s) < Rank(S, u)
  <2>1. below(s) \in SUBSET below(u) /\ s \in below(u) /\ s \notin below(s)
    BY <1>5
  <2>2. Cardinality(below(s)) <= Cardinality(below(u))
    BY <1>2, <2>1, FS_Subset
  <2>3. Cardinality(below(s)) # Cardinality(below(u))
    BY <1>2, <2>1, FS_Subset
  <2> QED BY <1>3, <1>4, <2>2, <2>3
<1>6. ASSUME u.seq <= s.seq PROVE Rank(S, u) <= Rank(S, s)
  <2>1. below(u) \in SUBSET below(s)
    BY <1>6
  <2> QED BY <1>2, <1>3, <2>1, FS_Subset
<1>7. s.seq = u.seq => Rank(S, s) = Rank(S, u)
  BY DEF Rank
<1>8. s.seq \in Nat /\ u.seq \in Nat
  OBVIOUS
<1> QED BY <1>4, <1>5, <1>6, <1>7, <1>8

\* A segment as it is copied: its columns cut, and numbered by its place.
Renumbered(S, s, spec) == [Projected(s, spec) EXCEPT !.seq = Rank(S, s)]

LEMMA RenumberedKeeps ==
  ASSUME NEW s, Filled(s), NEW spec, HasData(s, spec), NEW S
  PROVE  LET c == Renumbered(S, s, spec) IN
         /\ c.src = s.src /\ c.str = s.str /\ c.seq = Rank(S, s) /\ c.rows = s.rows
         /\ c.first = s.first /\ c.last = s.last
         /\ Describes(c) /\ HasData(c, spec)
<1> DEFINE p == Projected(s, spec)
           c == Renumbered(S, s, spec)
<1>1. DOMAIN s = {"src", "str", "seq", "rows", "first", "last", "fields", "kv", "index"}
  BY DEF Filled
<1>2. CASE s.str \in spec.project
  <2>1. /\ DOMAIN p = DOMAIN s /\ p.src = s.src /\ p.str = s.str /\ p.rows = s.rows
        /\ p.first = s.first /\ p.last = s.last /\ p.index = NoIndex
        /\ DOMAIN p.fields = DOMAIN s.fields \cap spec.columns
    BY <1>1, <1>2 DEF Projected
  <2> HIDE DEF p
  <2>2. /\ c.src = s.src /\ c.str = s.str /\ c.rows = s.rows /\ c.seq = Rank(S, s)
        /\ c.first = s.first /\ c.last = s.last /\ c.index = NoIndex
        /\ DOMAIN c.fields = DOMAIN s.fields \cap spec.columns
    BY <1>1, <2>1 DEF Renumbered, p
  <2> HIDE DEF c
  <2>3. Describes(c) /\ HasData(c, spec)
    BY <1>2, <2>2 DEF Describes, HasData
  <2> QED BY <2>2, <2>3 DEF c
<1>3. CASE s.str \notin spec.project
  <2>1. p = s
    BY <1>3 DEF Projected
  <2>2. /\ c.src = s.src /\ c.str = s.str /\ c.rows = s.rows /\ c.seq = Rank(S, s)
        /\ c.first = s.first /\ c.last = s.last /\ c.index = s.index
        /\ c.fields = s.fields
    BY <1>1, <2>1 DEF Renumbered
  <2> HIDE DEF c
  <2>3. Describes(c) /\ HasData(c, spec)
    BY <1>3, <2>2 DEF Describes, HasData, Filled
  <2> QED BY <2>2, <2>3 DEF c
<1> QED BY <1>2, <1>3

\* What the copy of a stream is made of.
LEMMA CopiedFromTaken ==
  ASSUME NEW src, NEW str, NEW spec, NEW e
  PROVE  /\ CopiedStream(src, str, spec, e) =
              {Renumbered(Taken(src, str, spec, e), s, spec) : s \in Taken(src, str, spec, e)}
         /\ Taken(src, str, spec, e) =
              {s \in Choice(src, str, e) : Overlaps(s.first, s.last, spec) /\ HasData(s, spec)}
BY DEF CopiedStream, Renumbered, Rank, Taken, Choice

LEMMA TakenInOrder ==
  ASSUME Inv, Filed, NEW src \in Sources, NEW str \in Streams, NEW spec, NEW e
  PROVE  LET S == Taken(src, str, spec, e) IN
         /\ IsFiniteSet(S)
         /\ \A s \in S :
              /\ s.src = src /\ s.str = str /\ s.seq \in Nat /\ s.rows \subseteq Timestamps
              /\ \A t \in s.rows : s.first <= t /\ t <= s.last
              /\ Filled(s) /\ Overlaps(s.first, s.last, spec) /\ HasData(s, spec)
         /\ \A s, u \in S : /\ s.seq = u.seq => s = u
                            /\ s.seq < u.seq => s.last < u.first
<1> DEFINE S == Taken(src, str, spec, e)
           C == Choice(src, str, e)
<1>1. S = {s \in C : Overlaps(s.first, s.last, spec) /\ HasData(s, spec)}
  BY CopiedFromTaken
<1>2. /\ IsFiniteSet(C)
      /\ \A s \in C :
           /\ s.src = src /\ s.str = str /\ s.seq \in Nat /\ s.rows \subseteq Timestamps
           /\ \A t \in s.rows : s.first <= t /\ t <= s.last
           /\ Filled(s)
      /\ \A s, u \in C : /\ s.seq = u.seq => s = u
                         /\ s.seq < u.seq => s.last < u.first
  BY ChoiceInOrder
<1> HIDE DEF S, C
<1>3. S \in SUBSET C
  BY <1>1
<1>4. IsFiniteSet(S)
  BY <1>2, <1>3, FS_Subset
<1> QED BY <1>1, <1>2, <1>4 DEF S

\* As many segments are copied before a segment as its number says.
LEMMA CopiedBefore ==
  ASSUME NEW S, IsFiniteSet(S), NEW spec, NEW s \in S,
         \A x \in S : x.seq \in Nat /\ Filled(x) /\ HasData(x, spec),
         \A x, y \in S : x.seq = y.seq => x = y
  PROVE  Rank(S, s) =
           Cardinality({c \in {Renumbered(S, x, spec) : x \in S} : c.seq < Rank(S, s)})
<1> DEFINE below == {u \in S : u.seq < s.seq}
           there == {c \in {Renumbered(S, x, spec) : x \in S} : c.seq < Rank(S, s)}
           f == [u \in below |-> Renumbered(S, u, spec)]
<1>1. \A x \in S : Renumbered(S, x, spec).seq = Rank(S, x)
  BY RenumberedKeeps
<1>2. \A x, y \in S : /\ Rank(S, x) \in Nat
                      /\ x.seq < y.seq <=> Rank(S, x) < Rank(S, y)
  BY RanksInOrder
<1>3. \A x, y \in S : Rank(S, x) = Rank(S, y) => x = y
  <2> SUFFICES ASSUME NEW x \in S, NEW y \in S, Rank(S, x) = Rank(S, y) PROVE x = y
    OBVIOUS
  <2>1. ~ x.seq < y.seq /\ ~ y.seq < x.seq
    BY <1>2
  <2>2. x.seq \in Nat /\ y.seq \in Nat
    OBVIOUS
  <2> QED BY <2>1, <2>2
<1>4. there = {Renumbered(S, u, spec) : u \in below}
  BY <1>1, <1>2
<1>5. f \in [below -> there]
  BY <1>4
<1>6. \A x, y \in below : f[x] = f[y] => x = y
  BY <1>1, <1>3
<1>7. \A c \in there : \E u \in below : f[u] = c
  BY <1>4
<1> HIDE DEF f, below, there
<1>8. f \in Bijection(below, there)
  <2>1. DOMAIN f = below /\ IsInjective(f)
    BY <1>5, <1>6 DEF IsInjective
  <2> QED BY <1>5, <1>7, <2>1 DEF Bijection, Injection, Surjection
<1>9. ExistsBijection(below, there)
  BY <1>8 DEF ExistsBijection
<1>10. below \in SUBSET S
  BY DEF below
<1>11. IsFiniteSet(below)
  BY <1>10, FS_Subset
<1>12. Cardinality(there) = Cardinality(below)
  BY <1>9, <1>11, FS_Bijection
<1> QED BY <1>12 DEF Rank, below, there

\* A segment of the copy, and the segment of the archive or tail it is of.
LEMMA CopyOf ==
  ASSUME Inv, Filed, NEW spec \in CopySpecs, NEW e, NEW c \in Copied(spec, e)
  PROVE  \E src \in Sources, str \in spec.streams : \E s \in Taken(src, str, spec, e) :
           /\ c \in CopiedStream(src, str, spec, e) /\ str \in Streams
           /\ c = Renumbered(Taken(src, str, spec, e), s, spec)
           /\ s.src = src /\ s.str = str /\ s \in Choice(src, str, e)
           /\ c.src = src /\ c.str = str /\ c.seq = Rank(Taken(src, str, spec, e), s)
           /\ c.rows = s.rows /\ c.first = s.first /\ c.last = s.last
           /\ Describes(c) /\ HasData(c, spec) /\ Overlaps(c.first, c.last, spec)
<1>1. PICK src \in Sources, str \in spec.streams : c \in CopiedStream(src, str, spec, e)
  BY DEF Copied
<1>2. str \in Streams
  BY CopyAssumption
<1>3. PICK s \in Taken(src, str, spec, e) : c = Renumbered(Taken(src, str, spec, e), s, spec)
  BY <1>1, CopiedFromTaken
<1>4. s \in Choice(src, str, e)
  BY CopiedFromTaken
<1>5. s.src = src /\ s.str = str /\ Filled(s) /\ HasData(s, spec) /\ Overlaps(s.first, s.last, spec)
  BY <1>2, TakenInOrder
<1>6. /\ c.src = s.src /\ c.str = s.str /\ c.seq = Rank(Taken(src, str, spec, e), s)
      /\ c.rows = s.rows /\ c.first = s.first /\ c.last = s.last
      /\ Describes(c) /\ HasData(c, spec)
  BY <1>3, <1>5, RenumberedKeeps
<1> QED BY <1>1, <1>2, <1>3, <1>4, <1>5, <1>6

-----------------------------------------------------------------------------
\* CopyIsComplete of one file: what is in range of a stream is taken whole.
LEMMA CopyComplete ==
  ASSUME Inv, Filed, NEW spec \in CopySpecs, NEW e \in Written
  PROVE  LET there == SealedRows(Copied(spec, e)) IN
         /\ there \subseteq {r \in Readable(wal, segs) : r.str \in spec.streams}
         /\ \A r \in Readable(wal, segs) : r \in there \/ Excused(r, spec, e)
<1>1. \A r \in Readable(wal, segs) :
        /\ r.src \in Sources /\ r.str \in Streams /\ r.ts \in Timestamps
        /\ r = [src |-> r.src, str |-> r.str, ts |-> r.ts]
  BY DEF Readable, SealedRows, LiveWal, Inv, TypeOK, Row
<1>2. ASSUME NEW r \in SealedRows(Copied(spec, e))
      PROVE  r \in Readable(wal, segs) /\ r.str \in spec.streams
  <2>1. PICK c \in Copied(spec, e) : SameStream(c, r) /\ r.ts \in c.rows /\ r \in Row
    BY DEF SealedRows
  <2>2. PICK src \in Sources, str \in spec.streams : \E s \in Choice(src, str, e) :
          c.src = src /\ c.str = str /\ c.rows = s.rows /\ str \in Streams
    BY <2>1, CopyOf
  <2>3. r.ts \in RowsAt(TheFile, <<src, str>>)
    BY <2>1, <2>2, ChoiceInOrder
  <2>4. r = [src |-> src, str |-> str, ts |-> r.ts]
    BY <2>1, <2>2 DEF SameStream, Row
  <2> QED BY <2>2, <2>3, <2>4 DEF RowsAt, TheFile
<1>3. ASSUME NEW r \in Readable(wal, segs), ~ Excused(r, spec, e)
      PROVE  r \in SealedRows(Copied(spec, e))
  <2>1. PICK src \in Sources, str \in Streams, t \in Timestamps :
          r = [src |-> src, str |-> str, ts |-> t]
    BY <1>1
  <2>2. r.src = src /\ r.str = str /\ r.ts = t /\ r \in Row
    BY <2>1 DEF Row
  <2>3. t \in RowsAt(TheFile, <<src, str>>)
    BY <2>1 DEF RowsAt, TheFile
  <2>4. PICK s \in Choice(src, str, e) : t \in s.rows
    BY <2>3, ChoiceInOrder
  <2>5. /\ s.src = src /\ s.str = str /\ s.first <= t /\ t <= s.last
        /\ s.first \in Int /\ s.last \in Int /\ t \in Int /\ Filled(s)
    <3>1. \A x \in Choice(src, str, e) :
            /\ x.src = src /\ x.str = str /\ x.seq \in Nat /\ x.rows \subseteq Timestamps
            /\ \A y \in x.rows : x.first <= y /\ y <= x.last
            /\ Filled(x)
      BY ChoiceInOrder
    <3>2. /\ s.src = src /\ s.str = str /\ s.rows \subseteq Timestamps /\ Filled(s)
          /\ s.first <= t /\ t <= s.last
      BY <2>4, <3>1
    <3> QED BY <3>2, TimestampsAssumption DEF Filled
  <2>6. /\ str \in spec.streams /\ ~ t < spec.start /\ ~ spec.end < t /\ HasData(s, spec)
    BY <1>3, <2>2, <2>4 DEF Excused, Choice
  <2>7. Overlaps(s.first, s.last, spec)
    BY <2>5, <2>6, CopyAssumption DEF Overlaps
  <2>8. s \in Taken(src, str, spec, e)
    BY <2>6, <2>7, CopiedFromTaken
  <2>9. PICK c : c = Renumbered(Taken(src, str, spec, e), s, spec)
    OBVIOUS
  <2>10. c \in Copied(spec, e)
    BY <2>6, <2>8, <2>9, CopiedFromTaken DEF Copied
  <2>11. c.src = src /\ c.str = str /\ c.rows = s.rows
    BY <2>5, <2>6, <2>9, RenumberedKeeps
  <2> QED BY <2>2, <2>4, <2>10, <2>11 DEF SealedRows, SameStream
<1> QED BY <1>2, <1>3

LEMMA CopyDense ==
  ASSUME Inv, Filed, NEW spec \in CopySpecs, NEW e \in Written
  PROVE  Dense(Copied(spec, e))
<1> SUFFICES ASSUME NEW c \in Copied(spec, e)
             PROVE  c.seq = Cardinality({u \in Copied(spec, e) : SameStream(c, u) /\ u.seq < c.seq})
  BY DEF Dense
<1>1. PICK src \in Sources, str \in spec.streams : \E s \in Taken(src, str, spec, e) :
        str \in Streams /\ c.src = src /\ c.str = str /\ c.seq = Rank(Taken(src, str, spec, e), s)
  BY CopyOf
<1>2. PICK S : S = Taken(src, str, spec, e)
  OBVIOUS
<1>3. PICK s \in S : c.seq = Rank(S, s)
  BY <1>1, <1>2
<1>4. CopiedStream(src, str, spec, e) = {Renumbered(S, x, spec) : x \in S}
  BY <1>2, CopiedFromTaken
<1>5. Rank(S, s) = Cardinality({u \in CopiedStream(src, str, spec, e) : u.seq < Rank(S, s)})
  <2>1. /\ IsFiniteSet(S)
        /\ \A x \in S : x.seq \in Nat /\ Filled(x) /\ HasData(x, spec)
        /\ \A x, y \in S : x.seq = y.seq => x = y
    BY <1>1, <1>2, TakenInOrder
  <2> QED BY <1>4, <2>1, CopiedBefore
<1>6. \A u \in Copied(spec, e) : SameStream(c, u) => u \in CopiedStream(src, str, spec, e)
  <2> SUFFICES ASSUME NEW u \in Copied(spec, e), SameStream(c, u)
               PROVE  u \in CopiedStream(src, str, spec, e)
    OBVIOUS
  <2>1. PICK osrc \in Sources, ostr \in spec.streams :
          u \in CopiedStream(osrc, ostr, spec, e) /\ u.src = osrc /\ u.str = ostr
    BY CopyOf
  <2> QED BY <1>1, <2>1 DEF SameStream
<1>7. \A u \in CopiedStream(src, str, spec, e) : u \in Copied(spec, e) /\ SameStream(c, u)
  <2> SUFFICES ASSUME NEW x \in S
               PROVE  /\ Renumbered(S, x, spec) \in Copied(spec, e)
                      /\ SameStream(c, Renumbered(S, x, spec))
    BY <1>4
  <2>1. x.src = src /\ x.str = str /\ Filled(x) /\ HasData(x, spec)
    BY <1>1, <1>2, TakenInOrder
  <2>2. Renumbered(S, x, spec).src = src /\ Renumbered(S, x, spec).str = str
    BY <2>1, RenumberedKeeps
  <2> QED BY <1>1, <1>4, <2>2 DEF Copied, SameStream
<1>8. {u \in Copied(spec, e) : SameStream(c, u) /\ u.seq < c.seq}
        = {u \in CopiedStream(src, str, spec, e) : u.seq < c.seq}
  BY <1>6, <1>7
<1> QED BY <1>3, <1>5, <1>8

\* First and last row are least and greatest.
LEMMA EndsAreBounds ==
  ASSUME NEW rows, rows \subseteq Int, NEW a \in rows, NEW b \in rows,
         \A t \in rows : a <= t /\ t <= b
  PROVE  a = Min(rows) /\ b = Max(rows)
<1>1. \A x \in rows : (\A y \in rows : x <= y) => x = a
  <2> SUFFICES ASSUME NEW x \in rows, \A y \in rows : x <= y PROVE x = a
    OBVIOUS
  <2>1. x <= a /\ a <= x /\ a \in Int /\ x \in Int
    OBVIOUS
  <2> QED BY <2>1
<1>2. \A x \in rows : (\A y \in rows : x >= y) => x = b
  <2> SUFFICES ASSUME NEW x \in rows, \A y \in rows : x >= y PROVE x = b
    OBVIOUS
  <2>1. x >= b /\ x <= b /\ b \in Int /\ x \in Int
    OBVIOUS
  <2> QED BY <2>1
<1>3. \A y \in rows : b >= y
  <2> SUFFICES ASSUME NEW y \in rows PROVE b >= y
    OBVIOUS
  <2>1. y <= b /\ y \in Int /\ b \in Int
    OBVIOUS
  <2> QED BY <2>1
<1> QED BY <1>1, <1>2, <1>3 DEF Min, Max

LEMMA CopyArchive ==
  ASSUME Inv, Filed, NEW spec \in CopySpecs, NEW e \in Written, NEW c \in Copied(spec, e)
  PROVE  /\ c.first = Min(c.rows) /\ c.last = Max(c.rows) /\ Describes(c)
         /\ Overlaps(c.first, c.last, spec) /\ HasData(c, spec)
         /\ \A u \in Copied(spec, e) : SameStream(c, u) /\ c.seq < u.seq => c.last < u.first
<1>1. PICK src \in Sources, str \in spec.streams : \E s \in Taken(src, str, spec, e) :
         /\ str \in Streams /\ c.src = src /\ c.str = str
         /\ c.seq = Rank(Taken(src, str, spec, e), s)
         /\ c.rows = s.rows /\ c.first = s.first /\ c.last = s.last
         /\ Describes(c) /\ HasData(c, spec) /\ Overlaps(c.first, c.last, spec)
  BY CopyOf
<1>2. PICK S : S = Taken(src, str, spec, e)
  OBVIOUS
<1>3. PICK s \in S : /\ c.seq = Rank(S, s) /\ c.rows = s.rows
                     /\ c.first = s.first /\ c.last = s.last
  BY <1>1, <1>2
<1>4. /\ IsFiniteSet(S)
      /\ \A x \in S : /\ x.seq \in Nat /\ x.rows \subseteq Timestamps /\ Filled(x)
                      /\ \A t \in x.rows : x.first <= t /\ t <= x.last
      /\ \A x, y \in S : x.seq < y.seq => x.last < y.first
  BY <1>1, <1>2, TakenInOrder
<1>5. c.first = Min(c.rows) /\ c.last = Max(c.rows)
  <2>1. c.rows \subseteq Int /\ c.first \in c.rows /\ c.last \in c.rows
        /\ \A t \in c.rows : c.first <= t /\ t <= c.last
    BY <1>3, <1>4, TimestampsAssumption DEF Filled
  <2> QED BY <2>1, EndsAreBounds
<1>6. ASSUME NEW u \in Copied(spec, e), SameStream(c, u), c.seq < u.seq
      PROVE  c.last < u.first
  <2>1. PICK osrc \in Sources, ostr \in spec.streams : \E x \in Taken(osrc, ostr, spec, e) :
           /\ u.src = osrc /\ u.str = ostr /\ u.seq = Rank(Taken(osrc, ostr, spec, e), x)
           /\ u.first = x.first
    BY CopyOf
  <2>2. osrc = src /\ ostr = str
    BY <1>1, <1>6, <2>1 DEF SameStream
  <2>3. PICK x \in S : u.seq = Rank(S, x) /\ u.first = x.first
    BY <1>2, <2>1, <2>2
  <2>4. s.seq < x.seq
    BY <1>3, <1>4, <1>6, <2>3, RanksInOrder
  <2> QED BY <1>3, <1>4, <2>3, <2>4
<1> QED BY <1>1, <1>5, <1>6

\* There are finitely many segments, and each has a row and is described by what
\* it holds: what copies count and filter by.  (insert_segment)
THEOREM FileStaysFiled == Spec => [](Inv /\ Filed)
<1>1. Inv /\ Filed /\ [Next]_vars => (Inv /\ Filed)'
  BY NextInv, FiledKept
<1>2. Init => Inv /\ Filed
  BY InitInv, InitIsFiled
<1> QED BY <1>1, <1>2, PTL DEF Spec

(***************************************************************************)
(* A copy holds what can be read of the streams it was asked for, and      *)
(* every row the archive shows in its range, the live tail included, but   *)
(* for those of a segment with no column left: "never optional - only out  *)
(* of range".  (copy_sources_snapshotted)                                  *)
(***************************************************************************)
THEOREM CopiesAreComplete == Spec => []CopyIsComplete
<1>1. Inv /\ Filed => CopyIsComplete
  BY CopyComplete DEF CopyIsComplete
<1> QED BY <1>1, FileStaysFiled, PTL

(***************************************************************************)
(* A copy is an archive itself: each stream numbered from 0 without a      *)
(* hole, in the order of time, each segment's times those of its rows, and *)
(* no index beside columns it was not built over.                          *)
(* (copy_sources_snapshotted's renumbering)                                *)
(***************************************************************************)
THEOREM CopiesAreArchives == Spec => []CopyIsAnArchive
<1>1. Inv /\ Filed => CopyIsAnArchive
  BY CopyDense, CopyArchive DEF CopyIsAnArchive
<1> QED BY <1>1, FileStaysFiled, PTL

-----------------------------------------------------------------------------
(***************************************************************************)
(* How far a pass goes.  RowCount is a sum over a set: where no row is in  *)
(* two segments, it is the number of their rows.                           *)
(***************************************************************************)
RowsOf(run) == UNION {s.rows : s \in run}

Apart(run) ==
  /\ \A s \in run : s.rows \in SUBSET Timestamps
  /\ \A s, u \in run : s = u \/ s.rows \cap u.rows = {}

\* g adds up the segments of every part of the run.
Sums(run, g) ==
  g = [s \in SUBSET run |->
         IF s = {} THEN 0
         ELSE LET x == CHOOSE y \in s : TRUE IN Cardinality(x.rows) + g[s \ {x}]]

LEMMA RowsFinite ==
  ASSUME NEW run, Apart(run)
  PROVE  /\ IsFiniteSet(RowsOf(run)) /\ Cardinality(RowsOf(run)) \in Nat
         /\ RowsOf(run) \in SUBSET Timestamps
<1>1. RowsOf(run) \in SUBSET Timestamps /\ IsFiniteSet(Timestamps)
  BY CompactionAssumption DEF RowsOf, Apart
<1> QED BY <1>1, FS_Subset, FS_CardinalityType

\* One segment less are its rows less.
LEMMA OneLess ==
  ASSUME NEW run, Apart(run), NEW x \in run
  PROVE  Cardinality(RowsOf(run)) = Cardinality(x.rows) + Cardinality(RowsOf(run \ {x}))
<1>1. Apart(run \ {x}) /\ Apart({x})
  BY DEF Apart
<1>2. /\ IsFiniteSet(RowsOf(run \ {x})) /\ Cardinality(RowsOf(run \ {x})) \in Nat
      /\ IsFiniteSet(x.rows) /\ Cardinality(x.rows) \in Nat
  <2>1. RowsOf({x}) = x.rows
    BY DEF RowsOf
  <2> QED BY <1>1, <2>1, RowsFinite
<1>3. /\ RowsOf(run) = x.rows \cup RowsOf(run \ {x})
      /\ x.rows \cap RowsOf(run \ {x}) = {}
  BY DEF RowsOf, Apart
<1> DEFINE mine == x.rows
           rest == RowsOf(run \ {x})
<1> HIDE DEF mine, rest
<1>4. IsFiniteSet(mine) /\ IsFiniteSet(rest) /\ mine \cap rest = {}
  BY <1>2, <1>3 DEF mine, rest
<1>5. Cardinality(mine \cup rest) = Cardinality(mine) + Cardinality(rest) - Cardinality(mine \cap rest)
  BY <1>4, FS_Union
<1>6. Cardinality(mine) \in Nat /\ Cardinality(rest) \in Nat
  BY <1>4, FS_CardinalityType
<1>7. Cardinality(mine \cap rest) = 0
  BY <1>4, FS_EmptySet
<1>8. Cardinality(mine \cup rest) = Cardinality(mine) + Cardinality(rest)
  BY <1>5, <1>6, <1>7
<1> QED BY <1>3, <1>8 DEF mine, rest

\* The recursion of the fold has one solution, by well-founded descent on the
\* parts of a finite run.
LEMMA RowCountIs ==
  ASSUME NEW run, IsFiniteSet(run), Apart(run)
  PROVE  RowCount(run) = Cardinality(RowsOf(run))
<1> DEFINE P(g) == g = [s \in SUBSET run |->
             IF s = {} THEN 0
             ELSE LET x == CHOOSE y \in s : TRUE IN Cardinality(x.rows) + g[s \ {x}]]
           sum[s \in SUBSET run] ==
             IF s = {} THEN 0
             ELSE LET x == CHOOSE y \in s : TRUE IN Cardinality(x.rows) + sum[s \ {x}]
           pick(s) == CHOOSE y \in s : TRUE
           count == [s \in SUBSET run |-> Cardinality(RowsOf(s))]
<1>1. sum = CHOOSE g : P(g)
  OBVIOUS
<1>2. RowCount(run) = sum[run]
  BY DEF RowCount, MapThenSumSet, MapThenFoldSet
<1>3. \A g : P(g) <=> Sums(run, g)
  BY DEF Sums
<1> HIDE DEF P, sum
<1>4. \A s \in SUBSET run : s # {} => pick(s) \in s /\ s \ {pick(s)} \in SUBSET run
  OBVIOUS
<1>5. /\ Cardinality(RowsOf({})) = 0
      /\ \A s \in SUBSET run : s # {} =>
           Cardinality(RowsOf(s)) = Cardinality(pick(s).rows) + Cardinality(RowsOf(s \ {pick(s)}))
  <2>1. RowsOf({}) = {}
    BY DEF RowsOf
  <2>2. \A s \in SUBSET run : Apart(s)
    BY DEF Apart
  <2> HIDE DEF pick
  <2> QED BY <1>4, <2>1, <2>2, OneLess, FS_EmptySet
<1>6. Sums(run, count)
  <2>1. \A s \in SUBSET run :
          count[s] = IF s = {} THEN 0
                     ELSE Cardinality(pick(s).rows) + count[s \ {pick(s)}]
    <3> HIDE DEF pick
    <3> QED BY <1>4, <1>5
  <2> HIDE DEF count
  <2>2. count = [s \in SUBSET run |-> count[s]]
    BY DEF count
  <2> QED BY <2>1, <2>2 DEF Sums
<1>7. P(sum)
  BY <1>1, <1>3, <1>6
<1>8. \A s \in SUBSET run :
        sum[s] = IF s = {} THEN 0 ELSE Cardinality(pick(s).rows) + sum[s \ {pick(s)}]
  BY <1>7 DEF P
<1> HIDE DEF pick, count
<1> DEFINE T == {s \in SUBSET run : sum[s] # Cardinality(RowsOf(s))}
<1>9. T = {}
  <2> SUFFICES ASSUME T # {} PROVE FALSE
    OBVIOUS
  <2>1. IsWellFoundedOn(StrictSubsetOrdering(run), FiniteSubsetsOf(run))
    BY FS_StrictSubsetOrderingWellFounded
  <2>2. FiniteSubsetsOf(run) = SUBSET run
    BY FS_FiniteSubsetsOfFinite
  <2>3. T \subseteq SUBSET run
    OBVIOUS
  <2> HIDE DEF T
  <2>4. PICK s \in T : \A u \in T : ~ (<<u, s>> \in StrictSubsetOrdering(run))
    BY <2>1, <2>2, <2>3, WFMin
  <2>5. s \in SUBSET run /\ sum[s] # Cardinality(RowsOf(s))
    BY <2>4 DEF T
  <2>6. s # {}
    BY <1>5, <1>8, <2>5
  <2>7. s \ {pick(s)} \in SUBSET run /\ pick(s) \in s
    BY <1>4, <2>5, <2>6
  <2>8. s \ {pick(s)} \notin T
    <3> DEFINE less == s \ {pick(s)}
    <3>1. less \in SUBSET run /\ less \subseteq s /\ less # s
      BY <2>7
    <3> HIDE DEF less
    <3>2. <<less, s>> \in StrictSubsetOrdering(run)
      BY <2>5, <3>1 DEF StrictSubsetOrdering
    <3>3. less \notin T
      BY <2>4, <3>2
    <3> QED BY <3>3 DEF less
  <2>9. sum[s \ {pick(s)}] = Cardinality(RowsOf(s \ {pick(s)}))
    BY <2>7, <2>8 DEF T
  <2> QED BY <1>5, <1>8, <2>5, <2>6, <2>9
<1> QED BY <1>2, <1>9

-----------------------------------------------------------------------------
\* A pass's stream is a run of segments with no row in two of them.
LEMMA StreamApart ==
  ASSUME Inv, Filed, NEW run \in SUBSET segs, \A s, u \in run : SameStream(s, u)
  PROVE  IsFiniteSet(run) /\ Apart(run) /\ RowCount(run) = Cardinality(RowsOf(run))
<1>1. IsFiniteSet(run)
  BY FS_Subset DEF Filed
<1>2. Apart(run)
  BY SealedOnce DEF Apart, Inv, TypeOK
<1> QED BY <1>1, <1>2, RowCountIs

\* What a pass counts up to a segment is how many rows there are.
LEMMA UptoApart ==
  ASSUME Inv, Filed, Running, NEW v \in pass.ahead
  PROVE  /\ Upto(v) \in SUBSET segs /\ v \in Upto(v)
         /\ Apart(Upto(v))
         /\ RowCount(Upto(v)) = Cardinality(RowsOf(Upto(v)))
<1>1. /\ Upto(v) \in SUBSET segs /\ v.seq \in Nat
      /\ \A s, u \in Upto(v) : SameStream(s, u)
  BY DEF Upto, Inv, TypeOK, Ahead
<1> QED BY <1>1, StreamApart DEF Upto

\* A part of a run has no more rows.
LEMMA FewerRows ==
  ASSUME NEW run, Apart(run), NEW part \in SUBSET run
  PROVE  Cardinality(RowsOf(part)) <= Cardinality(RowsOf(run))
<1>1. IsFiniteSet(RowsOf(run)) /\ RowsOf(part) \in SUBSET RowsOf(run)
  BY RowsFinite DEF RowsOf
<1> QED BY <1>1, FS_Subset

\* What is merged fits the target.
LEMMA MergedFits ==
  ASSUME Inv, Filed, Running, Consumed # {}
  PROVE  Cardinality(RowsOf(Consumed)) <= AtLeastOne(pass.target)
<1> DEFINE l == Last(Consumed)
<1>1. /\ Consumed \subseteq pass.ahead /\ pass.ahead \subseteq segs /\ Bounded(segs)
      /\ \A s \in Consumed, u \in pass.ahead : u.seq <= s.seq => u \in Consumed
  BY ConsumedIsPrefix DEF Inv, TypeOK
<1>2. l \in Consumed /\ \A u \in Consumed : u.seq <= l.seq
  <2>1. Consumed \subseteq segs
    BY <1>1
  <2> QED BY <1>1, <2>1, FirstLast
<1> HIDE DEF l
<1>3. Upto(l) = Consumed
  BY <1>1, <1>2 DEF Upto
<1>4. l \in pass.ahead /\ l \in Upto(l)
  BY <1>1, <1>2, <1>3
<1>5. RowCount(Upto(l)) <= AtLeastOne(pass.target)
  BY <1>2, <1>4 DEF Consumed, Planned
<1>6. RowCount(Upto(l)) = Cardinality(RowsOf(Upto(l)))
  BY <1>4, UptoApart
<1> QED BY <1>3, <1>5, <1>6

(***************************************************************************)
(* Where the run ends although the next segment is like its first, it ends *)
(* for the target.                                                         *)
(***************************************************************************)
LEMMA NextIsTooMany ==
  ASSUME Inv, Filed, Running, pass.schema = "StopAtChange", pass.merge = "Identical",
         pass.target \in Nat, NEW g \in pass.ahead, g \notin Consumed,
         g # First(pass.ahead),
         \A u \in pass.ahead : u.seq < g.seq => u \in Consumed \/ u = First(pass.ahead),
         g.fields = First(pass.ahead).fields, g.kv = First(pass.ahead).kv
  PROVE  Cardinality(RowsOf(Consumed \cup {First(pass.ahead), g})) > AtLeastOne(pass.target)
<1> DEFINE f == First(pass.ahead)
<1>1. f \in pass.ahead /\ \A u \in pass.ahead : f.seq <= u.seq
  BY FirstLast DEF Inv, TypeOK
<1>2. /\ Consumed \subseteq pass.ahead /\ pass.ahead \subseteq segs
      /\ \A s \in Consumed, u \in pass.ahead : u.seq <= s.seq => u \in Consumed
  BY ConsumedIsPrefix DEF Inv, TypeOK
<1> HIDE DEF f
<1>3. \A s \in pass.ahead : s.seq \in Nat
  BY <1>2 DEF Inv, TypeOK
<1>4. Upto(g) = Consumed \cup {f, g}
  <2>1. ASSUME NEW u \in pass.ahead, u.seq <= g.seq PROVE u \in Consumed \cup {f, g}
    <3>1. CASE u.seq < g.seq
      BY <2>1, <3>1 DEF f
    <3>2. CASE u.seq = g.seq
      BY <1>2, <2>1, <3>2 DEF Inv, Ordered, Ahead
    <3> QED BY <1>3, <2>1, <3>1, <3>2
  <2>2. ASSUME NEW u \in Consumed \cup {f, g} PROVE u \in pass.ahead /\ u.seq <= g.seq
    BY <1>1, <1>2, <1>3, <2>2
  <2> QED BY <2>1, <2>2 DEF Upto
<1>5. \A v \in Upto(g) : Admits(v)
  <2>1. \A v : v.fields = f.fields /\ v.kv = f.kv => Admits(v)
    BY DEF Admits, f
  <2>2. ASSUME NEW v \in Consumed PROVE Admits(v)
    BY <1>2, <1>3, <2>2 DEF Consumed, Upto
  <2> QED BY <1>4, <2>1, <2>2 DEF f
<1>6. g \notin Planned
  BY <1>5 DEF Consumed
<1>7. PICK v \in Upto(g) : ~ (RowCount(Upto(v)) <= AtLeastOne(pass.target))
  BY <1>6 DEF Planned
<1>8. v \in pass.ahead /\ Upto(v) \in SUBSET Upto(g)
  BY <1>3, <1>7 DEF Upto
<1>9. /\ RowCount(Upto(v)) = Cardinality(RowsOf(Upto(v)))
      /\ Cardinality(RowsOf(Upto(v))) <= Cardinality(RowsOf(Upto(g)))
      /\ Cardinality(RowsOf(Upto(v))) \in Nat /\ Cardinality(RowsOf(Upto(g))) \in Nat
  BY <1>8, UptoApart, FewerRows, RowsFinite
<1>10. AtLeastOne(pass.target) \in Nat
  BY DEF AtLeastOne
<1> QED BY <1>4, <1>7, <1>9, <1>10 DEF f

-----------------------------------------------------------------------------
(***************************************************************************)
(* What a pass leaves behind it is settled: what it has written fits, and, *)
(* if it stops at every change, no segment it has passed could be merged   *)
(* with the next, passed or ahead.                                         *)
(***************************************************************************)
Differ(s, u) ==
  \/ s.fields # u.fields \/ s.kv # u.kv
  \/ Cardinality(s.rows \cup u.rows) > AtLeastOne(pass.target)

Stops == pass.schema = "StopAtChange" /\ pass.merge = "Identical"

Passed(s) == StreamOf(s) \in pass.keys \ pass.left /\ s \notin pass.ahead

Settled ==
  Running =>
    /\ pass.target \in Nat
    /\ \A s \in pass.out : Cardinality(s.rows) <= AtLeastOne(pass.target)
    /\ Stops => \A s, u \in segs : Passed(s) /\ Neighbours(s, u) => Differ(s, u)

LEMMA SkipSettles ==
  ASSUME Inv, Filed, Settled, Skip
  PROVE  Settled'
<1> DEFINE f == First(pass.ahead)
<1>1. /\ Running /\ pass.ahead # {} /\ Cardinality(Consumed) < 2
      /\ UNCHANGED segs
      /\ pass'.target = pass.target /\ pass'.out = pass.out
      /\ pass'.schema = pass.schema /\ pass'.merge = pass.merge
      /\ pass'.keys = pass.keys /\ pass'.left = pass.left
      /\ pass'.ahead = pass.ahead \ {f}
  BY DEF Skip, Inv, PassShape
<1>2. f \in pass.ahead /\ \A u \in pass.ahead : f.seq <= u.seq
  BY <1>1, FirstLast DEF Inv, TypeOK
<1>3. /\ Consumed \subseteq pass.ahead /\ pass.ahead \subseteq segs
      /\ \A s \in Consumed, u \in pass.ahead : u.seq <= s.seq => u \in Consumed
  BY <1>1, ConsumedIsPrefix DEF Inv, TypeOK
<1>4. Consumed \subseteq {f}
  <2> SUFFICES ASSUME NEW u \in Consumed, u # f PROVE FALSE
    OBVIOUS
  <2>1. f \in Consumed
    BY <1>2, <1>3
  <2>2. IsFiniteSet(Consumed)
    <3>1. Consumed \in SUBSET segs
      BY <1>3
    <3> QED BY <3>1, FS_Subset DEF Filed
  <2>3. {f, u} \in SUBSET Consumed
    BY <2>1
  <2>4. Cardinality({f, u}) = 2
    <3>1. IsFiniteSet({f}) /\ Cardinality({f}) = 1
      BY FS_Singleton
    <3>2. Cardinality({f} \cup {u}) = Cardinality({f}) + 1
      BY <3>1, FS_AddElement
    <3>3. {f} \cup {u} = {f, u}
      OBVIOUS
    <3> QED BY <3>1, <3>2, <3>3
  <2>5. Cardinality({f, u}) <= Cardinality(Consumed) /\ Cardinality(Consumed) \in Nat
    BY <2>2, <2>3, FS_Subset, FS_CardinalityType
  <2> QED BY <1>1, <2>4, <2>5
<1>5. ASSUME Stops, NEW u \in segs, Neighbours(f, u) PROVE Differ(f, u)
  <2> SUFFICES ASSUME f.fields = u.fields, f.kv = u.kv
               PROVE  Cardinality(f.rows \cup u.rows) > AtLeastOne(pass.target)
    BY DEF Differ
  <2>1. \A s \in segs : s.seq \in Nat
    BY DEF Inv, TypeOK
  <2>2. SameStream(f, u) /\ f.seq < u.seq
    BY <1>5 DEF Neighbours
  <2>3. u \in pass.ahead /\ u # f /\ u \notin Consumed
    BY <1>1, <1>2, <1>3, <1>4, <2>1, <2>2 DEF Inv, Ahead
  <2>4. ASSUME NEW x \in pass.ahead, x.seq < u.seq PROVE x = f
    <3>1. SameStream(f, x) /\ x \in segs
      BY <1>1, <1>2, <1>3 DEF Inv, Ahead
    <3>2. x.seq <= f.seq
      BY <1>3, <1>5, <2>1, <2>3, <2>4, <3>1 DEF Neighbours
    <3>3. x.seq = f.seq
      BY <1>2, <1>3, <2>1, <3>1, <3>2
    <3> QED BY <1>2, <1>3, <3>1, <3>3 DEF Inv, Ordered
  <2>5. Cardinality(RowsOf(Consumed \cup {f, u})) > AtLeastOne(pass.target)
    BY <1>1, <1>5, <2>3, <2>4, NextIsTooMany DEF Settled, Stops
  <2>6. RowsOf(Consumed \cup {f, u}) = f.rows \cup u.rows
    BY <1>4 DEF RowsOf
  <2> QED BY <2>5, <2>6
<1> HIDE DEF f
<1>6. ASSUME Stops, NEW s \in segs, NEW u \in segs, Passed(s)', Neighbours(s, u)
      PROVE  Differ(s, u)
  <2>1. CASE s = f
    BY <1>5, <1>6, <2>1
  <2>2. CASE s # f
    <3>1. Passed(s)
      BY <1>1, <1>6, <2>2 DEF Passed
    <3> QED BY <1>1, <1>6, <3>1 DEF Settled
  <2> QED BY <2>1, <2>2
<1>7. /\ \A s, u : Differ(s, u)' <=> Differ(s, u)
      /\ \A s, u : Neighbours(s, u)' <=> Neighbours(s, u)
      /\ Stops' <=> Stops
  BY <1>1 DEF Differ, Neighbours, Stops
<1> QED BY <1>1, <1>6, <1>7 DEF Settled

LEMMA NextStreamSettles ==
  ASSUME Inv, Settled, NEW key \in Key, NextStream(key)
  PROVE  Settled'
<1>1. /\ Running /\ pass.ahead = {} /\ UNCHANGED segs
      /\ pass'.target = pass.target /\ pass'.out = pass.out
      /\ pass'.schema = pass.schema /\ pass'.merge = pass.merge
      /\ pass'.keys = pass.keys /\ pass'.left = pass.left \ {key}
      /\ pass'.ahead = StreamSegments(segs, key[1], key[2])
  BY DEF NextStream, Inv, PassShape
<1>2. ASSUME NEW s \in segs, Passed(s)' PROVE Passed(s)
  <2>1. StreamOf(s) # key
    BY <1>1, <1>2 DEF Passed, StreamOf, StreamSegments
  <2> QED BY <1>1, <1>2, <2>1 DEF Passed
<1>3. /\ \A s, u : Differ(s, u)' <=> Differ(s, u)
      /\ \A s, u : Neighbours(s, u)' <=> Neighbours(s, u)
      /\ Stops' <=> Stops
  BY <1>1 DEF Differ, Neighbours, Stops
<1> QED BY <1>1, <1>2, <1>3 DEF Settled

LEMMA MergeSettles ==
  ASSUME Inv, Filed, Settled, Merge
  PROVE  Settled'
<1> DEFINE run == Consumed
           m == Merged(Consumed)
           f == First(pass.ahead)
<1>1. /\ Running /\ run # {} /\ segs' = (segs \ run) \cup {m}
      /\ pass'.target = pass.target /\ pass'.out = pass.out \cup {m}
      /\ pass'.schema = pass.schema /\ pass'.merge = pass.merge
      /\ pass'.keys = pass.keys /\ pass'.left = pass.left
      /\ pass'.ahead = pass.ahead \ run
  BY SomeConsumed DEF Merge, Inv, PassShape
<1>2. /\ run \subseteq pass.ahead /\ pass.ahead \subseteq segs
      /\ \A s \in run, u \in pass.ahead : u.seq <= s.seq => u \in run
  BY <1>1, ConsumedIsPrefix DEF Inv, TypeOK
<1>3. f \in run /\ \A u \in pass.ahead : f.seq <= u.seq
  <2>1. f \in pass.ahead /\ \A u \in pass.ahead : f.seq <= u.seq
    BY <1>1, <1>2, FirstLast DEF Inv
  <2> HIDE DEF f
  <2> QED BY <1>1, <1>2, <2>1
<1>4. /\ m.rows = RowsOf(run)
      /\ \A s \in run : SameStream(s, m) /\ m.seq <= s.seq
      /\ m.seq \in Nat /\ m.rows \in SUBSET Timestamps
  <2>1. /\ m.rows = RowsOf(run) /\ m.seq \in Nat
        /\ \A s \in run : SameStream(s, m) /\ m.seq <= s.seq
    BY <1>1, MergedInPlace DEF RowsOf
  <2>2. RowsOf(run) \in SUBSET Timestamps
    BY <1>2 DEF RowsOf, Inv, TypeOK
  <2> QED BY <2>1, <2>2
<1>5. Stops => m.fields = f.fields /\ m.kv = f.kv
  <2>1. f \in segs /\ f \in Consumed
    BY <1>2, <1>3
  <2> QED BY <2>1, MergeKeepsColumns DEF Stops
<1>6. \A s \in segs : s.seq \in Nat
  BY DEF Inv, TypeOK
<1>7. m.seq = f.seq
  <2>1. m.seq = First(run).seq /\ First(run) \in run
    <3>1. run \subseteq segs /\ run # {} /\ Bounded(segs)
      BY <1>1, <1>2 DEF Inv
    <3> QED BY <3>1, FirstLast DEF Merged
  <2>2. m.seq <= f.seq /\ f.seq <= m.seq
    BY <1>2, <1>3, <1>4, <2>1
  <2> QED BY <1>2, <1>3, <1>4, <1>6, <2>2
<1>8. Cardinality(m.rows) <= AtLeastOne(pass.target)
  BY <1>1, <1>4, MergedFits
<1> HIDE DEF run, m, f
<1>9. ASSUME NEW s \in segs \ run, NEW u \in segs \ run, Neighbours(s, u)', s \notin pass.ahead
      PROVE  Neighbours(s, u)
  <2>1. SameStream(s, u) /\ s.seq < u.seq
    BY <1>9 DEF Neighbours
  <2>2. ASSUME NEW v \in segs, SameStream(s, v) PROVE v.seq <= s.seq \/ u.seq <= v.seq
    <3>1. CASE v \in run
      <4>1. m \in segs' /\ SameStream(s, m)
        BY <1>1, <1>4, <2>2, <3>1 DEF SameStream
      <4>2. m.seq <= s.seq \/ u.seq <= m.seq
        BY <1>9, <4>1 DEF Neighbours
      <4>3. ~ (f.seq <= s.seq)
        <5> SUFFICES ASSUME f.seq <= s.seq PROVE FALSE
          OBVIOUS
        <5>1. SameStream(f, s) /\ f \in pass.ahead
          BY <1>1, <1>2, <1>3, <1>4, <4>1 DEF SameStream
        <5> QED BY <1>1, <1>9, <5>1 DEF Inv, Ahead
      <4>4. u.seq <= f.seq /\ f.seq <= v.seq
        BY <1>2, <1>3, <1>7, <3>1, <4>2, <4>3
      <4> QED BY <1>2, <1>3, <1>6, <3>1, <4>4
    <3>2. CASE v \notin run
      <4>1. v \in segs'
        BY <1>1, <3>2
      <4> QED BY <1>9, <2>2, <4>1 DEF Neighbours
    <3> QED BY <3>1, <3>2
  <2> QED BY <2>1, <2>2 DEF Neighbours
<1>10. ASSUME Stops, NEW s \in segs \ run, NEW u, u = m, Passed(s), Neighbours(s, u)'
       PROVE  Differ(s, u)
  <2>1. SameStream(s, m) /\ s.seq < m.seq
    BY <1>10 DEF Neighbours
  <2>2. SameStream(s, f) /\ s.seq < f.seq
    BY <1>3, <1>4, <1>7, <2>1 DEF SameStream
  <2>3. ASSUME NEW v \in segs, SameStream(s, v) PROVE v.seq <= s.seq \/ f.seq <= v.seq
    <3>1. CASE v \in run
      BY <1>2, <1>3, <3>1
    <3>2. CASE v \notin run
      <4>1. v \in segs'
        BY <1>1, <3>2
      <4> QED BY <1>7, <1>10, <2>3, <4>1 DEF Neighbours
    <3> QED BY <3>1, <3>2
  <2>4. Differ(s, f)
    <3>1. f \in segs /\ Neighbours(s, f)
      BY <1>2, <1>3, <2>2, <2>3 DEF Neighbours
    <3> QED BY <1>1, <1>10, <3>1 DEF Settled
  <2>5. Cardinality(s.rows \cup f.rows) <= Cardinality(s.rows \cup m.rows)
    <3>1. s.rows \cup m.rows \in SUBSET Timestamps /\ IsFiniteSet(Timestamps)
      BY <1>4, CompactionAssumption DEF Inv, TypeOK
    <3>2. IsFiniteSet(s.rows \cup m.rows)
      BY <3>1, FS_Subset
    <3>3. s.rows \cup f.rows \in SUBSET (s.rows \cup m.rows)
      BY <1>3, <1>4 DEF RowsOf
    <3> QED BY <3>2, <3>3, FS_Subset
  <2>6. /\ Cardinality(s.rows \cup f.rows) \in Nat /\ Cardinality(s.rows \cup m.rows) \in Nat
        /\ AtLeastOne(pass.target) \in Nat
    <3>1. /\ s.rows \cup m.rows \in SUBSET Timestamps /\ IsFiniteSet(Timestamps)
          /\ s.rows \cup f.rows \in SUBSET Timestamps
      BY <1>2, <1>3, <1>4, CompactionAssumption DEF Inv, TypeOK
    <3>2. pass.target \in Nat
      BY <1>1 DEF Settled
    <3>3. AtLeastOne(pass.target) \in Nat
      BY <3>2 DEF AtLeastOne
    <3> QED BY <3>1, <3>3, FS_Subset, FS_CardinalityType
  <2> QED BY <1>5, <1>10, <2>4, <2>5, <2>6 DEF Differ
<1>11. ASSUME Stops, NEW s, s = m, NEW u \in segs \ run, Neighbours(s, u)'
       PROVE  Differ(s, u)
  <2> SUFFICES ASSUME m.fields = u.fields, m.kv = u.kv
               PROVE  Cardinality(m.rows \cup u.rows) > AtLeastOne(pass.target)
    BY <1>11 DEF Differ
  <2>1. SameStream(m, u) /\ m.seq < u.seq
    BY <1>11 DEF Neighbours
  <2>2. SameStream(f, u) /\ f.seq < u.seq
    BY <1>3, <1>4, <1>7, <2>1 DEF SameStream
  <2>3. u \in pass.ahead /\ u # f
    BY <1>1, <1>2, <1>3, <1>6, <2>2 DEF Inv, Ahead
  <2>4. ASSUME NEW x \in pass.ahead, x.seq < u.seq PROVE x \in run
    <3> SUFFICES ASSUME x \notin run PROVE FALSE
      OBVIOUS
    <3>1. x \in segs' /\ SameStream(m, x) /\ SameStream(f, x)
      BY <1>1, <1>2, <1>3, <1>4 DEF Inv, Ahead, SameStream
    <3>2. x.seq <= f.seq
      BY <1>2, <1>6, <1>7, <1>11, <2>3, <2>4, <3>1 DEF Neighbours
    <3> QED BY <1>2, <1>3, <3>2
  <2>5. Cardinality(RowsOf(Consumed \cup {First(pass.ahead), u})) > AtLeastOne(pass.target)
    <3>1. u \notin Consumed /\ u # First(pass.ahead) /\ u \in pass.ahead
      BY <2>3 DEF run, f
    <3>2. \A x \in pass.ahead : x.seq < u.seq => x \in Consumed
      BY <2>4 DEF run
    <3>3. u.fields = First(pass.ahead).fields /\ u.kv = First(pass.ahead).kv
      BY <1>5, <1>11 DEF f
    <3>4. pass.target \in Nat /\ Running
      BY <1>1 DEF Settled
    <3> QED BY <1>11, <3>1, <3>2, <3>3, <3>4, NextIsTooMany DEF Stops
  <2>6. RowsOf(Consumed \cup {First(pass.ahead), u}) = m.rows \cup u.rows
    <3>1. Consumed \cup {First(pass.ahead), u} = run \cup {u}
      BY <1>3 DEF run, f
    <3>2. RowsOf(run \cup {u}) = m.rows \cup u.rows
      BY <1>4 DEF RowsOf
    <3> QED BY <3>1, <3>2
  <2> QED BY <2>5, <2>6
<1>12. ASSUME Stops, NEW s \in segs', NEW u \in segs', Passed(s)', Neighbours(s, u)'
       PROVE  Differ(s, u)
  <2>1. CASE s \in segs \ run
    <3>1. Passed(s) /\ s \notin pass.ahead
      BY <1>1, <1>12, <2>1 DEF Passed
    <3>2. CASE u \in segs \ run
      <4>1. Neighbours(s, u)
        BY <1>9, <1>12, <2>1, <3>1, <3>2
      <4> QED BY <1>1, <1>12, <2>1, <3>1, <3>2, <4>1 DEF Settled
    <3>3. CASE u = m
      BY <1>10, <1>12, <2>1, <3>1, <3>3
    <3> QED BY <1>1, <3>2, <3>3
  <2>2. CASE s = m
    <3>1. s.seq < u.seq /\ s.seq \in Nat
      BY <1>4, <1>12, <2>2 DEF Neighbours
    <3>2. u \in segs \ run
      BY <1>1, <2>2, <3>1
    <3> QED BY <1>11, <1>12, <2>2, <3>2
  <2> QED BY <1>1, <2>1, <2>2
<1>13. /\ \A s, u : Differ(s, u)' <=> Differ(s, u)
       /\ Stops' <=> Stops
  BY <1>1 DEF Differ, Stops
<1>14. \A s \in pass'.out : Cardinality(s.rows) <= AtLeastOne(pass'.target)
  BY <1>1, <1>8 DEF Settled
<1> QED BY <1>1, <1>12, <1>13, <1>14 DEF Settled

LEMMA NextSettles == Inv /\ Filed /\ Settled /\ [Next]_vars => Settled'
<1> SUFFICES ASSUME Inv, Filed, Settled, [Next]_vars PROVE Settled'
  OBVIOUS
<1>1. CASE UNCHANGED vars
  BY <1>1 DEF vars, Settled, Running, Stops, Passed, Neighbours, Differ
<1>2. CASE WriterNext
  <2>1. ~ Running'
    BY <1>2 DEF WriterNext, Tick, Seal, Prune, Evict, Running
  <2> QED BY <2>1 DEF Settled
<1>3. ASSUME NEW keys \in {Key} \cup {{k} : k \in Key}, NEW target \in Targets,
             NEW p \in Policies, Begin(keys, target, p[1], p[2])
      PROVE  Settled'
  <2>1. /\ pass'.keys = keys /\ pass'.left = keys /\ pass'.out = {}
        /\ pass'.target = target /\ target \in Nat
    BY <1>3, CompactionAssumption DEF Begin
  <2> QED BY <2>1 DEF Settled, Passed
<1>4. CASE Finish \/ Abort
  <2>1. pass'.at \in {"none", "done"}
    BY <1>4, NoPassShape DEF Finish, Abort
  <2>2. ~ Running'
    BY <2>1 DEF Running
  <2> QED BY <2>2 DEF Settled
<1> QED BY <1>1, <1>2, <1>3, <1>4, SkipSettles, MergeSettles, NextStreamSettles
        DEF Next, PassNext

(***************************************************************************)
(* A finished pass has merged as far as its target allows and no further,  *)
(* for any segments, targets and policies and whatever it has skipped and  *)
(* merged on the way.  (compact_stream_with, CompactSpec)                  *)
(***************************************************************************)
THEOREM PassesAreMaximal == Spec => PassIsMaximal
<1> DEFINE Maximal ==
      Completes =>
        /\ \A s \in pass.out : Cardinality(s.rows) <= AtLeastOne(pass.target)
        /\ pass.schema = "StopAtChange" /\ pass.merge = "Identical" => NothingLeftToMerge
<1>1. Init => Settled
  BY DEF Init, Settled, Running, NoPass
<1>2. Inv /\ Filed /\ Settled /\ [Next]_vars => [Maximal]_vars
  <2> SUFFICES ASSUME Inv, Filed, Settled, Next, Completes
               PROVE  /\ \A s \in pass.out : Cardinality(s.rows) <= AtLeastOne(pass.target)
                      /\ Stops => NothingLeftToMerge
    BY DEF Stops
  <2>1. Running /\ pass.left = {} /\ pass.ahead = {}
    <3>1. Running /\ pass'.at = "done"
      BY DEF Completes
    <3>2. ~ (Skip \/ Merge \/ \E key \in Key : NextStream(key))
      BY <3>1 DEF Skip, Merge, NextStream, Inv, PassShape, Running
    <3>3. ~ Abort
      BY <3>1 DEF Abort, NoPass
    <3>4. ~ WriterNext
      BY <3>1 DEF WriterNext, Tick, Seal, Prune, Evict
    <3>5. \A keys, target, schema, merge : ~ Begin(keys, target, schema, merge)
      BY <3>1 DEF Begin
    <3> QED BY <3>1, <3>2, <3>3, <3>4, <3>5 DEF Next, PassNext, Finish
  <2>2. ASSUME Stops, NEW s \in segs, NEW u \in segs, StreamOf(s) \in pass.keys,
               Neighbours(s, u), s.fields = u.fields, s.kv = u.kv
        PROVE  RowCount({s, u}) > AtLeastOne(pass.target)
    <3>1. Cardinality(s.rows \cup u.rows) > AtLeastOne(pass.target)
      BY <2>1, <2>2 DEF Settled, Passed, Differ
    <3>2. RowCount({s, u}) = Cardinality(RowsOf({s, u}))
      <4>1. {s, u} \in SUBSET segs /\ \A x, y \in {s, u} : SameStream(x, y)
        BY <2>2 DEF Neighbours, SameStream
      <4> QED BY <4>1, StreamApart
    <3>3. RowsOf({s, u}) = s.rows \cup u.rows
      BY DEF RowsOf
    <3> QED BY <3>1, <3>2, <3>3
  <2> QED BY <2>1, <2>2 DEF Settled, NothingLeftToMerge
<1> QED BY <1>1, <1>2, NextSettles, FileStaysFiled, PTL DEF Spec, PassIsMaximal
=============================================================================
