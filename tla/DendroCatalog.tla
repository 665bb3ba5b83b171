--------------------------- MODULE DendroCatalog ---------------------------
(***************************************************************************)
(* What one dendro archive file holds, and what its queries answer.        *)
(*                                                                         *)
(* A row is a record [src, str, ts]: source, stream and timestamp are the  *)
(* primary key of the wal table, and a payload is never looked at, so the  *)
(* key is the row.  A segment is a record                                  *)
(*                                                                         *)
(*    [src, str, seq, first, last, rows]                                   *)
(*                                                                         *)
(* whose first five fields are the catalog columns of the segments table   *)
(* and whose last is the set of timestamps inside its (opaque) bytes.      *)
(*                                                                         *)
(* The operators take the tables as arguments: the writer thread, a        *)
(* retention pass and a reader's snapshot all ask the same questions.      *)
(* A timestamp is an i64; NoTs, an integer below every timestamp, stands   *)
(* for None where the code keeps an Option<i64>.                           *)
(***************************************************************************)
EXTENDS Integers

CONSTANTS Sources,     \* ids of the sources table
          Streams,     \* stream names
          Timestamps,  \* row timestamps
          NoTs         \* None: no watermark, no floor

ASSUME TimestampsAssumption ==
  /\ Timestamps \subseteq Int
  /\ NoTs \in Int
  /\ \A t \in Timestamps : NoTs < t

Row == [src : Sources, str : Streams, ts : Timestamps]

Segment == [src : Sources, str : Streams, seq : Nat, first : Timestamps,
            last : Timestamps, rows : SUBSET Timestamps]

SameStream(x, y) == x.src = y.src /\ x.str = y.str

(***************************************************************************)
(* The recovery rule, LIVE_WAL_PREDICATE: a WAL row is live iff it is past *)
(* every sealed row of its own stream in its own source.  The quantifier   *)
(* covers both disjuncts of the SQL: past MAX(last_ts), or no segment.     *)
(***************************************************************************)
IsLive(r, segs) == \A s \in segs : SameStream(s, r) => s.last < r.ts

LiveWal(wal, segs) == {r \in wal : IsLive(r, segs)}

LiveTimes(wal, segs, src, str) ==
  {t \in Timestamps : \E r \in LiveWal(wal, segs) :
                         r.src = src /\ r.str = str /\ r.ts = t}

SealedRows(segs) ==
  {r \in Row : \E s \in segs : SameStream(s, r) /\ r.ts \in s.rows}

(***************************************************************************)
(* What a read returns: every sealed segment, then the live tail.          *)
(***************************************************************************)
Readable(wal, segs) == SealedRows(segs) \cup LiveWal(wal, segs)

(***************************************************************************)
(* sealed_watermarks and next_seqs: the two GROUP BY queries a reopened    *)
(* writer seeds its caches from, MAX(last_ts) and MAX(seq) + 1.            *)
(***************************************************************************)
StreamSegments(segs, src, str) == {s \in segs : s.src = src /\ s.str = str}

IsWatermark(segs, src, str, w) ==
  LET mine == StreamSegments(segs, src, str)
  IN  /\ \A s \in mine : s.last <= w
      /\ IF mine = {} THEN w = NoTs ELSE \E s \in mine : s.last = w

\* A slip: MAX(seq) where MAX(seq) + 1 is meant.
IsNextSeqReused(segs, src, str, n) ==
  LET mine == StreamSegments(segs, src, str)
  IN  /\ \A s \in mine : s.seq <= n
      /\ IF mine = {} THEN n = 0 ELSE \E s \in mine : n = s.seq

IsNextSeq(segs, src, str, n) ==
  LET mine == StreamSegments(segs, src, str)
  IN  /\ \A s \in mine : s.seq < n
      /\ IF mine = {} THEN n = 0 ELSE \E s \in mine : n = s.seq + 1

(***************************************************************************)
(* source_time_span's last_ts: the newest row of a source over its         *)
(* segments and its live WAL rows; None for a source that holds neither.   *)
(***************************************************************************)
IsNewestRow(wal, segs, src, w) ==
  LET ends == {s.last : s \in {x \in segs : x.src = src}}
                 \cup {r.ts : r \in {x \in LiveWal(wal, segs) : x.src = src}}
  IN  /\ \A t \in ends : t <= w
      /\ IF ends = {} THEN w = NoTs ELSE w \in ends

(***************************************************************************)
(* oldest_row: the oldest timestamp a stream still holds, a segment's      *)
(* first_ts or any WAL row, shadowed ones included.                        *)
(***************************************************************************)
Starts(wal, segs, src, strs) ==
  {s.first : s \in {x \in segs : x.src = src /\ x.str \in strs}}
     \cup {r.ts : r \in {x \in wal : x.src = src /\ x.str \in strs}}

(***************************************************************************)
(* The deletes of one retention pass over the streams strs of a source.    *)
(* A segment goes only when its newest row is before the cutoff, so a      *)
(* segment that spans the cutoff is kept whole.                            *)
(***************************************************************************)

EvictedSegments(segs, src, strs, cutoff) ==
  {s \in segs : s.src = src /\ s.str \in strs /\ s.last < cutoff}

\* A slip: retention leaves the WAL to the next prune.
EvictedWalNever(wal, src, strs, cutoff) == {}

EvictedWal(wal, src, strs, cutoff) ==
  {r \in wal : r.src = src /\ r.str \in strs /\ r.ts < cutoff}

(***************************************************************************)
(* The clock series is per source.  A whole-source pass cuts it at the     *)
(* cutoff; a per-stream pass at the oldest row the source still holds      *)
(* anywhere, and at the cutoff when nothing is left.  A clock entry is a   *)
(* record [src, ts].                                                       *)
(***************************************************************************)

\* A slip: the observation at the oldest surviving row goes too.
EvictedClockInclusive(clock, wal, segs, src, whole, cutoff) ==
  LET left == Starts(wal, segs, src, Streams)
  IN  {c \in clock : /\ c.src = src
                     /\ IF whole \/ left = {}
                          THEN c.ts <= cutoff
                          ELSE \A t \in left : c.ts <= t}

EvictedClock(clock, wal, segs, src, whole, cutoff) ==
  LET left == Starts(wal, segs, src, Streams)
  IN  {c \in clock : /\ c.src = src
                     /\ IF whole \/ left = {}
                          THEN c.ts < cutoff
                          ELSE \A t \in left : c.ts < t}

(***************************************************************************)
(* The caller's store: rows kept against (name, ts), cut at the cutoff,    *)
(* or below min(floor, cutoff) when the caller supplied a floor function.  *)
(* The floor modelled is the documented one for a log of deltas: the       *)
(* latest full statement at or before the oldest surviving row, everything *)
(* when there is none, and the plain cutoff for a name with no row left.   *)
(* A caller row is a record [src, str, ts, full].                          *)
(***************************************************************************)

\* A slip: the base is looked for before the newest row, not the oldest.
BelowFloorOfNewest(c, callers, wal, segs) ==
  LET left == Starts(wal, segs, c.src, {c.str})
      full == {d \in callers : /\ SameStream(d, c) /\ d.full
                               /\ \E t \in left : d.ts <= t}
  IN  left = {} \/ \E d \in full : c.ts < d.ts

BelowFloor(c, callers, wal, segs) ==
  LET left == Starts(wal, segs, c.src, {c.str})
      full == {d \in callers : /\ SameStream(d, c) /\ d.full
                               /\ \A t \in left : d.ts <= t}
  IN  left = {} \/ \E d \in full : c.ts < d.ts

EvictedCallers(callers, wal, segs, src, strs, cutoff, floored) ==
  {c \in callers : /\ c.src = src /\ c.str \in strs /\ c.ts < cutoff
                   /\ floored => BelowFloor(c, callers, wal, segs)}
=============================================================================
