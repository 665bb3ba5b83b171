----------------------------- MODULE DendroCopy -----------------------------
(***************************************************************************)
(* copy_sources_into: what a copy of the archive holds, as a function of   *)
(* the file, of the CopySpec and of the encoder that seals the tail.  The  *)
(* copy reads one snapshot and writes one transaction, so it has no states *)
(* of its own; it may be taken at any moment of DendroCompaction.          *)
(*                                                                         *)
(* A CopySpec is [start, end, streams, project, columns]: the inclusive    *)
(* range of timestamps, the streams kept, those among them the column      *)
(* filter projects, and the columns it keeps.  Structural columns are what *)
(* is_data denies.  A copied source keeps its identity, so its id stands   *)
(* for it in the copy too.                                                 *)
(***************************************************************************)
EXTENDS DendroCompaction

CONSTANTS CopySpecs,  \* the copies a caller asks for
          Structural  \* the columns that carry no data

ASSUME CopyAssumption ==
  \A c \in CopySpecs : /\ c.start \in Int /\ c.end \in Int
                       /\ c.streams \subseteq Streams
                       /\ c.project \subseteq c.streams

\* segments_overlapping's WHERE, and the copy's test of the tail's ends.
Overlaps(first, last, spec) == last >= spec.start /\ first <= spec.end

(***************************************************************************)
(* project_segment_columns: the kept columns and the file metadata as they *)
(* are, no index; nothing when no column with data is left.                *)
(***************************************************************************)
HasData(s, spec) ==
  s.str \in spec.project =>
    \E c \in DOMAIN s.fields \cap spec.columns : c \notin Structural

Projected(s, spec) ==
  IF s.str \in spec.project
    THEN [s EXCEPT !.fields = [c \in DOMAIN @ \cap spec.columns |-> @[c]],
                   !.index = NoIndex]
    ELSE s

(***************************************************************************)
(* The live tail of a stream as a segment past all others, as the caller's *)
(* encoder writes it; e is what it writes, and it keeps every row.         *)
(***************************************************************************)
Tail(src, str, e) ==
  LET live == LiveTimes(wal, segs, src, str)
  IN  {[src |-> src, str |-> str, seq |-> n, rows |-> live, first |-> Min(live),
        last |-> Max(live), fields |-> e.fields, kv |-> e.kv,
        index |-> IndexOver(live, e)] :
          n \in {x \in 0..Cardinality(Timestamps) :
                   live # {} /\ IsNextSeq(segs, src, str, x)}}

\* The segments a copy takes of one stream, tail last, numbered as before.
Taken(src, str, spec, e) ==
  {s \in StreamSegments(segs, src, str) \cup Tail(src, str, e) :
     Overlaps(s.first, s.last, spec) /\ HasData(s, spec)}

\* Two slips: segments keep their numbers; the tail is left to the writer.
CopiedStreamCarried(src, str, spec, e) ==
  {Projected(s, spec) : s \in Taken(src, str, spec, e)}

CopiedStreamNoTail(src, str, spec, e) ==
  LET taken == Taken(src, str, spec, e) \cap segs
  IN  {[Projected(s, spec) EXCEPT !.seq = Cardinality({u \in taken : u.seq < s.seq})] :
         s \in taken}

\* Renumbered densely from 0, in order.
CopiedStream(src, str, spec, e) ==
  LET taken == Taken(src, str, spec, e)
  IN  {[Projected(s, spec) EXCEPT !.seq = Cardinality({u \in taken : u.seq < s.seq})] :
         s \in taken}

Copied(spec, e) ==
  UNION {CopiedStream(src, str, spec, e) : src \in Sources, str \in spec.streams}

-----------------------------------------------------------------------------
(***************************************************************************)
(* Correctness.  A copy depends on the file only, and every file a pass    *)
(* can leave is one it can be aborted on: the properties are asked there.  *)
(***************************************************************************)

\* Rows that a copy may leave out: out of range, or with no column kept.
Excused(r, spec, e) ==
  \/ r.str \notin spec.streams
  \/ r.ts < spec.start \/ spec.end < r.ts
  \/ \E s \in StreamSegments(segs, r.src, r.str) \cup Tail(r.src, r.str, e) :
        r.ts \in s.rows /\ ~ HasData(s, spec)

(***************************************************************************)
(* What a copy holds can be read in the archive and was asked for, but for *)
(* the rows that share a segment with one in the range; and every row the  *)
(* archive shows in the range is there, the live tail included: "never     *)
(* optional - only out of range".  (copy_sources_snapshotted)              *)
(***************************************************************************)
CopyIsComplete ==
  pass = NoPass => \A spec \in CopySpecs, e \in Written :
    LET there == SealedRows(Copied(spec, e)) IN
    /\ there \subseteq {r \in Readable(wal, segs) : r.str \in spec.streams}
    /\ \A r \in Readable(wal, segs) : r \in there \/ Excused(r, spec, e)

(***************************************************************************)
(* A copy is an archive that a reader splices and a writer may resume: its *)
(* streams are numbered from 0 without a hole, in time order, no row is in *)
(* two segments, no index describes columns it has lost, and each segment  *)
(* was asked for.  (copy_sources_snapshotted's renumbering)                *)
(***************************************************************************)
Dense(there) ==
  \A s \in there : s.seq = Cardinality({u \in there : SameStream(s, u) /\ u.seq < s.seq})

CopyIsAnArchive ==
  pass = NoPass => \A spec \in CopySpecs, e \in Written :
    LET there == Copied(spec, e) IN
    /\ Dense(there)
    /\ \A s \in there :
         /\ s.first = Min(s.rows) /\ s.last = Max(s.rows) /\ Describes(s)
         /\ Overlaps(s.first, s.last, spec) /\ HasData(s, spec)
         /\ \A u \in there : SameStream(s, u) /\ s.seq < u.seq => s.last < u.first
=============================================================================
