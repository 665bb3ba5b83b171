-------------------------- MODULE DendroCompaction --------------------------
(***************************************************************************)
(* A compaction pass over an archive: compact_with over every stream of    *)
(* every source, or compact_stream_with over one.  The pass runs on the    *)
(* archive's only writing connection, so the writer's steps and the pass's *)
(* alternate; each merge is one transaction, and a pass may fail or be     *)
(* killed between two of them.                                             *)
(*                                                                         *)
(* A segment has its bytes' parquet description besides the catalog        *)
(* columns of DendroCatalog:                                               *)
(*                                                                         *)
(*   fields  its columns, a function from column names to [def, null]: def *)
(*           is the type and metadata of a field, null its nullability     *)
(*   kv      its file key-value metadata, the set of its entries           *)
(*   index   the caller's index, the columns and rows it was built over,   *)
(*           or NoIndex                                                    *)
(*                                                                         *)
(* and the catalog's count of WAL rows is the number of its rows.  A merge *)
(* is refused for a difference in the columns' order too, which a set of   *)
(* columns does not show.                                                  *)
(***************************************************************************)
EXTENDS DendroCatalog, FiniteSetsExt

CONSTANTS Written,   \* what encoders write: records [fields, kv, indexed]
          Targets,   \* the values of CompactSpec.target_rows
          Policies,  \* pairs of a SchemaPolicy and a MetadataMerge
          Cutoffs,   \* the cutoffs retention is asked for
          MaxPasses  \* bound: passes in a behaviour

ASSUME CompactionAssumption ==
  /\ Targets \subseteq Nat
  /\ Policies \subseteq {"StopAtChange", "UnionFields"} \X {"Identical", "Combining"}
  /\ Cutoffs \subseteq Int
  /\ MaxPasses \in Nat
  /\ IsFiniteSet(Timestamps)

Columns == UNION {DOMAIN e.fields : e \in Written}

\* A column as arrow has it: def, its type and metadata, and its nullability.
Field ==
  [def : UNION {{e.fields[c].def : c \in DOMAIN e.fields} : e \in Written},
   null : BOOLEAN]

ASSUME WrittenAssumption == \A e \in Written : e.fields \in [DOMAIN e.fields -> Field]

VARIABLES
  segs, wal,  \* the tables segments and wal
  pass,       \* the compaction pass
  passes      \* bound: passes begun

vars == <<segs, wal, pass, passes>>

NoIndex == [rows |-> {}, cols |-> {}]

Key == Sources \X Streams

StreamOf(s) == <<s.src, s.str>>

(***************************************************************************)
(* keys are the streams the pass was given and left those it has yet to    *)
(* look at; ahead are the segments of the one it is in that its position   *)
(* has not passed, out the segments the pass has written; before, after    *)
(* and merges are the Compacted it will return.                            *)
(***************************************************************************)
NoPass == [at |-> "none", keys |-> {}, left |-> {}, ahead |-> {}, out |-> {},
           target |-> 0, schema |-> "StopAtChange", merge |-> "Identical",
           before |-> 0, after |-> 0, merges |-> 0]

Running == pass.at = "streams"

Init ==
  /\ segs = {} /\ wal = {}
  /\ pass = NoPass
  /\ passes = 0

-----------------------------------------------------------------------------
(***************************************************************************)
(* The writer, between passes: a tick appends past everything the source   *)
(* holds, a seal takes a stream's live rows, its prune comes later or      *)
(* never, and retention is DendroCatalog's.                                *)
(***************************************************************************)
Tick(src, strs) ==
  /\ ~ Running
  /\ \E t \in Timestamps :
       /\ \A r \in wal : r.src = src => r.ts < t
       /\ \A s \in segs : s.src = src => s.last < t
       /\ wal' = wal \cup {[src |-> src, str |-> str, ts |-> t] : str \in strs}
  /\ UNCHANGED <<segs, pass, passes>>

IndexOver(rows, e) ==
  IF e.indexed THEN [rows |-> rows, cols |-> DOMAIN e.fields] ELSE NoIndex

Seal(src, str) ==
  LET live == LiveTimes(wal, segs, src, str) IN
  /\ ~ Running
  /\ live # {}
  /\ \E n \in 0..Cardinality(Timestamps), e \in Written :
       /\ IsNextSeq(segs, src, str, n)
       /\ segs' = segs \cup
            {[src |-> src, str |-> str, seq |-> n, rows |-> live,
              first |-> Min(live), last |-> Max(live), fields |-> e.fields,
              kv |-> e.kv, index |-> IndexOver(live, e)]}
  /\ UNCHANGED <<wal, pass, passes>>

Prune(src, str) ==
  /\ ~ Running
  /\ \E s \in StreamSegments(segs, src, str) :
       wal' = wal \ {r \in wal : SameStream(r, s) /\ r.ts <= s.last}
  /\ UNCHANGED <<segs, pass, passes>>

Evict(src, cutoff) ==
  /\ ~ Running
  /\ segs' = segs \ EvictedSegments(segs, src, Streams, cutoff)
  /\ wal' = wal \ EvictedWal(wal, src, Streams, cutoff)
  /\ UNCHANGED <<pass, passes>>

-----------------------------------------------------------------------------
(***************************************************************************)
(* The run a pass plans at its position, and how much of it is merged.     *)
(***************************************************************************)
First(run) == CHOOSE s \in run : \A u \in run : s.seq <= u.seq
Last(run) == CHOOSE s \in run : \A u \in run : u.seq <= s.seq

\* The segments from the pass's position to s, in seq order.
Upto(s) == {u \in pass.ahead : u.seq <= s.seq}

RowCount(run) == MapThenSumSet(LAMBDA s : Cardinality(s.rows), run)

AtLeastOne(n) == IF n = 0 THEN 1 ELSE n

\* Adjacent segments, each of which still fits the target.
Planned ==
  {s \in pass.ahead : \A u \in Upto(s) : RowCount(Upto(u)) <= AtLeastOne(pass.target)}

\* Under UnionFields a column two segments share must be the same column.
Agree(f, g) == \A c \in DOMAIN f \cap DOMAIN g : f[c] = g[c]

\* A slip: only the type and metadata of a shared column are compared.
AdmitsAnyNullability(s) ==
  LET first == First(pass.ahead) IN
  /\ IF pass.schema = "StopAtChange"
       THEN s.fields = first.fields
       ELSE \A u \in Upto(s), c \in Columns :
              c \in DOMAIN u.fields \cap DOMAIN s.fields =>
                u.fields[c].def = s.fields[c].def
  /\ pass.merge = "Identical" => s.kv = first.kv

(***************************************************************************)
(* What concat_parquet asks of a segment before it joins the run: first    *)
(* the SchemaPolicy, then the MetadataMerge.  IdenticalMetadata wants the  *)
(* first's entries; the other merge is a caller's that unions them.        *)
(***************************************************************************)
Admits(s) ==
  LET first == First(pass.ahead) IN
  /\ IF pass.schema = "StopAtChange"
       THEN s.fields = first.fields
       ELSE \A u \in Upto(s) : Agree(u.fields, s.fields)
  /\ pass.merge = "Identical" => s.kv = first.kv

Consumed == {s \in Planned : \A u \in Upto(s) : Admits(u)}

(***************************************************************************)
(* The merged columns.  One that some segment of the run lacks is null for *)
(* its rows, and becomes nullable.                                         *)
(***************************************************************************)

UnionOf(run) ==
  [c \in UNION {DOMAIN s.fields : s \in run} |->
     LET d == (CHOOSE s \in run : c \in DOMAIN s.fields).fields[c]
     IN  [def |-> d.def, null |-> d.null \/ \E s \in run : c \notin DOMAIN s.fields]]

(***************************************************************************)
(* The segment a run is replaced by.  Where the policies admit only equal  *)
(* columns, or equal metadata, the unions are the first segment's.         *)
(***************************************************************************)
Merged(run) ==
  [src |-> First(run).src, str |-> First(run).str, seq |-> First(run).seq,
   first |-> First(run).first, last |-> Last(run).last,
   rows |-> UNION {s.rows : s \in run},
   fields |-> UnionOf(run), kv |-> UNION {s.kv : s \in run}, index |-> NoIndex]

-----------------------------------------------------------------------------
Begin(keys, target, schema, merge) ==
  /\ ~ Running
  /\ passes < MaxPasses
  /\ pass' = [at |-> "streams", keys |-> keys, left |-> keys, ahead |-> {},
              out |-> {}, target |-> target, schema |-> schema, merge |-> merge,
              before |-> 0, after |-> 0, merges |-> 0]
  /\ passes' = passes + 1
  /\ UNCHANGED <<segs, wal>>

\* read_segment_meta, once, when the pass comes to a stream.
NextStream(key) ==
  LET metas == StreamSegments(segs, key[1], key[2]) IN
  /\ Running
  /\ pass.ahead = {}
  /\ key \in pass.left
  /\ pass' = [pass EXCEPT !.left = @ \ {key},
                          !.ahead = metas,
                          !.before = @ + Cardinality(metas),
                          !.after = @ + Cardinality(metas)]
  /\ UNCHANGED <<segs, wal, passes>>

\* A run of one: the target allows no more, or a change ends it there.
Skip ==
  /\ Running
  /\ pass.ahead # {}
  /\ Cardinality(Consumed) < 2
  /\ pass' = [pass EXCEPT !.ahead = @ \ {First(pass.ahead)}]
  /\ UNCHANGED <<segs, wal, passes>>

\* A slip: the delete and the insert are committed one after the other.
MergeInTwo ==
  /\ Running
  /\ Cardinality(Consumed) >= 2
  /\ \/ segs' = segs \ Consumed /\ pass' = NoPass
     \/ /\ segs' = (segs \ Consumed) \cup {Merged(Consumed)}
        /\ pass' = [pass EXCEPT !.ahead = @ \ Consumed,
                                !.out = @ \cup {Merged(Consumed)},
                                !.merges = @ + 1,
                                !.after = @ - (Cardinality(Consumed) - 1)]
  /\ UNCHANGED <<wal, passes>>

\* A slip: the position moves past the run that was planned.
MergeSkipsPlanned ==
  /\ Running
  /\ Cardinality(Consumed) >= 2
  /\ segs' = (segs \ Consumed) \cup {Merged(Consumed)}
  /\ pass' = [pass EXCEPT !.ahead = @ \ Planned,
                          !.out = @ \cup {Merged(Consumed)},
                          !.merges = @ + 1,
                          !.after = @ - (Cardinality(Consumed) - 1)]
  /\ UNCHANGED <<wal, passes>>

\* One transaction: the run is deleted and its replacement inserted.
Merge ==
  /\ Running
  /\ Cardinality(Consumed) >= 2
  /\ segs' = (segs \ Consumed) \cup {Merged(Consumed)}
  /\ pass' = [pass EXCEPT !.ahead = @ \ Consumed,
                          !.out = @ \cup {Merged(Consumed)},
                          !.merges = @ + 1,
                          !.after = @ - (Cardinality(Consumed) - 1)]
  /\ UNCHANGED <<wal, passes>>

\* The pass returns its report, after the reclaim.
Finish ==
  /\ Running
  /\ pass.left = {} /\ pass.ahead = {}
  /\ pass' = [NoPass EXCEPT !.at = "done", !.before = pass.before,
                            !.after = pass.after, !.merges = pass.merges]
  /\ UNCHANGED <<segs, wal, passes>>

\* An error of a query, an unreadable segment, a failed commit or a kill.
Abort ==
  /\ Running
  /\ pass' = NoPass
  /\ UNCHANGED <<segs, wal, passes>>

WriterNext ==
  \/ \E src \in Sources, strs \in (SUBSET Streams) \ {{}} : Tick(src, strs)
  \/ \E src \in Sources, str \in Streams : Seal(src, str) \/ Prune(src, str)
  \/ \E src \in Sources, cutoff \in Cutoffs : Evict(src, cutoff)

PassNext ==
  \/ \E keys \in {Key} \cup {{k} : k \in Key}, target \in Targets, p \in Policies :
        Begin(keys, target, p[1], p[2])
  \/ \E key \in Key : NextStream(key)
  \/ Skip
  \/ Merge
  \/ Finish
  \/ Abort

Next == WriterNext \/ PassNext

Spec == Init /\ [][Next]_vars

-----------------------------------------------------------------------------
(***************************************************************************)
(* Correctness.                                                            *)
(***************************************************************************)
TypeOK ==
  /\ \A s \in segs :
       /\ s.src \in Sources /\ s.str \in Streams /\ s.seq \in Nat
       /\ s.first \in Timestamps /\ s.last \in Timestamps
       /\ s.rows \in (SUBSET Timestamps) \ {{}}
       /\ DOMAIN s.fields \subseteq Columns /\ s.fields \in [DOMAIN s.fields -> Field]
  /\ wal \subseteq Row
  /\ pass.at \in {"none", "streams", "done"}
  /\ pass.left \subseteq Key
  /\ Running => pass.ahead \subseteq segs

(***************************************************************************)
(* Between the delete and the insert the stream's watermark dips and rows  *)
(* a prune has not reached would be handed out again as a live tail.  No   *)
(* step of a pass, a failed or killed one included, moves a row in or out  *)
(* of what a reader sees, or between the segments and the tail.            *)
(* (compact_stream_with's transaction)                                     *)
(***************************************************************************)
ReadsUnmoved ==
  [][Running => /\ SealedRows(segs') = SealedRows(segs)
                /\ LiveWal(wal', segs') = LiveWal(wal, segs)]_vars

(***************************************************************************)
(* "A name that appears in two segments with any difference at all still   *)
(* stops the run": each row keeps every column its segment had, as the     *)
(* same series; a column it did not have reads as null, which the merged   *)
(* field allows; a field is only ever widened for that reason; and its     *)
(* file metadata still says what it said.  (SchemaPolicy, concat_parquet)  *)
(***************************************************************************)
Keeps(s, m) ==
  /\ \A c \in DOMAIN s.fields :
       /\ c \in DOMAIN m.fields
       /\ m.fields[c].def = s.fields[c].def
       /\ s.fields[c].null => m.fields[c].null
  /\ \A c \in DOMAIN m.fields \ DOMAIN s.fields : m.fields[c].null
  /\ s.kv \subseteq m.kv

ColumnsKeepTheirMeaning ==
  [][Running => \A s \in segs, m \in segs' :
        SameStream(s, m) /\ s.rows \cap m.rows # {} =>
          /\ Keeps(s, m)
          /\ pass.schema = "StopAtChange" => m.fields = s.fields
          /\ pass.merge = "Identical" => m.kv = s.kv]_vars

(***************************************************************************)
(* An index lies beside the columns and rows it was built over, or there   *)
(* is none: "a wrong index is worse than none".  (compact_stream_with)     *)
(***************************************************************************)
Describes(s) == s.index \in {NoIndex, [rows |-> s.rows, cols |-> DOMAIN s.fields]}

(***************************************************************************)
(* A finished pass has merged as far as its target allows and no further,  *)
(* whatever it has skipped and merged on the way: nothing it wrote exceeds *)
(* the target, and, if it stops at every change, of two neighbours in a    *)
(* stream it was given either they differ or they are too many rows        *)
(* together.  Not so under UnionFields, where a widened column differs     *)
(* from the next segment's.  (compact_stream_with, CompactSpec)            *)
(***************************************************************************)
Neighbours(s, u) ==
  /\ SameStream(s, u) /\ s.seq < u.seq
  /\ \A v \in segs : SameStream(s, v) => v.seq <= s.seq \/ u.seq <= v.seq

Completes == Running /\ pass'.at = "done"

NothingLeftToMerge ==
  \A s, u \in {x \in segs : StreamOf(x) \in pass.keys} :
    Neighbours(s, u) /\ s.fields = u.fields /\ s.kv = u.kv =>
      RowCount({s, u}) > AtLeastOne(pass.target)

PassIsMaximal ==
  [][Completes =>
       /\ \A s \in pass.out : Cardinality(s.rows) <= AtLeastOne(pass.target)
       /\ pass.schema = "StopAtChange" /\ pass.merge = "Identical"
            => NothingLeftToMerge]_vars
=============================================================================
