---------------------------- MODULE DendroReader ----------------------------
(***************************************************************************)
(* A reader's connection while the archive is written, pruned, evicted     *)
(* from and compacted by DendroCompaction's steps.                         *)
(*                                                                         *)
(* A read is several queries, and the encoder, which is the caller's code, *)
(* runs between them; read_snapshot puts them in one transaction, whose    *)
(* snapshot is the file at its first query.  It is re-entrant: a caller    *)
(* may hold a snapshot of its own around several reads.  The encoder may   *)
(* fail or panic, and the handle is used again afterwards: a shared one    *)
(* recovers its poisoned lock (SegmentBytes).                              *)
(*                                                                         *)
(*   "archive"  read_archive; catalog and describe make its queries for    *)
(*              aggregates, and copy_sources_into makes them too           *)
(*   "stream"   stream_segments, and stream_indexes for the indexes        *)
(*   "range"    stream_range over RangeFrom .. RangeTo                     *)
(*   "probe"    probe, the first segment or else the tail                  *)
(***************************************************************************)
EXTENDS DendroCompaction

CONSTANTS RangeFrom, RangeTo  \* the range of a stream_range

ASSUME RangeAssumption == RangeFrom \in Int /\ RangeTo \in Int

VARIABLES
  db,      \* the connection: in a transaction, and on which snapshot
  outer,   \* the caller holds a snapshot of its own
  call,    \* the read under way
  instant  \* the file at the first query of the outermost snapshot, to compare

reader == <<db, outer, call, instant>>

NoFile == [known |-> FALSE, segs |-> {}, wal |-> {}]
TheFile == [known |-> TRUE, segs |-> segs, wal |-> wal]

\* No transaction, and one that has not read yet.
Autocommit == [tx |-> FALSE, view |-> NoFile]
Deferred == [tx |-> TRUE, view |-> NoFile]

(***************************************************************************)
(* own says that the read opened the transaction itself; left are the      *)
(* streams it has yet to visit, now holds the one it is in and sealed what *)
(* it has read of that one's segments; out is what it will return, one     *)
(* record [key, segs, tail] for each stream.                               *)
(***************************************************************************)
NoCall == [kind |-> "none", own |-> FALSE, at |-> "none", left |-> {},
           now |-> {}, sealed |-> {}, out |-> {}]

ReaderInit ==
  /\ Init
  /\ db = Autocommit /\ outer = FALSE /\ call = NoCall /\ instant = NoFile

-----------------------------------------------------------------------------
(***************************************************************************)
(* A query reads the transaction's snapshot, or the file as it is.         *)
(***************************************************************************)
Seen == IF db.view.known THEN db.view ELSE TheFile

\* A slip: each statement has a snapshot of its own.
QueryUnpinned ==
  /\ instant' = IF instant.known THEN instant ELSE TheFile
  /\ UNCHANGED <<segs, wal, pass, passes, outer, db>>

Query ==
  /\ db' = IF db.tx THEN [db EXCEPT !.view = Seen] ELSE db
  /\ instant' = IF instant.known THEN instant ELSE TheFile
  /\ UNCHANGED <<segs, wal, pass, passes, outer>>

Held(f) == {k \in Key : \/ \E s \in f.segs : StreamOf(s) = k
                        \/ \E r \in f.wal : <<r.src, r.str>> = k}

Now == CHOOSE k \in call.now : TRUE

InRange(t) == RangeFrom <= t /\ t <= RangeTo

(***************************************************************************)
(* read_snapshot: inside a transaction the closure runs in it; outside one *)
(* it opens one and ends it, however the closure leaves.                   *)
(***************************************************************************)
Entered == IF db.tx THEN db ELSE Deferred

OpenSnapshot ==
  /\ call = NoCall
  /\ ~ outer
  /\ outer' = TRUE
  /\ db' = Entered
  /\ instant' = NoFile
  /\ UNCHANGED <<segs, wal, pass, passes, call>>

CloseSnapshot ==
  /\ call = NoCall
  /\ outer
  /\ outer' = FALSE
  /\ db' = Autocommit
  /\ instant' = NoFile
  /\ UNCHANGED <<segs, wal, pass, passes, call>>

Start(kind, keys) ==
  /\ call = NoCall
  /\ call' = [kind |-> kind, own |-> ~ db.tx, left |-> keys, now |-> {},
              sealed |-> {}, out |-> {},
              at |-> IF kind = "archive" THEN "streams" ELSE "segments"]
  /\ db' = Entered
  /\ instant' = IF outer THEN instant ELSE NoFile
  /\ UNCHANGED <<segs, wal, pass, passes, outer>>

\* read_sources and all_streams.
ListStreams ==
  /\ call.at = "streams"
  /\ Query
  /\ call' = [call EXCEPT !.left = Held(Seen),
                          !.at = IF Held(Seen) = {} THEN "done" ELSE "segments"]

\* read_segments, segments_overlapping or, for the probe, read_segment_meta.
ReadSegments(key) ==
  LET mine == StreamSegments(Seen.segs, key[1], key[2])
      found == IF call.kind = "range"
                 THEN {s \in mine : s.last >= RangeFrom /\ s.first <= RangeTo}
                 ELSE mine
  IN
  /\ call.at = "segments"
  /\ key \in call.left
  /\ Query
  /\ call' = [call EXCEPT
       !.left = @ \ {key}, !.now = {key}, !.sealed = found,
       !.at = IF call.kind = "probe" /\ found # {} THEN "bytes" ELSE "tail"]

\* The read moves to its next stream, or is done.
Answer(found, tail) ==
  call' = [call EXCEPT
    !.out = IF found = {} /\ tail = {} THEN @
            ELSE @ \cup {[key |-> Now, segs |-> found, tail |-> tail]},
    !.sealed = {},
    !.at = IF call.left = {} THEN "done" ELSE "segments"]

\* read_segment_bytes, by number: the probe's one segment, or nothing.
ReadBytes ==
  /\ call.at = "bytes"
  /\ Query
  /\ Answer({s \in StreamSegments(Seen.segs, Now[1], Now[2]) :
               s.seq = First(call.sealed).seq}, {})

\* live_wal, and the segment the encoder makes of it; a range cuts its rows.
ReadTail ==
  LET live == LiveTimes(Seen.wal, Seen.segs, Now[1], Now[2]) IN
  /\ call.at = "tail"
  /\ Query
  /\ Answer(call.sealed, {t \in live : call.kind = "range" => InRange(t)})

Return ==
  /\ call.at = "done"
  /\ call' = NoCall
  /\ db' = IF call.own THEN Autocommit ELSE db
  /\ UNCHANGED <<segs, wal, pass, passes, outer, instant>>

\* An error, or a panic of the encoder's: the guard ends the snapshot.
Unwind ==
  /\ call # NoCall /\ call.at # "done"
  /\ call' = NoCall
  /\ db' = IF call.own THEN Autocommit ELSE db
  /\ UNCHANGED <<segs, wal, pass, passes, outer, instant>>

ReaderNext ==
  \/ OpenSnapshot \/ CloseSnapshot
  \/ Start("archive", {})
  \/ \E kind \in {"stream", "range", "probe"}, key \in Key : Start(kind, {key})
  \/ ListStreams
  \/ \E key \in Key : ReadSegments(key)
  \/ ReadBytes
  \/ ReadTail
  \/ Return \/ Unwind

ReaderSpec ==
  ReaderInit /\ [][ReaderNext \/ (Next /\ UNCHANGED reader)]_<<vars, reader>>

-----------------------------------------------------------------------------
(***************************************************************************)
(* What a finished read returns is one instant's facts: the rows of every  *)
(* segment of a stream and then its live tail, none missing and none       *)
(* twice, as the file stood at the first query of the read, or of the      *)
(* caller's snapshot around it; so the streams of an archive, and the      *)
(* reads under one snapshot, agree.  A seal between two queries would hide *)
(* the rows it sealed from both.  (stream_segments_snapshotted)            *)
(***************************************************************************)
Rows(a) == (UNION {s.rows : s \in a.segs}) \cup a.tail

RowsAt(f, key) ==
  {t \in Timestamps : [src |-> key[1], str |-> key[2], ts |-> t] \in Readable(f.wal, f.segs)}

Whole(a) == Rows(a) = RowsAt(instant, a.key)

Promised(a) ==
  CASE call.kind = "probe" -> Cardinality(a.segs) = 1 \/ (a.segs = {} /\ Whole(a))
    [] call.kind = "range" -> /\ Rows(a) \subseteq RowsAt(instant, a.key)
                              /\ {t \in RowsAt(instant, a.key) : InRange(t)} \subseteq Rows(a)
                              /\ \A t \in a.tail : InRange(t)
    [] OTHER -> Whole(a)

Visited == IF call.kind = "archive" THEN Key ELSE call.now

ReadIsOneInstant ==
  call.at = "done" /\ instant.known =>
    /\ \A a \in call.out :
         /\ Promised(a)
         /\ \A s \in a.segs : s.rows \cap a.tail = {}
         /\ \A s, u \in a.segs : s = u \/ s.rows \cap u.rows = {}
    /\ \A k \in Visited :
         \/ \E a \in call.out : a.key = k
         \/ RowsAt(instant, k) = {}
         \/ call.kind = "range" /\ \A t \in RowsAt(instant, k) : ~ InRange(t)

(***************************************************************************)
(* A snapshot ends with the read or the closure that opened it, whichever  *)
(* way that was left: one left open would answer every later read of the   *)
(* handle from the past, and keep every checkpoint from making progress.   *)
(* (read_snapshot's EndSnapshot)                                           *)
(***************************************************************************)
SnapshotsEnd ==
  /\ db.tx <=> outer \/ call # NoCall
  /\ call # NoCall => call.own = ~ outer
  /\ db.view.known => db.view = instant
=============================================================================
