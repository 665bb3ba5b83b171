---------------------------- MODULE DendroWriter ----------------------------
(***************************************************************************)
(* The writer thread of one dendro archive, the file it owns, and what     *)
(* happens to both across commits that fail, a kill between two commits    *)
(* and a reopening.                                                        *)
(*                                                                         *)
(* A step of this specification is one commit (or one message that         *)
(* commits nothing), because the file is what a reader and a crash see.    *)
(* A message whose handler commits several times is several steps, and     *)
(* the variable op says what the thread is in the middle of:               *)
(*                                                                         *)
(*   "idle"   between two messages                                         *)
(*   "split"  re-committing a tick that collided, one source at a time     *)
(*   "prune"  a seal has committed, its streams' WAL is being pruned       *)
(*   "seal"   a prune failed and the whole seal is about to be retried     *)
(*   "evict"  a retention pass, first retrying the deferred seals          *)
(*                                                                         *)
(* with_retries makes every transaction one of: committed, failed with a   *)
(* retryable error that outlasted the schedule, or failed for good.  The   *)
(* attempts that failed before one that commits leave nothing behind and   *)
(* are not steps, except a failed prune, which leaves its seal committed.  *)
(***************************************************************************)
EXTENDS DendroEncoding

CONSTANTS Caps,        \* the max_rows values seals ask for, all at least 1
          MaxTick,     \* bound: rows in one tick
          MaxDropped,  \* MAX_CONSECUTIVE_DROPPED_TICKS
          Cutoffs,     \* the cutoffs retention is asked for
          ClockTimes,  \* bound: the timestamps a caller observes the clock at
          CallerTimes  \* bound: the timestamps caller rows are kept against

ASSUME WriterAssumption ==
  /\ Caps \subseteq Nat \ {0}
  /\ MaxTick \in Nat \ {0}
  /\ MaxDropped \in Nat \ {0}
  /\ Cutoffs \subseteq Int
  /\ CallerTimes \subseteq Timestamps
  /\ Sources # {}
  /\ IsFiniteSet(Timestamps)

Keys == Sources \X Streams

ClockEntry == [src : Sources, ts : Timestamps]

CallerRow == [src : Sources, str : Streams, ts : CallerTimes, full : BOOLEAN]

VARIABLES
  \* the file: the tables sources, segments, wal, clock_offsets, caller_rows
  known, segs, wal, clock, callers,
  \* the thread's memory, lost when it goes
  up,          \* the thread runs
  nextSeq,     \* next_seq
  watermarks,  \* watermarks: the newest sealed row, per stream
  floors,      \* floors: the newest row a resumed source's last session left
  deferred,    \* deferred: the smallest cap asked for, 0 when not listed
  dropped,     \* WriterHealth.consecutive_dropped
  \* what the thread is in the middle of
  op,
  tick,        \* op = "split": the rows whose source is still to be tried
  landed,      \* op = "split": some source's rows were committed
  job,         \* the seal being retried or pruned
  prunes,      \* op = "prune": the prune_wal calls still to be made
  pass         \* the retention pass being run

file == <<known, segs, wal, clock, callers>>
caches == <<nextSeq, watermarks, floors>>
memory == <<up, nextSeq, watermarks, floors, deferred, dropped>>
work == <<op, tick, landed, job, prunes, pass>>
vars == <<file, memory, work>>

NoJob == [src |-> CHOOSE s \in Sources : TRUE, batch |-> {}, cap |-> 0]

NoPass == [on |-> FALSE, src |-> CHOOSE s \in Sources : TRUE, strs |-> {},
           whole |-> FALSE, floored |-> FALSE, cutoff |-> NoTs, untried |-> {}]

TypeOK ==
  /\ known \subseteq Sources
  /\ segs \subseteq Segment
  /\ wal \subseteq Row
  /\ clock \subseteq ClockEntry
  /\ callers \subseteq CallerRow
  /\ up \in BOOLEAN
  /\ nextSeq \in [Keys -> Nat]
  /\ watermarks \in [Keys -> Timestamps \cup {NoTs}]
  /\ floors \in [Sources -> Timestamps \cup {NoTs}]
  /\ deferred \in [Keys -> Nat]
  /\ dropped \in Nat
  /\ op \in {"idle", "split", "prune", "seal", "evict"}
  /\ tick \subseteq Row
  /\ landed \in BOOLEAN
  /\ job \in [src : Sources, batch : SUBSET Streams, cap : Nat]
  /\ prunes \subseteq Row
  /\ pass \in [on : BOOLEAN, src : Sources, strs : SUBSET Streams,
               whole : BOOLEAN, floored : BOOLEAN,
               cutoff : Cutoffs \cup {NoTs}, untried : SUBSET Streams]

(***************************************************************************)
(* A freshly created archive: an empty file and empty caches.              *)
(***************************************************************************)
Blank ==
  /\ nextSeq = [k \in Keys |-> 0]
  /\ watermarks = [k \in Keys |-> NoTs]

Init ==
  /\ known = {} /\ segs = {} /\ wal = {} /\ clock = {} /\ callers = {}
  /\ up = TRUE
  /\ Blank
  /\ floors = [s \in Sources |-> NoTs]
  /\ deferred = [k \in Keys |-> 0]
  /\ dropped = 0
  /\ op = "idle" /\ tick = {} /\ landed = FALSE
  /\ job = NoJob /\ prunes = {} /\ pass = NoPass

Idle == up /\ op = "idle"

-----------------------------------------------------------------------------
(***************************************************************************)
(* Sources.                                                                *)
(***************************************************************************)

AddSource(src) ==
  /\ Idle
  /\ src \notin known
  /\ known' = known \cup {src}
  /\ UNCHANGED <<segs, wal, clock, callers, memory, work>>

(***************************************************************************)
(* resume_source: the floor is the newest row the source still holds.  A   *)
(* source that holds none leaves the floor of an earlier resume in place.  *)
(***************************************************************************)
ResumeSource(src) ==
  /\ Idle
  /\ src \in known
  /\ \E w \in Timestamps \cup {NoTs} :
        /\ IsNewestRow(wal, segs, src, w)
        /\ floors' = IF w = NoTs THEN floors ELSE [floors EXCEPT ![src] = w]
  /\ UNCHANGED <<file, up, nextSeq, watermarks, deferred, dropped, work>>

-----------------------------------------------------------------------------
(***************************************************************************)
(* commit_tick.  A source with a row at or before its floor loses its      *)
(* whole tick; then every row at or below its stream's cached watermark is *)
(* left out.                                                               *)
(***************************************************************************)

\* Two slips: only the handle enforces the floor; an append is never shadowed.
AdmittedBelowFloor(rows) == {r \in rows : r.ts > watermarks[<<r.src, r.str>>]}

AdmittedShadowed(rows) ==
  {r \in rows : \A q \in rows : q.src = r.src => q.ts > floors[q.src]}

Admitted(rows) ==
  {r \in rows : /\ \A q \in rows : q.src = r.src => q.ts > floors[q.src]
                /\ r.ts > watermarks[<<r.src, r.str>>]}

\* The wal primary key, and the foreign key on sources.
Collides(rows) == \E r \in rows : r \in wal \/ r.src \notin known

CommitTick(rows) ==
  LET new == Admitted(rows) IN
  /\ Idle
  /\ new # {}
  /\ ~ Collides(new)
  /\ wal' = wal \cup new
  /\ dropped' = 0
  /\ UNCHANGED <<known, segs, clock, callers, up, caches, deferred, work>>

\* A constraint refused the whole batch: try its sources one by one.
SplitTick(rows) ==
  LET new == Admitted(rows) IN
  /\ Idle
  /\ Collides(new)
  /\ op' = "split"
  /\ tick' = new
  /\ landed' = FALSE
  /\ UNCHANGED <<file, memory, job, prunes, pass>>

\* Leaves the split when no source is left; one landing resets the count.
SplitOn(rest, some, count) ==
  /\ tick' = rest
  /\ op' = IF rest = {} THEN "idle" ELSE "split"
  /\ landed' = (some /\ rest # {})
  /\ dropped' = IF rest = {} /\ some THEN 0 ELSE count

CommitSourceTick(src) ==
  LET rows == {r \in tick : r.src = src} IN
  /\ up /\ op = "split"
  /\ rows # {}
  /\ \/ /\ ~ Collides(rows)
        /\ wal' = wal \cup rows
        /\ SplitOn(tick \ rows, TRUE, dropped)
     \/ /\ Collides(rows)
        /\ wal' = wal
        /\ SplitOn(tick \ rows, landed, dropped)
     \/ /\ dropped + 1 < MaxDropped       \* retryable, and the schedule ran out
        /\ wal' = wal
        /\ SplitOn(tick \ rows, landed, dropped + 1)
  /\ UNCHANGED <<known, segs, clock, callers, up, caches, deferred,
                 job, prunes, pass>>

\* A tick, an observation or caller rows that a retryable failure outlasted.
DropCommit ==
  /\ Idle
  /\ dropped + 1 < MaxDropped
  /\ dropped' = dropped + 1
  /\ UNCHANGED <<file, up, caches, deferred, work>>

-----------------------------------------------------------------------------
(***************************************************************************)
(* Sealing.                                                                *)
(***************************************************************************)

\* The segments one stream's encoding becomes, numbered from next_seq.
Built(src, str, L, parts) ==
  {[src |-> src, str |-> str, seq |-> nextSeq[<<src, str>>] + p.k,
    first |-> p.first, last |-> p.last,
    rows |-> {t \in L : p.first <= t /\ t <= p.last}] : p \in parts}

\* A batch that is done with: off the deferred list, and back to the message.
SealDone(src, batch) ==
  /\ op' = IF pass.on THEN "evict" ELSE "idle"
  /\ job' = NoJob
  /\ deferred' = [k \in Keys |->
                    IF k[1] = src /\ k[2] \in batch THEN 0 ELSE deferred[k]]

\* seal_batch up to its commit: encode, insert, then move the caches.
CommitSeal(src, batch, cap) ==
  LET live(s) == LiveTimes(wal, segs, src, s) IN
  \E enc \in [batch -> UNION {Encodings(live(s), cap) : s \in batch}] :
    LET sealed == {s \in batch : enc[s].parts # {}}
        ends == {enc[s].upto : s \in sealed}
    IN
    /\ \A s \in batch : enc[s] \in Encodings(live(s), cap)
    /\ segs' = segs \cup UNION {Built(src, s, live(s), enc[s].parts) : s \in sealed}
    /\ clock' = clock \cup {c \in ClockEntry : c.src = src /\ IsNewest(c.ts, ends)}
    /\ nextSeq' = [k \in Keys |->
                     IF k[1] = src /\ k[2] \in sealed
                       THEN nextSeq[k] + enc[k[2]].count ELSE nextSeq[k]]
    /\ watermarks' = [k \in Keys |->
                        IF k[1] = src /\ k[2] \in sealed
                          THEN enc[k[2]].upto ELSE watermarks[k]]
    /\ prunes' = {[src |-> src, str |-> s, ts |-> enc[s].upto] : s \in sealed}
    /\ IF sealed = {}
         THEN SealDone(src, batch)
         ELSE /\ op' = "prune"
              /\ job' = [src |-> src, batch |-> batch, cap |-> cap]
              /\ UNCHANGED deferred
    /\ pass' = [pass EXCEPT !.untried = @ \ batch]
    /\ UNCHANGED <<known, wal, callers, up, floors, dropped, tick, landed>>

Smaller(a, b) == IF a = 0 \/ b < a THEN b ELSE a

\* A retryable failure outlasted the schedule: the streams are deferred; in a
\* retention pass they are held, and so are those it has not tried yet.
DeferSeal(src, batch, cap) ==
  /\ deferred' = [k \in Keys |->
                    IF k[1] = src /\ k[2] \in batch
                      THEN Smaller(deferred[k], cap) ELSE deferred[k]]
  /\ op' = IF pass.on THEN "evict" ELSE "idle"
  /\ job' = NoJob
  /\ prunes' = {}
  /\ pass' = [pass EXCEPT !.untried = {}]
  /\ UNCHANGED <<file, up, caches, dropped, tick, landed>>

Seal(src, batch, cap) ==
  /\ Idle
  /\ src \in known
  /\ CommitSeal(src, batch, cap) \/ DeferSeal(src, batch, cap)

RetrySeal ==
  /\ up /\ op = "seal"
  /\ \/ CommitSeal(job.src, job.batch, job.cap)
     \/ DeferSeal(job.src, job.batch, job.cap)

\* A slip: the whole stream is pruned, the rows past the sealed ones with it.
PruneStream(p) ==
  /\ up /\ op = "prune"
  /\ p \in prunes
  /\ wal' = {r \in wal : ~ SameStream(r, p)}
  /\ prunes' = prunes \ {p}
  /\ IF prunes = {p} THEN SealDone(job.src, job.batch) ELSE UNCHANGED <<op, job, deferred>>
  /\ UNCHANGED <<known, segs, clock, callers, up, caches, dropped, tick, landed, pass>>

\* prune_wal, its own commit; the last one ends the seal.
Prune(p) ==
  /\ up /\ op = "prune"
  /\ p \in prunes
  /\ wal' = {r \in wal : ~ (SameStream(r, p) /\ r.ts <= p.ts)}
  /\ prunes' = prunes \ {p}
  /\ IF prunes = {p} THEN SealDone(job.src, job.batch) ELSE UNCHANGED <<op, job, deferred>>
  /\ UNCHANGED <<known, segs, clock, callers, up, caches, dropped, tick, landed, pass>>

\* A prune failed with a retryable error: with_retries runs seal_batch again,
\* or gives up on the batch although its segments are committed.
FailPrune ==
  /\ up /\ op = "prune"
  /\ \/ /\ op' = "seal"
        /\ prunes' = {}
        /\ UNCHANGED <<file, memory, tick, landed, job, pass>>
     \/ DeferSeal(job.src, job.batch, job.cap)

(***************************************************************************)
(* adopt_segment: a segment built elsewhere, holding rows, is inserted     *)
(* unless the stream's watermark or a live row is in the way.  The refused *)
(* cases, and a failed commit, change nothing.                             *)
(***************************************************************************)
AdoptSegment(src, str, rows) ==
  /\ Idle
  /\ src \in known
  /\ \E f, l \in rows :
       /\ IsOldest(f, rows) /\ IsNewest(l, rows)
       /\ watermarks[<<src, str>>] < f
       /\ \A t \in LiveTimes(wal, segs, src, str) : l < t
       /\ segs' = segs \cup {[src |-> src, str |-> str, seq |-> nextSeq[<<src, str>>],
                              first |-> f, last |-> l, rows |-> rows]}
       /\ nextSeq' = [nextSeq EXCEPT ![<<src, str>>] = @ + 1]
       /\ watermarks' = [watermarks EXCEPT ![<<src, str>>] = l]
  /\ UNCHANGED <<known, wal, clock, callers, up, floors, deferred, dropped, work>>

-----------------------------------------------------------------------------
(***************************************************************************)
(* Retention.                                                              *)
(***************************************************************************)

\* A slip: a pass ignores the deferred streams.
ListedNever(src) == {}

Listed(src) == {s \in Streams : deferred[<<src, s>>] > 0}

\* whole: no stream filter.  floored: the caller gave a CallerRowFloor.
Evict(src, strs, whole, floored, cutoff) ==
  /\ Idle
  /\ src \in known
  /\ whole => strs = Streams
  /\ op' = "evict"
  /\ pass' = [on |-> TRUE, src |-> src, strs |-> strs, whole |-> whole,
              floored |-> floored, cutoff |-> cutoff, untried |-> Listed(src)]
  /\ UNCHANGED <<file, memory, tick, landed, job, prunes>>

\* retry_deferred_seals, one stream per transaction.
RetryDeferred(str) ==
  /\ up /\ op = "evict"
  /\ str \in pass.untried
  /\ \/ CommitSeal(pass.src, {str}, deferred[<<pass.src, str>>])
     \/ DeferSeal(pass.src, {str}, deferred[<<pass.src, str>>])

\* ... whose error is not retryable: the stream is not held, only logged.
AbandonDeferred(str) ==
  /\ up /\ pass.on
  /\ IF op = "evict" THEN str \in pass.untried ELSE job.batch = {str}
  /\ deferred' = [deferred EXCEPT ![<<pass.src, str>>] = 0]
  /\ op' = "evict"
  /\ job' = NoJob
  /\ prunes' = {}
  /\ pass' = [pass EXCEPT !.untried = @ \ {str}]
  /\ UNCHANGED <<file, up, caches, dropped, tick, landed>>

EvictCommit ==
  LET held == Listed(pass.src)
      strs == pass.strs \ held
      src == pass.src
      lostSegs == EvictedSegments(segs, src, strs, pass.cutoff)
      lostWal == EvictedWal(wal, src, strs, pass.cutoff)
  IN
  /\ up /\ op = "evict" /\ pass.untried = {}
  /\ segs' = segs \ lostSegs
  /\ wal' = wal \ lostWal
  /\ clock' = clock \ EvictedClock(clock, wal', segs', src,
                                   pass.whole /\ held = {}, pass.cutoff)
  /\ callers' = callers \ EvictedCallers(callers, wal', segs', src, strs,
                                         pass.cutoff, pass.floored)
  /\ op' = "idle" /\ pass' = NoPass
  /\ UNCHANGED <<known, memory, tick, landed, job, prunes>>

\* The pass's transaction failed: the caller gets the error, the writer stays.
EvictFails ==
  /\ up /\ op = "evict" /\ pass.untried = {}
  /\ op' = "idle" /\ pass' = NoPass
  /\ UNCHANGED <<file, memory, tick, landed, job, prunes>>

-----------------------------------------------------------------------------
(***************************************************************************)
(* The source-level series.                                                *)
(***************************************************************************)

\* INSERT OR IGNORE: one observation per source and timestamp, the first.
ClockOffset(src, ts) ==
  /\ Idle
  /\ src \in known
  /\ clock' = clock \cup {[src |-> src, ts |-> ts]}
  /\ dropped' = 0
  /\ UNCHANGED <<known, segs, wal, callers, up, caches, deferred, work>>

CallerRows(c) ==
  /\ Idle
  /\ c.src \in known
  /\ callers' = callers \cup {c}
  /\ dropped' = 0
  /\ UNCHANGED <<known, segs, wal, clock, up, caches, deferred, work>>

-----------------------------------------------------------------------------
(***************************************************************************)
(* The thread goes: a kill between any two commits, a failure that is not  *)
(* retryable (an encoder error, a panic, MaxDropped ticks lost in a row),  *)
(* or Shutdown.  Its memory goes with it and the file stays as it is.      *)
(***************************************************************************)
Stop ==
  /\ up
  /\ up' = FALSE
  /\ nextSeq' = [k \in Keys |-> 0]
  /\ watermarks' = [k \in Keys |-> NoTs]
  /\ floors' = [s \in Sources |-> NoTs]
  /\ deferred' = [k \in Keys |-> 0]
  /\ dropped' = 0
  /\ op' = "idle" /\ tick' = {} /\ landed' = FALSE
  /\ job' = NoJob /\ prunes' = {} /\ pass' = NoPass
  /\ UNCHANGED file

\* Writer::open: the caches are seeded from the file.
Reopen ==
  /\ ~ up
  /\ up' = TRUE
  /\ nextSeq' \in [Keys -> {0} \cup {s.seq + 1 : s \in segs}]
  /\ watermarks' \in [Keys -> {NoTs} \cup {s.last : s \in segs}]
  /\ \A k \in Keys : /\ IsNextSeq(segs, k[1], k[2], nextSeq'[k])
                     /\ IsWatermark(segs, k[1], k[2], watermarks'[k])
  /\ UNCHANGED <<file, floors, deferred, dropped, work>>

-----------------------------------------------------------------------------
TickRows == {rows \in SUBSET Row : rows # {} /\ Cardinality(rows) <= MaxTick}

Next ==
  \/ \E src \in Sources : AddSource(src) \/ ResumeSource(src) \/ CommitSourceTick(src)
  \/ \E rows \in TickRows : CommitTick(rows) \/ SplitTick(rows)
  \/ DropCommit
  \/ \E src \in Sources, batch \in (SUBSET Streams) \ {{}}, cap \in Caps :
        Seal(src, batch, cap)
  \/ RetrySeal \/ FailPrune
  \/ \E p \in prunes : Prune(p)
  \/ \E src \in Sources, str \in Streams, rows \in (SUBSET Timestamps) \ {{}} :
        AdoptSegment(src, str, rows)
  \/ \E src \in Sources, strs \in SUBSET Streams, cutoff \in Cutoffs,
        whole, floored \in BOOLEAN : Evict(src, strs, whole, floored, cutoff)
  \/ \E str \in Streams : RetryDeferred(str) \/ AbandonDeferred(str)
  \/ EvictCommit \/ EvictFails
  \/ \E c \in {o \in ClockEntry : o.ts \in ClockTimes} : ClockOffset(c.src, c.ts)
  \/ \E c \in CallerRow : CallerRows(c)
  \/ Stop \/ Reopen

Spec == Init /\ [][Next]_vars

-----------------------------------------------------------------------------
(***************************************************************************)
(* What the writer and the file are supposed to guarantee together.        *)
(***************************************************************************)

\* A stream's segments, read in seq order, are its rows in time order, none
\* twice: numbering by next_seq and sealing past the watermark agree across
\* retries, adoptions, evictions and reopenings.  (insert_segment, live_wal)
SealedInOrder ==
  \A s, t \in segs : SameStream(s, t) =>
    \/ s = t
    \/ s.seq < t.seq /\ s.last < t.first
    \/ t.seq < s.seq /\ t.last < s.first

\* The catalog columns of a segment describe the rows in its bytes: the span
\* holds them, and ends at one.  (encoded_part, adopt_segment)
SpansHold ==
  \A s \in segs : /\ \A t \in s.rows : s.first <= t /\ t <= s.last
                  /\ s.last \in s.rows

\* What the running writer caches covers what the file says, so the next seal
\* cannot collide with a segment and no row the watermark shadows is stored.
\* (next_seq and watermarks of writer_loop)
CachesCover ==
  up => \A s \in segs : /\ s.seq < nextSeq[<<s.src, s.str>>]
                        /\ s.last <= watermarks[<<s.src, s.str>>]

\* What the thread has left to do in the middle of a message is safe to do:
\* a row waiting in a split is past its floor and its watermark, and a prune
\* reaches to the end of a segment that is committed.  (commit_tick, seal_batch)
PendingCovered ==
  /\ op = "split" <=> tick # {}
  /\ op = "prune" <=> prunes # {}
  /\ pass.on => op \in {"evict", "prune", "seal"}
  /\ ~ up => op = "idle"
  /\ \A r \in tick : floors[r.src] < r.ts /\ watermarks[<<r.src, r.str>>] < r.ts
  /\ \A p \in prunes : \E s \in segs : SameStream(s, p) /\ s.last = p.ts

\* A row that a sealed segment shadows never becomes live again, whatever is
\* evicted: the WAL delete covers every row the segment delete un-shadows.
\* (evict, evict_streams: "that is required for correctness")
NoResurrection ==
  [][\A r \in wal \cap wal' : IsLive(r, segs') => IsLive(r, segs)]_vars

\* While a stream's seal is deferred, no step takes one of its live rows or
\* one of its segments away: retention holds the stream.  (Msg::Evict)
HeldStreamsKept ==
  [][\A k \in Keys : deferred[k] > 0 /\ deferred'[k] > 0 =>
       /\ \A r \in LiveWal(wal, segs) : k = <<r.src, r.str>> => r \in wal'
       /\ \A s \in segs : k = <<s.src, s.str>> => s \in segs']_vars

\* Every row that reaches the wal table after a resume is newer than all the
\* source held at that resume.  (resume_source's floor, commit_tick)
WalAboveFloor ==
  [][\A r \in wal' \ wal : floors[r.src] < r.ts]_vars

\* A row enters the wal table live: nothing is stored that no read returns.
\* (the out-of-order rule of commit_tick, from a cache and not from the file)
StoredIsReadable ==
  [][\A r \in wal' \ wal : IsLive(r, segs')]_vars

\* Retention keeps the observation made at a surviving segment's newest row,
\* under either way of cutting the clock series.  (evict, evict_streams)
ObservationSurvives ==
  [][\A s \in segs \cap segs' :
       [src |-> s.src, ts |-> s.last] \in clock =>
         [src |-> s.src, ts |-> s.last] \in clock']_vars

\* A floored pass keeps, for every name, the latest full statement at or
\* before the oldest row the name still holds.  (CallerRowFloor)
IsBase(c, rows, w, ss) ==
  LET left == Starts(w, ss, c.src, {c.str}) IN
  /\ c.full /\ left # {}
  /\ \A t \in left : c.ts <= t
  /\ \A d \in rows : SameStream(c, d) /\ d.full /\ c.ts < d.ts =>
                        \E t \in left : t < d.ts

FullStatementSurvives ==
  [][pass.floored => \A c \in callers : IsBase(c, callers, wal', segs') => c \in callers']_vars

\* A reader sees a log: appended to, expired oldest first, thinned only by an
\* encoder.  Seals, prunes, retries, crashes and reopenings are invisible.
Log == INSTANCE DendroLog WITH Rows <- Row, log <- Readable(wal, segs)

ReadsAsLog == Log!Spec
=============================================================================
