------------------------- MODULE DendroReplication -------------------------
(***************************************************************************)
(* Live replication of one source: an ArchivePublisher polls an archive    *)
(* that is being written, its frames travel a FIFO that may lose some, and *)
(* a Subscriber applies them to an archive of its own.                     *)
(*                                                                         *)
(* The two files share the tables of DendroCatalog here, told apart by the *)
(* source: Origin is the source in the publisher's file, Copy its copy in  *)
(* the subscriber's.  A reconnect is a new handshake, for which the        *)
(* subscriber adds a new source row: Copy is the copy of the present       *)
(* connection, and an earlier one, which nothing writes any more, is       *)
(* forgotten.  The handshake opens the FIFO and is applied with it.        *)
(*                                                                         *)
(* Every read of the publisher runs in one snapshot, so opening and a poll *)
(* are one step each; applying is one step a frame.  Reads of the WAL are  *)
(* of its live rows only, so a seal prunes at once here.                   *)
(***************************************************************************)
EXTENDS DendroCatalog, Sequences, FiniteSetsExt

CONSTANTS Origin, Copy,
          Cutoffs,         \* the cutoffs retention is asked for
          EntryTimes,      \* bound: timestamps of the caller's index entries
          ClockTimes,      \* bound: timestamps of clock observations
          Lossy,           \* the kinds of frame the transport may lose
          Sinces,          \* bound: where a catch-up may be asked to start
          MaxEntries,      \* bound: index entries ever written
          MaxWork,         \* bound: writes, seals and retention passes
          MaxLost,         \* bound: frames and connections lost
          MaxPolls         \* bound: polls of a connection with nothing to send

ASSUME ReplicationAssumption ==
  /\ Sources = {Origin, Copy} /\ Origin # Copy
  /\ IsFiniteSet(Timestamps)
  /\ Cutoffs \subseteq Int
  /\ EntryTimes \subseteq Timestamps /\ ClockTimes \subseteq Timestamps
  /\ Lossy \subseteq {"index", "clock", "segment", "rows"}
  /\ Sinces \subseteq Timestamps \cup {NoTs}
  /\ MaxEntries \in Nat /\ MaxWork \in Nat /\ MaxLost \in Nat /\ MaxPolls \in Nat

VARIABLES
  \* the files
  wal, segs, clock,
  newest,   \* the newest row ever written to a stream of Origin
  written,  \* caller_rows of Origin, ever: the timestamps, in order
  gone,     \* how many of them retention has removed
  work,     \* writes, seals and retention passes so far
  \* the connection
  linked,   \* a publisher and a subscriber are connected
  pub,      \* SourceCursor
  sub,      \* SourceState
  channel,  \* frames on their way
  \* what a caller chose or is told, and what was lost
  from,     \* the first timestamp asked for, per stream
  lost,     \* rows in frames that were lost
  skipped,  \* rows the subscriber did not write (Applied.rows_skipped)
  refused,  \* the subscriber's writer refused or dropped something
  gap,      \* Applied.gap of the last Rows frame
  silence,  \* Rows frames lost since one was applied
  losses    \* frames and connections lost so far

file == <<wal, segs, clock, newest, written, gone, work>>
link == <<linked, pub, sub, channel>>
told == <<from, lost, skipped, refused, gap, silence, losses>>
vars == <<file, link, told>>

Times == Timestamps \cup {NoTs}

\* The state an index entry carries is a hash of everything sent up to it:
\* the entries' places in written, in the order they were sent.
NoIndexState == <<>>

Frames ==
  [kind : {"index"}, entry : Nat, full : BOOLEAN, state : Seq(Nat)]
    \cup [kind : {"clock"}, ts : Timestamps]
    \cup [kind : {"segment"}, str : Streams, first : Timestamps, last : Timestamps,
          rows : SUBSET Timestamps]
    \cup [kind : {"rows"}, seq : Nat, state : Seq(Nat),
          rows : SUBSET (Streams \X Timestamps)]

TypeOK ==
  /\ wal \subseteq Row /\ segs \subseteq Segment
  /\ clock \subseteq [src : Sources, ts : Timestamps]
  /\ newest \in [Streams -> Times]
  /\ written \in Seq(EntryTimes) /\ gone \in 0..Len(written)
  /\ work \in 0..MaxWork
  /\ linked \in BOOLEAN
  /\ pub \in [wal : [Streams -> Times], index : Times, sent : Nat, clock : Times,
              seq : Nat, state : Seq(Nat), full : BOOLEAN]
  /\ sub \in [state : Seq(Nat), full : BOOLEAN, last : Nat \cup {-1}, got : Seq(Nat)]
  /\ pub.full <=> pub.state # NoIndexState
  /\ sub.full => sub.state # NoIndexState
  /\ channel \in Seq(Frames)
  /\ from \in [Streams -> Int]
  /\ lost \subseteq Streams \X Timestamps /\ skipped \subseteq Streams \X Timestamps
  /\ refused \in BOOLEAN /\ gap \in BOOLEAN
  /\ silence \in Nat /\ losses \in 0..MaxLost

-----------------------------------------------------------------------------
(***************************************************************************)
(* What the publisher reads.  The index entries of a source are kept under *)
(* one name here.                                                          *)
(***************************************************************************)
Watermark(src, str) == Max({s.last : s \in StreamSegments(segs, src, str)} \cup {NoTs})

Live(src, str) == LiveTimes(wal, segs, src, str)

\* Entries of caller_rows still there, by their place in written.
Kept == (gone + 1)..Len(written)
EntriesAt(t) == {k \in Kept : written[k] = t}

ClockSeries == {c.ts : c \in {e \in clock : e.src = Origin}}

(***************************************************************************)
(* Frames, one for each row of a query's answer, in the query's order: of  *)
(* segments, streams one after the other, each stream's by number.         *)
(***************************************************************************)
InOrder(S) ==
  {q \in Bijection(1..Cardinality(S), S) : \A i, j \in DOMAIN q : i < j => q[i] < q[j]}

InSeqOrder(ss) ==
  {q \in Bijection(1..Cardinality(ss), ss) :
     \A i, j \in DOMAIN q : i < j /\ q[i].str = q[j].str => q[i].seq < q[j].seq}

SegmentFrames(g) ==
  [i \in 1..Len(g) |->
     [kind |-> "segment", str |-> g[i].str, first |-> g[i].first, last |-> g[i].last,
      rows |-> g[i].rows]]

ClockFrames(c) == [i \in 1..Len(c) |-> [kind |-> "clock", ts |-> c[i]]]

(***************************************************************************)
(* emit_index: the entries from since on, when none was sent yet, and else *)
(* those past the last one sent; several may share a timestamp, so a count *)
(* says where inside it to go on.  q are the entries it sends, in order.   *)
(***************************************************************************)


Unsent(p, since) ==
  {k \in Kept :
     IF p.index = NoTs
       THEN since <= written[k]
       ELSE \/ p.index < written[k]
            \/ /\ written[k] = p.index
               /\ p.sent <= Cardinality({j \in EntriesAt(p.index) : j < k})}

IndexFrames(p, q) ==
  [i \in 1..Len(q) |->
     [kind |-> "index", entry |-> q[i], full |-> i = 1 /\ ~ p.full,
      state |-> p.state \o SubSeq(q, 1, i)]]

\* A slip: an opening batch without entries counts as the Full one.
IndexSentOpened(p, q) ==
  LET last == Max({written[k] : k \in Range(q)} \cup {p.index})
  IN  [p EXCEPT !.index = last,
                !.sent  = IF last = NoTs THEN 0 ELSE Cardinality(EntriesAt(last)),
                !.state = p.state \o q,
                !.full  = TRUE]

IndexSent(p, q) ==
  LET last == Max({written[k] : k \in Range(q)} \cup {p.index})
  IN  [p EXCEPT !.index = last,
                !.sent  = IF last = NoTs THEN 0 ELSE Cardinality(EntriesAt(last)),
                !.state = p.state \o q,
                !.full  = p.full \/ q # <<>>]

-----------------------------------------------------------------------------
(***************************************************************************)
(* The publisher's archive, written meanwhile.  Producers append to a      *)
(* stream in time order, and the caller keeps its index entries in theirs. *)
(***************************************************************************)
\* One more change to a file.
Work == work < MaxWork /\ work' = work + 1

Write(str, t) ==
  /\ Work
  /\ newest[str] < t
  /\ newest' = [newest EXCEPT ![str] = t]
  /\ wal' = wal \cup {[src |-> Origin, str |-> str, ts |-> t]}
  /\ UNCHANGED <<segs, clock, written, gone, link, told>>

\* Entries are written in time order, and never at a timestamp retention has
\* cut: the cursor would take such an entry for the one that was there.
WriteEntry(t) ==
  /\ Work
  /\ Len(written) < MaxEntries
  /\ \A k \in 1..Len(written) : written[k] <= t
  /\ \A k \in 1..gone : written[k] < t
  /\ written' = Append(written, t)
  /\ UNCHANGED <<wal, segs, clock, newest, gone, link, told>>

Observe(t) ==
  /\ Work
  /\ clock' = clock \cup {[src |-> Origin, ts |-> t]}
  /\ UNCHANGED <<wal, segs, newest, written, gone, link, told>>

\* next_seqs: MAX(seq) + 1; only the order of the numbers matters here.
NextSeq(src, str) == Max({s.seq : s \in StreamSegments(segs, src, str)} \cup {-1}) + 1

NewSegment(src, str, f, l, rows) ==
  [src |-> src, str |-> str, seq |-> NextSeq(src, str), first |-> f, last |-> l,
   rows |-> rows]

\* A seal of the live rows in f .. l, and its prune.
SealTo(src, str, f, l) ==
  /\ Work
  /\ f <= l
  /\ segs' = segs \cup
       {NewSegment(src, str, f, l, {t \in Live(src, str) : f <= t /\ t <= l})}
  /\ wal' = {r \in wal : ~ (r.src = src /\ r.str = str /\ r.ts <= l)}
  /\ clock' = clock \cup {[src |-> src, ts |-> l]}
  /\ UNCHANGED <<newest, written, gone, link, told>>

\* An encoder may leave out a leading and a trailing run.
Seal(str) == \E f, l \in Live(Origin, str) : SealTo(Origin, str, f, l)

Evict(cutoff) ==
  /\ Work
  /\ wal' = wal \ EvictedWal(wal, Origin, Streams, cutoff)
  /\ segs' = segs \ EvictedSegments(segs, Origin, Streams, cutoff)
  /\ clock' = clock \ EvictedClock(clock, wal, segs, Origin, TRUE, cutoff)
  /\ gone' = Max({gone} \cup {k \in 1..Len(written) : written[k] < cutoff})
  /\ UNCHANGED <<newest, written, link, told>>

-----------------------------------------------------------------------------
(***************************************************************************)
(* Connections.                                                            *)
(***************************************************************************)
NoCursor ==
  [wal |-> [str \in Streams |-> NoTs], index |-> NoTs, sent |-> 0, clock |-> NoTs,
   seq |-> 0, state |-> NoIndexState, full |-> FALSE]

NoSource == [state |-> NoIndexState, full |-> FALSE, last |-> -1, got |-> <<>>]

\* Handshake, and whatever of an opening batch the two ways to start share.
Connect(p, frames, start) ==
  /\ ~ linked
  /\ linked' = TRUE
  /\ pub' = p
  /\ sub' = NoSource
  /\ channel' = frames
  /\ from' = start
  /\ wal' = {r \in wal : r.src = Origin}
  /\ segs' = {s \in segs : s.src = Origin}
  /\ clock' = {c \in clock : c.src = Origin}
  /\ lost' = {} /\ skipped' = {} /\ gap' = FALSE /\ silence' = 0
  /\ UNCHANGED <<newest, written, gone, work, refused, losses>>

Overlapping(since) == {s \in segs : s.src = Origin /\ since <= s.last}

CatchUp(since) ==
  LET series == {t \in ClockSeries : since <= t}
  IN  \E q \in InOrder(Unsent(NoCursor, since)), g \in InSeqOrder(Overlapping(since)),
         c \in InOrder(series) :
        Connect([IndexSent(NoCursor, q) EXCEPT
                   !.wal = [str \in Streams |-> Watermark(Origin, str)],
                   !.clock = Max(series \cup {NoTs})],
                IndexFrames(NoCursor, q) \o SegmentFrames(g) \o ClockFrames(c),
                [str \in Streams |-> since])

Tailing ==
  LET past == [str \in Streams |-> Max(Live(Origin, str) \cup {Watermark(Origin, str)})]
  IN  \E q \in InOrder(Unsent(NoCursor, NoTs)) :
        Connect([IndexSent(NoCursor, q) EXCEPT
                   !.wal = past, !.clock = Max(ClockSeries \cup {NoTs})],
                IndexFrames(NoCursor, q),
                [str \in Streams |-> past[str] + 1])

\* A slip: the seal check is not made.
SealedNeverPast == FALSE

\* A seal carried rows past the cursor out of the live tail.
SealedPast ==
  \E str \in Streams : pub.wal[str] # NoTs /\ pub.wal[str] < Watermark(Origin, str)

\* A slip: what was sealed since the last poll is sent as segments.
OpeningAlways == {s \in segs : s.src = Origin /\ pub.wal[s.str] <= s.last}

\* Segments of the streams no row of which was sent yet.
Opening == {s \in segs : s.src = Origin /\ pub.wal[s.str] = NoTs}

\* Where the tail is read from.
Cursor(str) == IF pub.wal[str] = NoTs THEN Watermark(Origin, str) ELSE pub.wal[str]

Unshipped == {x \in Streams \X Timestamps : x[2] \in Live(Origin, x[1])
                                               /\ Cursor(x[1]) < x[2]}

Poll ==
  LET series == {t \in ClockSeries : pub.clock < t} IN
  /\ linked
  /\ ~ SealedPast
  /\ \E q \in InOrder(Unsent(pub, NoTs)), c \in InOrder(series), g \in InSeqOrder(Opening) :
       LET next   == IndexSent(pub, q)
           before == IndexFrames(pub, q) \o ClockFrames(c) \o SegmentFrames(g)
       IN  /\ before # <<>> \/ Unshipped # {} \/ pub.seq < MaxPolls
           /\ channel' = channel \o before
                           \o <<[kind |-> "rows", seq |-> pub.seq, state |-> next.state,
                                 rows |-> Unshipped]>>
           /\ pub' = [next EXCEPT
                        !.wal = [str \in Streams |->
                                   Max(Live(Origin, str) \cup {Cursor(str)})],
                        !.clock = Max(series \cup {pub.clock}),
                        !.seq = pub.seq + 1]
  /\ UNCHANGED <<file, linked, sub, told>>

\* next returns an error, and the caller gives the connection up.
PollFails ==
  /\ linked
  /\ SealedPast
  /\ linked' = FALSE
  /\ UNCHANGED <<file, pub, sub, channel, told>>

\* The transport breaks, with whatever is on its way.
Disconnect ==
  /\ linked
  /\ losses < MaxLost
  /\ losses' = losses + 1
  /\ linked' = FALSE
  /\ channel' = <<>>
  /\ UNCHANGED <<file, pub, sub, from, lost, skipped, refused, gap, silence>>

-----------------------------------------------------------------------------
(***************************************************************************)
(* The subscriber.  Each action takes the first frame of the channel.      *)
(***************************************************************************)
First(kind) == channel # <<>> /\ Head(channel).kind = kind

Take ==
  /\ channel' = Tail(channel)
  /\ UNCHANGED <<newest, written, gone, work, linked, pub, from, lost, losses>>

ApplyIndex ==
  /\ First("index")
  /\ Take
  /\ sub' = [sub EXCEPT !.state = Head(channel).state,
                        !.full = sub.full \/ Head(channel).full,
                        !.got = Append(sub.got, Head(channel).entry)]
  /\ UNCHANGED <<wal, segs, clock, skipped, refused, gap, silence>>

ApplyClock ==
  /\ First("clock")
  /\ Take
  /\ clock' = clock \cup {[src |-> Copy, ts |-> Head(channel).ts]}
  /\ UNCHANGED <<wal, segs, sub, skipped, refused, gap, silence>>

(***************************************************************************)
(* adopt_segment: held when the stream's watermark covers it, refused when *)
(* it straddles that, or when it would shadow a row that is still live.    *)
(***************************************************************************)
Held(f) == f.last <= Watermark(Copy, f.str)

Refused(f) ==
  /\ ~ Held(f)
  /\ \/ f.first <= Watermark(Copy, f.str)
     \/ \E t \in Live(Copy, f.str) : t <= f.last

ApplySegment ==
  /\ First("segment")
  /\ Take
  /\ LET f == Head(channel)
     IN  /\ segs' = IF Held(f) \/ Refused(f)
                      THEN segs
                      ELSE segs \cup {NewSegment(Copy, f.str, f.first, f.last, f.rows)}
         /\ refused' = (refused \/ Refused(f))
  /\ UNCHANGED <<wal, clock, sub, skipped, gap, silence>>

\* A slip: the first frame lost makes no gap, and neither does the next.
JumpsByTwo(seq) == sub.last # -1 /\ sub.last + 2 < seq

\* The sequence number skips one.
Jumps(seq) == sub.last # -1 /\ sub.last + 1 < seq

\* Rule 9, and the rule before the first Full.
Resolvable(f) ==
  /\ f.state = NoIndexState \/ sub.full
  /\ f.state = sub.state

\* Rows the subscriber's writer drops: behind the watermark, or held already.
Dropped(rows) ==
  {x \in rows : x[2] <= Watermark(Copy, x[1]) \/ x[2] \in Live(Copy, x[1])}

ApplyRows ==
  /\ First("rows")
  /\ Take
  /\ LET f    == Head(channel)
         rows == IF Resolvable(f) THEN f.rows ELSE {}
     IN  /\ gap' = Jumps(f.seq)
         /\ sub' = [sub EXCEPT !.last = f.seq]
         /\ wal' = wal \cup {[src |-> Copy, str |-> x[1], ts |-> x[2]] :
                               x \in rows \ Dropped(rows)}
         /\ refused' = (refused \/ Dropped(rows) # {})
         /\ skipped' = skipped \cup (f.rows \ rows)
  /\ silence' = 0
  /\ UNCHANGED <<segs, clock>>

Apply == ApplyIndex \/ ApplyClock \/ ApplySegment \/ ApplyRows

\* The subscriber seals by a policy of its own.  An encoder that leaves out
\* rows makes a hole no protocol sees, so its first row is taken to be kept.
SealCopy(str) ==
  \E f, l \in Live(Copy, str) :
    /\ \A t \in Live(Copy, str) : f <= t
    /\ SealTo(Copy, str, f, l)

RowsOf(f) ==
  CASE f.kind = "rows"    -> f.rows
    [] f.kind = "segment" -> {f.str} \X f.rows
    [] OTHER              -> {}

Lose ==
  /\ channel # <<>>
  /\ Head(channel).kind \in Lossy
  /\ losses < MaxLost
  /\ losses' = losses + 1
  /\ channel' = Tail(channel)
  /\ lost' = lost \cup RowsOf(Head(channel))
  /\ silence' = IF Head(channel).kind = "rows" /\ sub.last # -1
                  THEN silence + 1 ELSE silence
  /\ UNCHANGED <<file, linked, pub, sub, from, skipped, refused, gap>>

-----------------------------------------------------------------------------
Init ==
  /\ wal = {} /\ segs = {} /\ clock = {} /\ written = <<>> /\ gone = 0
  /\ work = 0
  /\ newest = [str \in Streams |-> NoTs]
  /\ linked = FALSE /\ pub = NoCursor /\ sub = NoSource /\ channel = <<>>
  /\ from = [str \in Streams |-> NoTs]
  /\ lost = {} /\ skipped = {} /\ refused = FALSE /\ gap = FALSE
  /\ silence = 0 /\ losses = 0

Next ==
  \/ \E str \in Streams, t \in Timestamps : Write(str, t)
  \/ \E t \in EntryTimes : WriteEntry(t)
  \/ \E t \in ClockTimes : Observe(t)
  \/ \E str \in Streams : Seal(str) \/ SealCopy(str)
  \/ \E cutoff \in Cutoffs : Evict(cutoff)
  \/ \E since \in Sinces : CatchUp(since)
  \/ Tailing
  \/ Poll
  \/ PollFails
  \/ Disconnect
  \/ Apply
  \/ Lose

Reconnect == \E since \in Sinces : CatchUp(since)

(***************************************************************************)
(* The publisher is polled on a timer, frames arrive, and a caller whose   *)
(* poll failed, or whose connection broke, connects again, catching up.    *)
(***************************************************************************)
Fairness ==
  /\ WF_vars(Poll \/ PollFails \/ Reconnect) /\ WF_vars(Apply)

Spec == Init /\ [][Next]_vars /\ Fairness

-----------------------------------------------------------------------------
(***************************************************************************)
(* Properties.                                                             *)
(***************************************************************************)
Visible(src, str) ==
  {r.ts : r \in {x \in Readable(wal, segs) : x.src = src /\ x.str = str}}

\* Rows that will not come any more, and say so: lost, or skipped.
Missed(str) == {t \in Timestamps : <<str, t>> \in lost \cup skipped}

Received(k) == \E i \in 1..Len(sub.got) : sub.got[i] = k

InFlight(str) ==
  {t \in Timestamps : \E i \in 1..Len(channel) : <<str, t>> \in RowsOf(channel[i])}

(***************************************************************************)
(* The copy has no hole: a row of the publisher's archive that is still    *)
(* there, was asked for and lies at or below the cursor is in the copy, on *)
(* its way, or was lost with a frame, whatever was sealed on either side   *)
(* between two polls ("rather than shipping a stream with a hole in it",   *)
(* ArchivePublisher).                                                      *)
(***************************************************************************)
NoHole ==
  linked =>
    \A str \in Streams : \A t \in Visible(Origin, str) :
      from[str] <= t /\ t <= pub.wal[str] =>
        t \in Visible(Copy, str) \cup InFlight(str) \cup Missed(str)

(***************************************************************************)
(* Catch-up segments and tail rows never collide in the copy: the          *)
(* subscriber's writer refuses no segment and drops no row, whenever it    *)
(* seals.  ("In a well-formed stream this cannot fire", adopt_segment)     *)
(***************************************************************************)
NothingRefused == ~ refused

(***************************************************************************)
(* A subscriber that lost no index entry skips no row: what a Rows frame   *)
(* was built against has always arrived before it, and a Full first.       *)
(* (rule 4, and the reason emit_index gives for keying Full on an entry)   *)
(***************************************************************************)
NothingSkipped == "index" \notin Lossy => skipped = {}

(***************************************************************************)
(* Rule 6: a gap is reported exactly when a Rows frame was lost since the  *)
(* last one applied.  (Applied.gap)                                        *)
(***************************************************************************)
GapMeansLoss == [][sub'.last # sub.last /\ sub'.last # -1 => (gap' <=> silence > 0)]_vars

(***************************************************************************)
(* Rows are applied only by a subscriber that holds every index entry they *)
(* were built against ("a missed Delta is loud rather than silent",        *)
(* Frame::Index).                                                          *)
(***************************************************************************)
RowsAttributed ==
  [][First("rows") /\ channel' = Tail(channel) /\ wal' # wal
       => sub.got = Head(channel).state]_vars


=============================================================================
