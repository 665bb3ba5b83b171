--------------------------- MODULE DendroLifecycle ---------------------------
(***************************************************************************)
(* A source's life in the catalog: the row in `sources`, the sessions it   *)
(* records, the complete flag, and the heartbeat by which a reader of the  *)
(* file judges whether a writer runs.                                      *)
(*                                                                         *)
(* Adding and resuming a source are several commits, between which the     *)
(* process may be killed or a commit may fail; a message's handler runs to *)
(* its end before the next is taken.  Rows are counted, not looked at.     *)
(*                                                                         *)
(* Time passes in heartbeat intervals, for the writer and a reader alike.  *)
(***************************************************************************)
EXTENDS Naturals

CONSTANTS Sources,       \* the rows `sources` may come to hold
          Watched,       \* the sources a reader watches
          StoppedAfter,  \* STOPPED_AFTER_INTERVALS
          MaxSessions,   \* bound: sessions per source
          MaxRows        \* bound: commits of rows per source

ASSUME LifecycleAssumption ==
  /\ Watched \subseteq Sources
  /\ StoppedAfter \in Nat \ {0}
  /\ MaxSessions \in Nat /\ MaxRows \in Nat

VARIABLES
  \* the file
  known,      \* the sources the catalog has
  complete,   \* of them, the ones marked complete
  sessions,   \* per source: entries under WRITER_SESSIONS
  announced,  \* the sources whose EVENTS tell of their latest resume
  rows,       \* per source: row commits
  beat,       \* per source: the heartbeat, 0 for NULL
  interval,   \* the sources with a heartbeat interval
  \* the writer thread and its callers
  running, op, added, finalized, beating,
  elapsed,    \* intervals since the loop last beat: none, or it is due
  open,       \* per source: handles in callers' hands
  began,      \* per source: handles ever handed out
  dropped,    \* the sources with a handle dropped, not finalized, since opening
  shared,     \* history, kept by no code: the sources resumed while a handle
              \* on them was open, since opening
  reclaimed,  \* the thread ended by draining the free list
  \* the reader
  watch,      \* per source: the last value seen, and for how long
  silence     \* per source: intervals since a beat was committed

file == <<known, complete, sessions, announced, rows, beat, interval>>
thread == <<running, op, added, finalized, beating, elapsed, open, began, dropped, shared,
            reclaimed>>
vars == <<file, thread, watch, silence>>

NoOp == [kind |-> "none"]
Ops == [kind : {"add", "resume"}, src : Sources, at : {"record", "beat", "version", "reply"}]

\* A counter that only grows never comes back to a value a watch holds, and
\* nothing but equality is asked of it: three values are enough.
Beats == 1..3

TypeOK ==
  /\ known \subseteq Sources /\ complete \subseteq known
  /\ sessions \in [Sources -> 0..MaxSessions]
  /\ announced \subseteq known /\ interval \subseteq known
  /\ rows \in [Sources -> 0..MaxRows]
  /\ beat \in [Sources -> {0} \cup Beats]
  /\ running \in BOOLEAN /\ reclaimed \in BOOLEAN
  /\ op \in Ops \cup {NoOp}
  /\ added \in Nat /\ finalized \in 0..added
  /\ beating \subseteq known
  /\ elapsed \in {0, 1}
  /\ open \in [Sources -> 0..MaxSessions] /\ began \in [Sources -> 0..MaxSessions]
  /\ dropped \subseteq known /\ shared \subseteq known
  /\ watch \in [Sources -> [seen : {0} \cup Beats, age : 0..StoppedAfter]]
  /\ silence \in [Sources -> 0..StoppedAfter]

Zero == [s \in Sources |-> 0]

Init ==
  /\ known = {} /\ complete = {} /\ announced = {} /\ interval = {}
  /\ sessions = Zero /\ rows = Zero /\ beat = Zero
  /\ running = TRUE /\ op = NoOp /\ added = 0 /\ finalized = 0
  /\ beating = {} /\ elapsed = 0
  /\ open = Zero /\ began = Zero /\ dropped = {} /\ shared = {}
  /\ reclaimed = FALSE
  /\ watch = [s \in Sources |-> [seen |-> 0, age |-> 0]]
  /\ silence = Zero

-----------------------------------------------------------------------------
\* The loop beats before it takes a message, if a beat is due.
Ready == running /\ op = NoOp /\ elapsed = 0

\* A slip: a beat writes the same value every time.
SameBeat(s) == 1

NextBeat(s) == CHOOSE n \in Beats : n # beat[s] /\ n # watch[s].seen

Beaten(S) == [s \in Sources |-> IF s \in S THEN NextBeat(s) ELSE beat[s]]
Heard(S) == [s \in Sources |-> IF s \in S THEN 0 ELSE silence[s]]

(***************************************************************************)
(* Msg::AddSource and Msg::ResumeSource.                                   *)
(***************************************************************************)
InsertSource(s) ==
  /\ Ready
  /\ s \notin known
  /\ MaxSessions > 0
  /\ known' = known \cup {s}
  /\ op' = [kind |-> "add", src |-> s, at |-> "record"]
  /\ UNCHANGED <<complete, sessions, announced, rows, beat, interval, running, added,
                 finalized, beating, elapsed, open, began, dropped, shared, reclaimed,
                 watch, silence>>

\* A slip: a resume leaves the flag.
ClearedNever(s) == complete

\* mark_incomplete.
Cleared(s) == complete \ {s}

\* An anchor at or before the newest row is refused before anything changes.
Resume(s) ==
  /\ Ready
  /\ s \in known
  /\ sessions[s] < MaxSessions
  /\ complete' = Cleared(s)
  /\ shared' = IF open[s] = 0 THEN shared ELSE shared \cup {s}
  /\ op' = [kind |-> "resume", src |-> s, at |-> "record"]
  /\ UNCHANGED <<known, sessions, announced, rows, beat, interval, running, added,
                 finalized, beating, elapsed, open, began, dropped, reclaimed,
                 watch, silence>>

\* record_session: one patch of the source's metadata.
RecordSession ==
  /\ op # NoOp /\ op.at = "record"
  /\ sessions' = [sessions EXCEPT ![op.src] = @ + 1]
  /\ announced' = IF op.kind = "resume" THEN announced \cup {op.src} ELSE announced
  /\ op' = [op EXCEPT !.at = "beat"]
  /\ UNCHANGED <<known, complete, rows, beat, interval, running, added, finalized,
                 beating,
                 elapsed, open, began, dropped, shared, reclaimed, watch, silence>>

\* The encoder's version is recorded for an added source.
AfterBeat == IF op.kind = "add" THEN "version" ELSE "reply"

\* start_heartbeat: interval and first beat in one transaction.
StartHeartbeat ==
  /\ op # NoOp /\ op.at = "beat"
  /\ interval' = interval \cup {op.src}
  /\ beat' = Beaten({op.src})
  /\ silence' = Heard({op.src})
  /\ op' = [op EXCEPT !.at = AfterBeat]
  /\ UNCHANGED <<known, complete, sessions, announced, rows, running, added, finalized,
                 beating, elapsed, open, began, dropped, shared, reclaimed, watch>>

\* It is best-effort.
HeartbeatFails ==
  /\ op # NoOp /\ op.at = "beat"
  /\ op' = [op EXCEPT !.at = AfterBeat]
  /\ UNCHANGED <<file, running, added, finalized, beating, elapsed, open, began,
                 dropped,
                 shared, reclaimed, watch, silence>>

Counted == added + 1

\* The last commit, if there is one, and the reply with the handle in it.
HandOver ==
  /\ op # NoOp /\ op.at \in {"version", "reply"}
  /\ op' = NoOp
  /\ added' = Counted
  /\ beating' = beating \cup {op.src}
  /\ open' = [open EXCEPT ![op.src] = @ + 1]
  /\ began' = [began EXCEPT ![op.src] = @ + 1]
  /\ UNCHANGED <<file, running, finalized, elapsed, dropped, shared, reclaimed, watch, silence>>

\* A commit of the chain fails: the caller is told, the rest stays as it is.
GiveUp ==
  /\ op # NoOp /\ op.at \in {"record", "version"}
  /\ op' = NoOp
  /\ UNCHANGED <<file, running, added, finalized, beating, elapsed, open, began,
                 dropped,
                 shared, reclaimed, watch, silence>>

-----------------------------------------------------------------------------
(***************************************************************************)
(* The rest of a session.                                                  *)
(***************************************************************************)

\* Msg::Wal, which looks at nothing but the id.
CommitRows(s) ==
  /\ Ready
  /\ rows[s] < MaxRows
  /\ rows' = [rows EXCEPT ![s] = @ + 1]
  /\ UNCHANGED <<known, complete, sessions, announced, beat, interval, thread,
                 watch, silence>>

\* SourceWriter::wal.
Append(s) == open[s] > 0 /\ CommitRows(s)

\* Writer::wal_tick, which takes any id, with or without a handle on it.
WalTick(s) == s \in known /\ CommitRows(s)

\* A slip: sessions are part of what the caller replaces.
ForgottenSessions(s) == [sessions EXCEPT ![s] = 0]

\* ENCODER and WRITER_SESSIONS keep their stored values.
KeptSessions(s) == sessions

\* set_identity: EVENTS are as the caller gives them.
SetIdentity(s) ==
  /\ Ready
  /\ open[s] > 0
  /\ sessions' = KeptSessions(s)
  /\ announced' = announced \ {s}
  /\ UNCHANGED <<known, complete, rows, beat, interval, thread, watch, silence>>

\* Msg::Finalize: the clock offset and the flag in one transaction.
Finalize(s) ==
  /\ Ready
  /\ open[s] > 0
  /\ complete' = complete \cup {s}
  /\ finalized' = finalized + 1
  /\ beating' = beating \ {s}
  /\ open' = [open EXCEPT ![s] = @ - 1]
  /\ UNCHANGED <<known, sessions, announced, rows, beat, interval, running, op,
                 added, elapsed,
                 began, dropped, shared, reclaimed, watch, silence>>

DropHandle(s) ==
  /\ running
  /\ open[s] > 0
  /\ open' = [open EXCEPT ![s] = @ - 1]
  /\ dropped' = dropped \cup {s}
  /\ UNCHANGED <<file, running, op, added, finalized, beating, elapsed, began,
                 shared, reclaimed, watch, silence>>

\* The loop's bump of every source it beats, when due.
LoopBeat ==
  /\ running /\ op = NoOp /\ elapsed = 1
  /\ elapsed' = 0
  /\ beat' = Beaten(beating)
  /\ silence' = Heard(beating)
  /\ UNCHANGED <<known, complete, sessions, announced, rows, interval, running, op,
                 added,
                 finalized, beating, open, began, dropped, shared, reclaimed, watch>>

BeatFails ==
  /\ running /\ op = NoOp /\ elapsed = 1
  /\ beating # {}
  /\ elapsed' = 0
  /\ UNCHANGED <<file, running, op, added, finalized, beating, open, began, dropped,
                 shared, reclaimed, watch, silence>>

Drains == added > 0 /\ finalized = added

\* Msg::Shutdown.  Handles still open are left to find the thread gone.
Shutdown ==
  /\ Ready
  /\ running' = FALSE
  /\ reclaimed' = Drains
  /\ UNCHANGED <<file, op, added, finalized, beating, elapsed, open, began, dropped, shared,
                 watch, silence>>

\* A kill, or an error the thread ends with.
Stop ==
  /\ running
  /\ running' = FALSE
  /\ op' = NoOp
  /\ UNCHANGED <<file, added, finalized, beating, elapsed, open, began, dropped,
                 shared, reclaimed, watch, silence>>

\* Writer::open.
Reopen ==
  /\ ~ running
  /\ running' = TRUE
  /\ added' = 0 /\ finalized' = 0
  /\ beating' = {} /\ elapsed' = 0
  /\ open' = Zero /\ dropped' = {} /\ shared' = {}
  /\ reclaimed' = FALSE
  /\ UNCHANGED <<file, op, began, watch, silence>>

-----------------------------------------------------------------------------
(***************************************************************************)
(* A reader and the clock.                                                 *)
(***************************************************************************)

\* What HeartbeatWatch::observe concludes of what the file says now.
Verdict(s) ==
  IF s \in complete THEN "complete"
  ELSE IF beat[s] = 0 \/ s \notin interval THEN "unknown"
  ELSE IF watch[s].seen = beat[s] /\ watch[s].age = StoppedAfter THEN "stopped"
  ELSE "live"

\* A slip: the watch restarts its clock whenever it looks.
SeenAgain(s) == Verdict(s) \in {"live", "stopped"}

\* The watch's clock starts over when the value has changed.
Seen(s) == Verdict(s) \in {"live", "stopped"} /\ watch[s].seen # beat[s]

Observe(s) ==
  /\ Seen(s)
  /\ watch' = [watch EXCEPT ![s] = [seen |-> beat[s], age |-> 0]]
  /\ UNCHANGED <<file, thread, silence>>

Later(n) == IF n < StoppedAfter THEN n + 1 ELSE n

\* An interval passes.
Tick ==
  /\ elapsed' = 1
  /\ silence' = [s \in Sources |-> IF s \in Watched THEN Later(silence[s]) ELSE silence[s]]
  /\ watch' = [s \in Sources |->
                 IF watch[s].seen = 0 THEN watch[s] ELSE [watch[s] EXCEPT !.age = Later(@)]]
  /\ UNCHANGED <<file, running, op, added, finalized, beating, open, began,
                 dropped, shared, reclaimed>>

-----------------------------------------------------------------------------
Next ==
  \/ \E s \in Sources : \/ InsertSource(s) \/ Resume(s)
                        \/ Append(s) \/ WalTick(s)
                        \/ SetIdentity(s) \/ Finalize(s) \/ DropHandle(s)
  \/ RecordSession \/ StartHeartbeat \/ HeartbeatFails \/ HandOver \/ GiveUp
  \/ LoopBeat \/ BeatFails \/ Shutdown \/ Stop \/ Reopen
  \/ \E s \in Watched : Observe(s)
  \/ Tick

(***************************************************************************)
(* Fairness.  Time passes and the reader keeps reading the catalog.  Of    *)
(* the writer nothing is assumed: it may be killed, blocked or gone.       *)
(***************************************************************************)
Spec ==
  /\ Init /\ [][Next]_vars
  /\ WF_vars(Tick)
  /\ \A s \in Watched : WF_vars(Observe(s))

-----------------------------------------------------------------------------
(***************************************************************************)
(* What the catalog promises.                                              *)
(***************************************************************************)

\* The sessions a source lists are at least the handles ever handed out on
\* it: no session can append and stay unlisted, whatever fails or is killed
\* between the commits, and whatever identity is set.  (record_session)
SessionsListed == \A s \in Sources : began[s] <= sessions[s]

(***************************************************************************)
(* A source that reads as complete before and after a step got no beat in  *)
(* it, and no row through a handle unless it was resumed while another     *)
(* handle on it was open.  So no one session leaves a handle behind that   *)
(* can add to what it finished, over kills, failed resumes and reopenings; *)
(* what is left is wal_tick, with no handle out.  (mark_incomplete)        *)
(***************************************************************************)
CompleteIsFrozen ==
  [][\A s \in complete \cap complete' :
       /\ beat'[s] = beat[s]
       /\ rows'[s] # rows[s] => open[s] = 0 \/ s \in shared]_vars

\* A reader judges a writer stopped only if it has committed no beat for
\* STOPPED_AFTER_INTERVALS, over kills and resumes.  (HeartbeatWatch)
StoppedIsSilent == \A s \in Watched : Verdict(s) = "stopped" => silence[s] = StoppedAfter

\* A writer that is gone is found out, unless the source was finalized or
\* never beat, or the archive is opened again.  (HeartbeatWatch)
StoppedIsNoticed ==
  \A s \in Watched :
    (~ running /\ Verdict(s) = "live") ~> (Verdict(s) = "stopped" \/ running)

=============================================================================
