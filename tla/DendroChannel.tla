---------------------------- MODULE DendroChannel ----------------------------
(***************************************************************************)
(* The hand-off between the threads that use an archive and its writer     *)
(* thread: one sync_channel(1), a rendezvous reply channel per question,   *)
(* and the slot the writer leaves its error in.                            *)
(*                                                                         *)
(* A caller is a SourceWriter handle, or the Writer that owns the thread.  *)
(* What a message does to the file is DendroWriter's business; here it is  *)
(* handled, refused to whoever asked, or fatal to the thread.              *)
(*                                                                         *)
(*    post       wal, wal_tick, seal, clock_offset, ...: no reply          *)
(*    ask        evict, adopt_segment, add_source, documents: a Result     *)
(*    sync       the barrier                                               *)
(*    finalize   marks the source complete; the handle follows it with a   *)
(*    barrier    Sync of its own and is consumed                           *)
(*    shutdown   join's first half                                         *)
(*                                                                         *)
(* The owner's sender goes only after Shutdown is queued or refused, so    *)
(* the writer never sees the channel closed by its last sender: that arm   *)
(* of writer_loop cannot run and has no action here.                       *)
(***************************************************************************)
EXTENDS Naturals, Sequences

CONSTANTS Handles,   \* the SourceWriter handles
          Owner,     \* the Writer
          MaxCalls   \* bound: calls one caller makes

ASSUME ChannelAssumption == Owner \notin Handles /\ MaxCalls \in Nat

Callers == Handles \cup {Owner}

Kinds == {"post", "ask", "sync", "finalize", "barrier", "shutdown"}

\* The messages that carry a reply sender.
Questions == {"ask", "sync", "barrier"}

\* What each caller's methods send first; a barrier only follows a finalize.
Starts(c) == IF c = Owner THEN {"post", "ask", "shutdown"}
                          ELSE {"post", "ask", "sync", "finalize"}

Msg == [from : Callers, kind : Kinds]
NoMsg == [from |-> Owner, kind |-> "none"]

VARIABLES
  chan,      \* what the channel buffers
  hand,      \* the message the writer is handling
  writer,    \* where writer_thread is
  result,    \* what writer_loop returned
  slot,      \* the error slot is filled
  call,      \* per caller: where it is in its call, and how the last one ended
  left,      \* per caller: calls it may still make
  complete,  \* the sources marked complete
  lost       \* the callers whose accepted messages died with the writer

vars == <<chan, hand, writer, result, slot, call, left, complete, lost>>

\* idle      no call in progress          sending   blocked in send
\* waiting   blocked in recv on a reply   failed    found the other end gone
\* joining   the owner, in thread.join    closed    consumed, dropped or joined
Places == {"idle", "sending", "waiting", "failed", "joining", "closed"}

\* ok, refused: the reply.  error: Error::Writer.  gone: Error::WriterGone.
\* alive: what an empty tick returns from check_alive when the slot is empty.
Outcomes == {"none", "ok", "refused", "error", "gone", "alive"}

TypeOK ==
  /\ chan \in Seq(Msg)
  /\ hand \in Msg \cup {NoMsg}
  /\ writer \in {"receiving", "handling", "failing", "leaving", "gone"}
  /\ result \in {"none", "ok", "error"}
  /\ slot \in BOOLEAN
  /\ call \in [Callers -> [at : Places, kind : Kinds \cup {"none"}, out : Outcomes]]
  /\ left \in [Callers -> 0..MaxCalls]
  /\ complete \subseteq Handles
  /\ lost \subseteq Callers

Init ==
  /\ chan = <<>> /\ hand = NoMsg
  /\ writer = "receiving" /\ result = "none" /\ slot = FALSE
  /\ call = [c \in Callers |-> [at |-> "idle", kind |-> "none", out |-> "none"]]
  /\ left = [c \in Callers |-> MaxCalls]
  /\ complete = {} /\ lost = {}

Goes(c, at, kind, out) == call' = [call EXCEPT ![c] = [at |-> at, kind |-> kind, out |-> out]]

\* A call that is over: a finalized handle is consumed, the others go on.
Over(kind) == IF kind \in {"finalize", "barrier"} THEN "closed" ELSE "idle"

At(c, place) == call[c].at = place

Queued == {chan[i] : i \in DOMAIN chan}

-----------------------------------------------------------------------------
(***************************************************************************)
(* The callers.                                                            *)
(***************************************************************************)

\* A slip: join drops its sender and waits for the channel to close.
CallJoinWaits(c, kind) ==
  /\ At(c, "idle")
  /\ left[c] > 0
  /\ left' = [left EXCEPT ![c] = @ - 1]
  /\ Goes(c, IF kind = "shutdown" THEN "joining" ELSE "sending", kind, "none")
  /\ UNCHANGED <<chan, hand, writer, result, slot, complete, lost>>

Call(c, kind) ==
  /\ At(c, "idle")
  /\ left[c] > 0
  /\ left' = [left EXCEPT ![c] = @ - 1]
  /\ Goes(c, "sending", kind, "none")
  /\ UNCHANGED <<chan, hand, writer, result, slot, complete, lost>>

\* Bound 1: a send blocks while one message is queued.
Room == Len(chan) < 1

\* A slip: finalize queues and returns.
SentFinalizeQueued(c, kind) ==
  CASE kind = "post"                       -> Goes(c, "idle", kind, "ok")
    [] kind = "finalize"                   -> Goes(c, "closed", kind, "ok")
    [] kind \in Questions                  -> Goes(c, "waiting", kind, "none")
    [] kind = "shutdown"                   -> Goes(c, "joining", kind, "none")

\* What a send that got through leaves its caller doing.
Sent(c, kind) ==
  CASE kind = "post"                       -> Goes(c, "idle", kind, "ok")
    [] kind = "finalize"                   -> Goes(c, "sending", "barrier", "none")
    [] kind \in Questions                  -> Goes(c, "waiting", kind, "none")
    [] kind = "shutdown"                   -> Goes(c, "joining", kind, "none")

Send(c) ==
  /\ At(c, "sending")
  /\ writer # "gone"
  /\ Room
  /\ chan' = Append(chan, [from |-> c, kind |-> call[c].kind])
  /\ Sent(c, call[c].kind)
  /\ UNCHANGED <<hand, writer, result, slot, left, complete, lost>>

\* A slip: a post whose send failed reports nothing.
RefusedSilently(c) ==
  /\ At(c, "sending")
  /\ writer = "gone"
  /\ CASE call[c].kind = "shutdown" -> Goes(c, "joining", "shutdown", "none")
       [] call[c].kind = "post"     -> Goes(c, "idle", "post", "ok")
       [] OTHER                     -> Goes(c, "failed", call[c].kind, "none")
  /\ UNCHANGED <<chan, hand, writer, result, slot, left, complete, lost>>

\* The receiver is gone.  join ignores that, the rest ask why.
Refused(c) ==
  /\ At(c, "sending")
  /\ writer = "gone"
  /\ IF call[c].kind = "shutdown" THEN Goes(c, "joining", "shutdown", "none")
                                  ELSE Goes(c, "failed", call[c].kind, "none")
  /\ UNCHANGED <<chan, hand, writer, result, slot, left, complete, lost>>

\* Whether c's question, and the reply sender in it, still exists.
Pending(c) == \E m \in Queued \cup {hand} : m.from = c /\ m.kind \in Questions

\* A slip: a closed reply channel is taken for an answer.
HangUpIsAnswer(c) ==
  /\ At(c, "waiting")
  /\ ~ Pending(c)
  /\ Goes(c, Over(call[c].kind), call[c].kind, "ok")
  /\ UNCHANGED <<chan, hand, writer, result, slot, left, complete, lost>>

\* recv on a reply channel whose sender was dropped unanswered.
HangUp(c) ==
  /\ At(c, "waiting")
  /\ ~ Pending(c)
  /\ Goes(c, "failed", call[c].kind, "none")
  /\ UNCHANGED <<chan, hand, writer, result, slot, left, complete, lost>>

\* take_writer_error.
Report(c) ==
  /\ At(c, "failed")
  /\ Goes(c, Over(call[c].kind), call[c].kind, IF slot THEN "error" ELSE "gone")
  /\ UNCHANGED <<chan, hand, writer, result, slot, left, complete, lost>>

\* A hand-off with nothing in it sends nothing: it looks at the slot.
CheckAlive(c) ==
  /\ At(c, "idle")
  /\ Goes(c, "idle", "none", IF slot THEN "error" ELSE "alive")
  /\ UNCHANGED <<chan, hand, writer, result, slot, left, complete, lost>>

DropHandle(h) ==
  /\ At(h, "idle")
  /\ Goes(h, "closed", "none", "none")
  /\ UNCHANGED <<chan, hand, writer, result, slot, left, complete, lost>>

\* The second half of join: the thread has ended, and its result is join's.
Join ==
  /\ At(Owner, "joining")
  /\ writer = "gone"
  /\ Goes(Owner, "closed", "shutdown", result)
  /\ UNCHANGED <<chan, hand, writer, result, slot, left, complete, lost>>

-----------------------------------------------------------------------------
(***************************************************************************)
(* The writer thread.                                                      *)
(***************************************************************************)
Receive ==
  /\ writer = "receiving"
  /\ chan # <<>>
  /\ hand' = Head(chan)
  /\ chan' = Tail(chan)
  /\ writer' = "handling"
  /\ UNCHANGED <<result, slot, call, left, complete, lost>>

Completes(kind) == kind = "finalize"

\* Every arm but a fatal one ends back in the loop, Shutdown's outside it.
Handle ==
  /\ writer = "handling"
  /\ hand' = NoMsg
  /\ complete' = IF Completes(hand.kind) THEN complete \cup {hand.from} ELSE complete
  /\ CASE hand.kind \in {"sync", "barrier"} ->
            Goes(hand.from, Over(hand.kind), hand.kind, "ok")
       [] hand.kind = "ask" ->
            \E answer \in {"ok", "refused"} : Goes(hand.from, "idle", "ask", answer)
       [] OTHER -> UNCHANGED call
  /\ IF hand.kind = "shutdown" THEN writer' = "leaving" /\ result' = "ok"
                               ELSE writer' = "receiving" /\ UNCHANGED result
  /\ UNCHANGED <<chan, slot, left, lost>>

\* The arms that answer never fail the thread; those that cannot answer, and
\* the reclaim at the end, do.
Fail ==
  /\ writer = "handling"
  /\ hand.kind \in {"post", "finalize", "shutdown"}
  /\ writer' = "failing"
  /\ result' = "error"
  /\ UNCHANGED <<chan, hand, slot, call, left, complete, lost>>

StoreError ==
  /\ writer = "failing"
  /\ slot' = TRUE
  /\ writer' = "leaving"
  /\ UNCHANGED <<chan, hand, result, call, left, complete, lost>>

\* Work that is lost when the thread goes: what it failed on, what is queued.
Dying == {c \in Callers : \/ \E m \in Queued : m.from = c
                          \/ hand.from = c /\ hand.kind \in {"post", "finalize"}}

\* Two slips: the receiver moved into the loop; a queue that outlives it.
DropReceiverFirst ==
  /\ writer \in {"failing", "leaving"}
  /\ writer' = "gone"
  /\ lost' = lost \cup Dying
  /\ hand' = NoMsg
  /\ chan' = <<>>
  /\ UNCHANGED <<result, slot, call, left, complete>>

DropReceiverOnly ==
  /\ writer = "leaving"
  /\ writer' = "gone"
  /\ lost' = lost \cup Dying
  /\ hand' = NoMsg
  /\ UNCHANGED <<chan, result, slot, call, left, complete>>

\* writer_thread returns: the receiver goes, and with it whatever is queued.
DropReceiver ==
  /\ writer = "leaving"
  /\ writer' = "gone"
  /\ lost' = lost \cup Dying
  /\ hand' = NoMsg
  /\ chan' = <<>>
  /\ UNCHANGED <<result, slot, call, left, complete>>

-----------------------------------------------------------------------------
CallerStep(c) == Send(c) \/ Refused(c) \/ HangUp(c) \/ Report(c)

WriterStep == Receive \/ Handle \/ Fail \/ StoreError \/ DropReceiver

Next ==
  \/ \E c \in Callers : \/ \E kind \in Starts(c) : Call(c, kind)
                        \/ Send(c) \/ Refused(c) \/ HangUp(c) \/ Report(c)
                        \/ CheckAlive(c)
  \/ \E h \in Handles : DropHandle(h)
  \/ Join
  \/ Receive \/ Handle \/ Fail \/ StoreError \/ DropReceiver

(***************************************************************************)
(* Fairness.  A thread inside a call goes on when it can, and the writer   *)
(* thread runs: a handler's retries are bounded, and so is the wait for    *)
(* SQLite's lock in each.  No caller is assumed to make a call, to be      *)
(* dropped or to join, and none to win the channel's one place against     *)
(* others that never stop sending: MaxCalls bounds those.                  *)
(***************************************************************************)
Fairness ==
  /\ \A c \in Callers : WF_vars(CallerStep(c))
  /\ WF_vars(WriterStep)
  /\ WF_vars(Join)

Spec == Init /\ [][Next]_vars /\ Fairness

-----------------------------------------------------------------------------
(***************************************************************************)
(* What the hand-off guarantees.                                           *)
(***************************************************************************)

\* A caller whose writer failed is given that failure and never the generic
\* error: the slot is filled while the channel is still open.  (writer_thread)
FailureIsNamed == \A c \in Callers : call[c].out = "gone" => result = "ok"

\* A barrier that says ok told the truth: all the work anyone had accepted
\* before was handled, and none of it has died with the writer.  (sync)
BarrierIsTrue ==
  [][\A c \in Callers :
       /\ call[c].at = "waiting" /\ call[c].kind \in {"sync", "barrier"}
       /\ call'[c].out = "ok"
       => lost = {} /\ hand.from = c /\ result = "none"]_vars

\* finalize says ok only of a source that is marked complete.  (finalize)
FinalizedIsComplete ==
  \A h \in Handles : /\ call[h].kind \in {"finalize", "barrier"}
                     /\ call[h].out = "ok"
                     => h \in complete

\* After work of a caller has died with the writer, no hand-off of that
\* caller succeeds again, an empty one after a failure included: the loss is
\* reported on its next call.  (send, check_alive)
NoOkAfterLoss ==
  [][\A c \in lost : call'[c] # call[c] =>
       /\ call'[c].out # "ok"
       /\ result = "error" => call'[c].out # "alive"]_vars

\* A kill loses at most the message in hand and the one behind it.  (spawn)
AtMostTwoInFlight == Len(chan) + (IF hand = NoMsg THEN 0 ELSE 1) <= 2

\* Every call returns, of a handle that outlives the writer too: with a reply,
\* or with the error of a writer that is gone.
CallsReturn == \A c \in Callers : (call[c].at \in {"sending", "waiting", "failed"})
                                     ~> (call[c].at \in {"idle", "joining", "closed"})

\* join returns, whoever still holds a handle.  (Msg::Shutdown)
JoinReturns == (call[Owner].kind = "shutdown") ~> At(Owner, "closed")

=============================================================================
