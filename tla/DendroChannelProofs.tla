------------------------- MODULE DendroChannelProofs -------------------------
(***************************************************************************)
(* What the hand-off of DendroChannel guarantees, for any set of handles   *)
(* and any number of calls.                                                *)
(***************************************************************************)
EXTENDS DendroChannel, TLAPS

-----------------------------------------------------------------------------
(***************************************************************************)
(* The inductive invariant.                                                *)
(***************************************************************************)

\* Where the writer thread is, and what it holds there.
Writing ==
  /\ Len(chan) <= 1
  /\ result = "none" <=> writer \in {"receiving", "handling"}
  /\ writer = "failing" => result = "error"
  /\ result = "error" /\ writer # "failing" => slot
  /\ writer = "handling" => hand \in Msg
  /\ writer \in {"receiving", "gone"} => hand = NoMsg
  /\ writer = "leaving" /\ result = "ok" => hand = NoMsg
  /\ writer = "gone" => chan = <<>>
  /\ lost # {} => writer = "gone"

\* What a caller's place says about its call.
Calling ==
  \A c \in Callers :
    /\ call[c].at = "sending" => call[c].kind \in Kinds
    /\ call[c].at = "waiting" => call[c].kind \in Questions /\ call[c].out = "none"
    /\ call[c].at = "waiting" => Pending(c) \/ writer = "gone"
    /\ call[c].at = "failed" => writer = "gone"
    /\ call[c].out = "gone" => result = "ok"
    /\ call[c].kind \in {"finalize", "barrier"} => c \in Handles
    /\ call[c].kind = "finalize" => call[c].out # "ok"
    /\ call[c].kind = "shutdown" => c = Owner

\* A question has one caller, waiting on it, and no two questions share one.
Asking ==
  /\ \A m \in Queued \cup {hand} :
        m.kind \in Questions => /\ call[m.from].at = "waiting"
                                /\ call[m.from].kind = m.kind
  /\ \A m \in Queued : m.kind \in Questions /\ hand.kind \in Questions => m.from # hand.from

\* The finalize in front of a barrier has been handled, or is being, or never
\* will be.
Landed(h) ==
  \/ h \in complete
  \/ hand = [from |-> h, kind |-> "finalize"]
  \/ writer \in {"failing", "leaving", "gone"}

Completing ==
  /\ \A m \in Queued \cup {hand} : m.kind \in {"finalize", "barrier"} => m.from \in Handles
  /\ hand.kind = "barrier" => hand.from \in complete
  /\ \A m \in Queued : m.kind = "barrier" => Landed(m.from)
  /\ \A h \in Handles : call[h].kind = "barrier" /\ call[h].at = "sending" =>
        Landed(h) \/ [from |-> h, kind |-> "finalize"] \in Queued
  /\ FinalizedIsComplete

\* Nothing of the owner's is behind its Shutdown.
Stopping ==
  /\ \A m \in Queued \cup {hand} : m.kind = "shutdown" => m.from = Owner
  /\ \A m \in Queued \cup {hand} : m.kind = "shutdown" =>
        call[Owner].at \in {"joining", "closed"}
  /\ result = "ok" => call[Owner].at \in {"joining", "closed"}
  /\ hand.kind = "shutdown" \/ result = "ok" => \A m \in Queued : m.from # Owner
  /\ result = "ok" => Owner \notin lost

Inv ==
  /\ TypeOK
  /\ Writing
  /\ Calling
  /\ Asking
  /\ Completing
  /\ Stopping

-----------------------------------------------------------------------------
\* What a caller's change of place does to the calls.
LEMMA GoesEffect ==
  ASSUME TypeOK, NEW c \in Callers, NEW at \in Places, NEW kind \in Kinds \cup {"none"},
         NEW out \in Outcomes, Goes(c, at, kind, out)
  PROVE  /\ call' \in [Callers -> [at : Places, kind : Kinds \cup {"none"}, out : Outcomes]]
         /\ call'[c].at = at /\ call'[c].kind = kind /\ call'[c].out = out
         /\ \A d \in Callers : d # c => call'[d] = call[d]
BY DEF Goes, TypeOK

\* A call's fields are what TypeOK says they are.
LEMMA CallFields ==
  ASSUME TypeOK, NEW c \in Callers
  PROVE  /\ call[c].at \in Places /\ call[c].kind \in Kinds \cup {"none"}
         /\ call[c].out \in Outcomes
BY DEF TypeOK

\* A message is its sender and its kind.
LEMMA MsgFields ==
  ASSUME NEW m \in Msg
  PROVE  m.from \in Callers /\ m.kind \in Kinds /\ m = [from |-> m.from, kind |-> m.kind]
BY DEF Msg

\* The channel holds nothing, or one message.  (sync_channel(1))
LEMMA OneQueued ==
  ASSUME TypeOK, Len(chan) <= 1
  PROVE  \/ chan = <<>> /\ Queued = {}
         \/ \E m \in Msg : chan = <<m>> /\ Queued = {m}
<1>1. chan \in Seq(Msg) /\ Len(chan) \in Nat
  BY DEF TypeOK
<1>2. CASE Len(chan) = 0
  <2>1. chan = <<>>
    BY <1>1, <1>2
  <2>2. Queued = {}
    BY <2>1 DEF Queued
  <2> QED BY <2>1, <2>2
<1>3. CASE Len(chan) = 1
  <2>1. chan = <<chan[1]>> /\ chan[1] \in Msg
    BY <1>1, <1>3
  <2>2. DOMAIN chan = {1}
    BY <1>1, <1>3
  <2>3. Queued = {chan[1]}
    BY <2>2 DEF Queued
  <2> QED BY <2>1, <2>3
<1>4. \A n \in Nat : n <= 1 => n = 0 \/ n = 1
  OBVIOUS
<1>5. Len(chan) = 0 \/ Len(chan) = 1
  BY <1>1, <1>4
<1> QED BY <1>2, <1>3, <1>5

\* A new hand-off is well formed and nothing is queued.  (spawn)
LEMMA InitInv == Init => Inv
<1> SUFFICES ASSUME Init  PROVE Inv
  OBVIOUS
<1>1. TypeOK
  <2>1. call \in [Callers -> [at : Places, kind : Kinds \cup {"none"}, out : Outcomes]]
    BY DEF Init, Places, Outcomes
  <2>2. left \in [Callers -> 0..MaxCalls]
    BY ChannelAssumption DEF Init
  <2>3. chan \in Seq(Msg)
    BY DEF Init
  <2> QED BY <2>1, <2>2, <2>3 DEF Init, TypeOK
<1>2. Queued = {}
  BY DEF Init, Queued
<1>3. /\ hand.kind = "none" /\ hand.from = Owner /\ Len(chan) = 0
  BY DEF Init, NoMsg
<1>4. \A c \in Callers : call[c].at = "idle" /\ call[c].kind = "none" /\ call[c].out = "none"
  BY DEF Init
<1>5. Writing
  BY <1>3 DEF Init, Writing
<1>6. Calling
  BY <1>4 DEF Calling
<1>7. Asking /\ Completing /\ Stopping
  BY <1>2, <1>3, <1>4 DEF Init, Asking, Completing, Stopping, FinalizedIsComplete, Callers,
                          Questions
<1> QED BY <1>1, <1>5, <1>6, <1>7 DEF Inv

-----------------------------------------------------------------------------
(***************************************************************************)
(* Steps of one caller that leave the channel and the writer alone.        *)
(***************************************************************************)

\* A caller that ends, starts or gives up a call moves nobody else, and asks
\* nothing of the writer's half of the invariant.
LEMMA CallerMoves ==
  ASSUME Inv, NEW c \in Callers, NEW at \in Places, NEW kind \in Kinds \cup {"none"},
         NEW out \in Outcomes, Goes(c, at, kind, out),
         UNCHANGED <<chan, hand, writer, result, slot, complete, lost>>,
         left' \in [Callers -> 0..MaxCalls],
         call[c].at = "waiting" => ~ Pending(c),
         at = "sending" => kind \in Kinds \ {"barrier"},
         at # "waiting",
         at = "failed" => writer = "gone",
         out = "gone" => result = "ok",
         kind \in {"finalize", "barrier"} => c \in Handles /\ out # "ok",
         kind = "shutdown" => c = Owner,
         call[c].at \in {"joining", "closed"} => at \in {"joining", "closed"}
  PROVE  Inv'
<1>1. /\ call' \in [Callers -> [at : Places, kind : Kinds \cup {"none"}, out : Outcomes]]
      /\ call'[c].at = at /\ call'[c].kind = kind /\ call'[c].out = out
      /\ \A d \in Callers : d # c => call'[d] = call[d]
  BY GoesEffect DEF Inv
<1>2. TypeOK'
  BY <1>1 DEF Inv, TypeOK
<1>3. Queued' = Queued /\ \A d \in Callers : Pending(d)' = Pending(d)
  BY DEF Queued, Pending
<1>4. Writing'
  BY DEF Inv, Writing
<1>5. Calling'
  <2>1. ASSUME NEW d \in Callers, d # c
        PROVE  call'[d] = call[d] /\ (Pending(d)' = Pending(d))
    BY <1>1, <1>3, <2>1
  <2> QED BY <1>1, <2>1 DEF Inv, Calling
<1>6. Asking'
  <2>1. ASSUME NEW m \in Queued \cup {hand}, m.kind \in Questions
        PROVE  call'[m.from].at = "waiting" /\ call'[m.from].kind = m.kind
    <3>1. call[m.from].at = "waiting" /\ call[m.from].kind = m.kind
      BY <2>1 DEF Inv, Asking
    <3>2. m.from # c
      BY <2>1, <3>1 DEF Pending
    <3>3. m.from \in Callers
      BY <2>1, MsgFields, OneQueued DEF Inv, Writing, TypeOK, NoMsg, Questions
    <3> QED BY <1>1, <3>1, <3>2, <3>3
  <2>2. \A m \in Queued : m.kind \in Questions /\ hand.kind \in Questions => m.from # hand.from
    BY DEF Inv, Asking
  <2> QED BY <1>3, <2>1, <2>2 DEF Asking
<1>7. Completing'
  <2>1. \A h \in Handles : Landed(h)' = Landed(h) /\ h \in Callers
    BY DEF Landed, Callers
  <2>2. FinalizedIsComplete'
    BY <1>1, <2>1 DEF Inv, Completing, FinalizedIsComplete
  <2>3. \A m \in Queued : m.kind = "barrier" => Landed(m.from)'
    BY DEF Inv, Completing, Landed
  <2>4. \A h \in Handles : call'[h].kind = "barrier" /\ call'[h].at = "sending" =>
           Landed(h)' \/ [from |-> h, kind |-> "finalize"] \in Queued
    BY <1>1, <2>1 DEF Inv, Completing
  <2> QED BY <1>3, <2>2, <2>3, <2>4 DEF Inv, Completing
<1>8. Stopping'
  <2>1. Owner \in Callers
    BY DEF Callers
  <2> QED BY <1>1, <1>3, <2>1 DEF Inv, Stopping
<1> QED BY <1>2, <1>4, <1>5, <1>6, <1>7, <1>8 DEF Inv

\* Every step a caller takes without the channel is such a move.
LEMMA CallerStepInv ==
  ASSUME Inv, NEW c \in Callers,
         \/ \E kind \in Starts(c) : Call(c, kind)
         \/ Refused(c) \/ HangUp(c) \/ Report(c) \/ CheckAlive(c)
         \/ c \in Handles /\ DropHandle(c)
  PROVE  Inv'
<1> USE DEF Places, Outcomes, Kinds
<1>1. /\ call[c].at \in Places /\ call[c].kind \in Kinds \cup {"none"}
      /\ call[c].out \in Outcomes /\ left \in [Callers -> 0..MaxCalls]
  BY CallFields DEF Inv, TypeOK
<1>2. ASSUME NEW kind \in Starts(c), Call(c, kind)  PROVE Inv'
  <2>1. /\ kind \in Kinds \ {"barrier"}
        /\ kind = "finalize" => c \in Handles
        /\ kind = "shutdown" => c = Owner
    BY <1>2 DEF Starts, Callers
  <2>2. Goes(c, "sending", kind, "none") /\ call[c].at = "idle"
    BY <1>2 DEF Call, At
  <2>3. left' \in [Callers -> 0..MaxCalls]
    BY <1>1, <1>2, ChannelAssumption DEF Call
  <2>4. UNCHANGED <<chan, hand, writer, result, slot, complete, lost>>
    BY <1>2 DEF Call
  <2>5. kind \in Kinds \cup {"none"} /\ (kind \in {"finalize", "barrier"} => c \in Handles)
    BY <2>1
  <2> HIDE DEF Places, Outcomes, Kinds
  <2>6. "sending" \in Places /\ "none" \in Outcomes
    BY DEF Places, Outcomes
  <2> QED BY <2>1, <2>2, <2>3, <2>4, <2>5, <2>6, CallerMoves
<1>3. ASSUME Refused(c)  PROVE Inv'
  <2>1. /\ call[c].at = "sending" /\ writer = "gone"
        /\ left' = left
        /\ UNCHANGED <<chan, hand, writer, result, slot, complete, lost>>
    BY <1>3 DEF Refused, At
  <2>2. /\ call[c].kind \in {"finalize", "barrier"} => c \in Handles
        /\ call[c].kind = "shutdown" => c = Owner
    BY DEF Inv, Calling
  <2>3. CASE call[c].kind = "shutdown"
    <3>1. Goes(c, "joining", "shutdown", "none")
      BY <1>3, <2>3 DEF Refused
    <3> QED BY <1>1, <2>1, <2>2, <2>3, <3>1, CallerMoves
  <2>4. CASE call[c].kind # "shutdown"
    <3>1. Goes(c, "failed", call[c].kind, "none")
      BY <1>3, <2>4 DEF Refused
    <3> QED BY <1>1, <2>1, <2>2, <2>4, <3>1, CallerMoves
  <2> QED BY <2>3, <2>4
<1>4. ASSUME HangUp(c)  PROVE Inv'
  <2>1. /\ call[c].at = "waiting" /\ ~ Pending(c) /\ left' = left
        /\ UNCHANGED <<chan, hand, writer, result, slot, complete, lost>>
        /\ Goes(c, "failed", call[c].kind, "none")
    BY <1>4 DEF HangUp, At
  <2>2. /\ call[c].kind \in {"finalize", "barrier"} => c \in Handles
        /\ call[c].kind = "shutdown" => c = Owner
        /\ writer = "gone"
    BY <2>1 DEF Inv, Calling
  <2> QED BY <1>1, <2>1, <2>2, CallerMoves
<1>5. ASSUME Report(c)  PROVE Inv'
  <2> DEFINE at == Over(call[c].kind)
             out == IF slot THEN "error" ELSE "gone"
  <2>1. /\ call[c].at = "failed" /\ left' = left
        /\ UNCHANGED <<chan, hand, writer, result, slot, complete, lost>>
        /\ Goes(c, at, call[c].kind, out)
    BY <1>5 DEF Report, At
  <2>2. /\ call[c].kind \in {"finalize", "barrier"} => c \in Handles
        /\ call[c].kind = "shutdown" => c = Owner
        /\ writer = "gone"
    BY <2>1 DEF Inv, Calling
  <2>3. out = "gone" => result = "ok"
    BY <2>2 DEF Inv, Writing, TypeOK
  <2>4. at \in {"idle", "closed"} /\ out \in {"error", "gone"}
    BY DEF Over
  <2> HIDE DEF at, out
  <2> QED BY <1>1, <2>1, <2>2, <2>3, <2>4, CallerMoves
<1>6. ASSUME CheckAlive(c)  PROVE Inv'
  <2> DEFINE out == IF slot THEN "error" ELSE "alive"
  <2>1. /\ call[c].at = "idle" /\ left' = left
        /\ UNCHANGED <<chan, hand, writer, result, slot, complete, lost>>
        /\ Goes(c, "idle", "none", out)
    BY <1>6 DEF CheckAlive, At
  <2>2. out \in {"error", "alive"}
    OBVIOUS
  <2> HIDE DEF out
  <2> QED BY <1>1, <2>1, <2>2, CallerMoves
<1>7. ASSUME c \in Handles, DropHandle(c)  PROVE Inv'
  <2>1. /\ call[c].at = "idle" /\ left' = left
        /\ UNCHANGED <<chan, hand, writer, result, slot, complete, lost>>
        /\ Goes(c, "closed", "none", "none")
    BY <1>7 DEF DropHandle, At
  <2> QED BY <1>1, <2>1, CallerMoves
<1> QED BY <1>2, <1>3, <1>4, <1>5, <1>6, <1>7

\* join returns with what the thread returned.
LEMMA JoinInv == ASSUME Inv, Join  PROVE Inv'
<1>1. /\ call[Owner].at = "joining" /\ left' = left /\ writer = "gone"
      /\ UNCHANGED <<chan, hand, writer, result, slot, complete, lost>>
      /\ Goes(Owner, "closed", "shutdown", result)
  BY DEF Join, At
<1>2. result \in {"ok", "error"}
  BY <1>1 DEF Inv, Writing, TypeOK
<1>3. /\ result \in Outcomes /\ result # "gone" /\ "closed" \in Places /\ "shutdown" \in Kinds
  BY <1>2 DEF Outcomes, Places, Kinds
<1>4. left' \in [Callers -> 0..MaxCalls] /\ Owner \in Callers
  BY <1>1 DEF Inv, TypeOK, Callers
<1> QED BY <1>1, <1>3, <1>4, CallerMoves

-----------------------------------------------------------------------------
(***************************************************************************)
(* Steps that move a message.                                              *)
(***************************************************************************)

\* A send finds the channel empty and leaves its message there.  (send)
LEMMA SendInv == ASSUME Inv, NEW c \in Callers, Send(c)  PROVE Inv'
<1> DEFINE k == call[c].kind
           m == [from |-> c, kind |-> k]
<1>1. /\ call[c].at = "sending" /\ writer # "gone" /\ k \in Kinds /\ m \in Msg
      /\ UNCHANGED <<hand, writer, result, slot, left, complete, lost>>
  BY DEF Send, At, Inv, Calling, Msg
<1>2. chan = <<>> /\ Queued = {}
  BY OneQueued DEF Send, Room, Inv, Writing
<1>3. chan' = <<m>> /\ chan' \in Seq(Msg) /\ Len(chan') = 1 /\ Queued' = {m}
  BY <1>1, <1>2 DEF Send, Queued
<1>4. /\ k \in {"finalize", "barrier"} => c \in Handles
      /\ k = "shutdown" => c = Owner
  BY DEF Inv, Calling
<1>5. PICK at \in Places, kind \in Kinds, out \in {"none", "ok"} :
        /\ Goes(c, at, kind, out)
        /\ at \in {"idle", "sending", "waiting", "joining"}
        /\ k \in Questions <=> at = "waiting"
        /\ at = "waiting" => kind = k /\ out = "none"
        /\ at = "sending" => k = "finalize"
        /\ k = "shutdown" => at = "joining"
        /\ kind \in {"finalize", "barrier"} => k \in {"finalize", "barrier"} /\ out = "none"
        /\ kind # "finalize"
        /\ kind = "shutdown" => k = "shutdown"
  <2>1. CASE k = "post"
    <3>1. Goes(c, "idle", "post", "ok")
      BY <2>1 DEF Send, Sent, Questions
    <3> QED BY <2>1, <3>1 DEF Places, Kinds, Questions
  <2>2. CASE k = "finalize"
    <3>1. Goes(c, "sending", "barrier", "none")
      BY <2>2 DEF Send, Sent, Questions
    <3> QED BY <2>2, <3>1 DEF Places, Kinds, Questions
  <2>3. CASE k \in Questions
    <3>1. Goes(c, "waiting", k, "none")
      BY <2>3 DEF Send, Sent, Questions
    <3> QED BY <2>3, <3>1 DEF Places, Kinds, Questions
  <2>4. CASE k = "shutdown"
    <3>1. Goes(c, "joining", "shutdown", "none")
      BY <2>4 DEF Send, Sent, Questions
    <3> QED BY <2>4, <3>1 DEF Places, Kinds, Questions
  <2> QED BY <1>1, <2>1, <2>2, <2>3, <2>4 DEF Kinds, Questions
<1> HIDE DEF k
<1>6. /\ call' \in [Callers -> [at : Places, kind : Kinds \cup {"none"}, out : Outcomes]]
      /\ call'[c].at = at /\ call'[c].kind = kind /\ call'[c].out = out
      /\ \A d \in Callers : d # c => call'[d] = call[d]
  BY <1>5, GoesEffect DEF Inv, Outcomes
<1>7. TypeOK'
  BY <1>1, <1>3, <1>6 DEF Inv, TypeOK
<1>8. Writing'
  BY <1>1, <1>3 DEF Inv, Writing
<1>9. hand.kind \in Questions => hand.from # c
  BY <1>1 DEF Inv, Asking
<1>10. hand.kind = "shutdown" \/ result = "ok" => c # Owner
  BY <1>1 DEF Inv, Stopping
<1>11. Calling'
  <2>1. ASSUME NEW d \in Callers, d # c
        PROVE  call'[d] = call[d] /\ (Pending(d) => Pending(d)')
    BY <1>1, <1>2, <1>6, <2>1 DEF Pending
  <2>2. at = "waiting" => Pending(c)'
    BY <1>3, <1>5 DEF Pending
  <2> QED BY <1>1, <1>4, <1>5, <1>6, <2>1, <2>2 DEF Inv, Calling
<1>12. Asking'
  <2>1. hand.kind \in Questions => /\ call'[hand.from].at = "waiting"
                                   /\ call'[hand.from].kind = hand.kind
    <3>1. hand.kind \in Questions => hand.from \in Callers
      BY MsgFields DEF Inv, TypeOK, NoMsg, Questions
    <3> QED BY <1>6, <1>9, <3>1 DEF Inv, Asking
  <2>2. m.kind \in Questions => /\ call'[m.from].at = "waiting"
                                /\ call'[m.from].kind = m.kind
    BY <1>5, <1>6
  <2> QED BY <1>1, <1>3, <1>9, <2>1, <2>2 DEF Asking
<1>13. Completing'
  <2>1. \A h \in Handles : (Landed(h) => Landed(h)') /\ h \in Callers
    BY <1>1 DEF Landed, Callers
  <2>2. k = "barrier" => Landed(c)'
    BY <1>1, <1>2, <1>4, <2>1 DEF Inv, Completing, k
  <2>3. ASSUME NEW h \in Handles, call'[h].kind = "barrier", call'[h].at = "sending"
        PROVE  Landed(h)' \/ [from |-> h, kind |-> "finalize"] \in Queued'
    <3>1. CASE h = c
      BY <1>3, <1>5, <1>6, <2>3, <3>1
    <3>2. CASE h # c
      BY <1>2, <1>6, <2>1, <2>3, <3>2 DEF Inv, Completing
    <3> QED BY <3>1, <3>2
  <2>4. FinalizedIsComplete'
    BY <1>1, <1>5, <1>6, <2>1 DEF Inv, Completing, FinalizedIsComplete
  <2> QED BY <1>1, <1>3, <1>4, <2>2, <2>3, <2>4 DEF Inv, Completing
<1>14. Stopping'
  <2>1. Owner \in Callers
    BY DEF Callers
  <2> QED BY <1>1, <1>3, <1>4, <1>5, <1>6, <1>10, <2>1 DEF Inv, Stopping
<1> QED BY <1>7, <1>8, <1>11, <1>12, <1>13, <1>14 DEF Inv

\* The writer takes the message that is there.  (writer_loop)
LEMMA ReceiveInv == ASSUME Inv, Receive  PROVE Inv'
<1>1. /\ writer = "receiving" /\ chan # <<>> /\ hand = NoMsg /\ writer' = "handling"
      /\ result = "none"
      /\ UNCHANGED <<result, slot, call, left, complete, lost>>
  BY DEF Receive, Inv, Writing
<1>2. PICK m \in Msg : chan = <<m>> /\ Queued = {m}
  BY <1>1, OneQueued DEF Inv, Writing
<1>3. hand' = m /\ chan' = <<>> /\ Queued' = {}
  BY <1>2 DEF Receive, Queued
<1>4. hand.kind = "none" /\ hand.kind \notin Questions
  BY <1>1 DEF NoMsg, Questions
<1>5. TypeOK' /\ Writing'
  BY <1>1, <1>3 DEF Inv, TypeOK, Writing
<1>6. \A c \in Callers : Pending(c)' = Pending(c)
  BY <1>2, <1>3, <1>4 DEF Pending
<1>7. Calling'
  BY <1>1, <1>6 DEF Inv, Calling
<1>8. Asking'
  BY <1>1, <1>2, <1>3 DEF Inv, Asking
<1>9. Completing'
  <2>1. \A h \in Handles : Landed(h) => h \in complete
    BY <1>1, <1>4 DEF Landed
  <2>2. m.kind \in {"finalize", "barrier"} => m.from \in Handles
    BY <1>2 DEF Inv, Completing
  <2>3. m.kind = "barrier" => m.from \in complete
    BY <1>2, <2>1, <2>2 DEF Inv, Completing
  <2>4. ASSUME NEW h \in Handles, call[h].kind = "barrier", call[h].at = "sending"
        PROVE  Landed(h)'
    BY <1>1, <1>2, <1>3, <2>1, <2>4 DEF Inv, Completing, Landed
  <2>5. FinalizedIsComplete'
    BY <1>1 DEF Inv, Completing, FinalizedIsComplete
  <2> QED BY <1>1, <1>3, <2>2, <2>3, <2>4, <2>5 DEF Completing
<1>10. Stopping'
  BY <1>1, <1>2, <1>3 DEF Inv, Stopping
<1> QED BY <1>5, <1>7, <1>8, <1>9, <1>10 DEF Inv

\* A reply reaches the one caller that waits for it.  (writer_loop)
LEMMA AnswerInv ==
  ASSUME Inv, writer = "handling", hand.kind \in Questions,
         NEW at \in {"idle", "closed"}, NEW out \in {"ok", "refused"},
         Goes(hand.from, at, hand.kind, out),
         hand' = NoMsg, writer' = "receiving",
         UNCHANGED <<chan, result, slot, left, complete, lost>>
  PROVE  Inv'
<1> DEFINE c == hand.from
<1>1. hand \in Msg /\ c \in Callers /\ hand.kind \in Kinds /\ result = "none"
  BY MsgFields DEF Inv, Writing
<1>2. call[c].at = "waiting" /\ call[c].kind = hand.kind
  BY DEF Inv, Asking
<1>3. /\ call' \in [Callers -> [at : Places, kind : Kinds \cup {"none"}, out : Outcomes]]
      /\ call'[c].at = at /\ call'[c].kind = hand.kind /\ call'[c].out = out
      /\ \A d \in Callers : d # c => call'[d] = call[d]
  BY <1>1, GoesEffect DEF Inv, Places, Outcomes
<1>4. /\ Queued' = Queued /\ NoMsg.kind = "none" /\ NoMsg.kind \notin Questions
  BY DEF Queued, NoMsg, Questions
<1>5. TypeOK' /\ Writing'
  BY <1>1, <1>3 DEF Inv, TypeOK, Writing
<1>6. Calling'
  <2>1. ASSUME NEW d \in Callers, d # c
        PROVE  call'[d] = call[d] /\ (Pending(d) => Pending(d)')
    BY <1>3, <1>4, <2>1 DEF Pending
  <2>2. hand.kind \in {"finalize", "barrier"} => c \in Handles
    BY DEF Inv, Completing
  <2> QED BY <1>1, <1>3, <2>1, <2>2 DEF Inv, Calling, Questions
<1>7. Asking'
  <2>1. ASSUME NEW m \in Queued, m.kind \in Questions
        PROVE  call'[m.from].at = "waiting" /\ call'[m.from].kind = m.kind
    <3>1. m.from # c /\ call[m.from].at = "waiting" /\ call[m.from].kind = m.kind
      BY <2>1 DEF Inv, Asking
    <3>2. m.from \in Callers
      BY <2>1, MsgFields, OneQueued DEF Inv, Writing
    <3> QED BY <1>3, <3>1, <3>2
  <2> QED BY <1>4, <2>1 DEF Asking
<1>8. Completing'
  <2>1. \A h \in Handles : (Landed(h) => Landed(h)') /\ h \in Callers
    BY <1>1 DEF Landed, Callers, Questions, Inv, Writing
  <2>2. FinalizedIsComplete'
    BY <1>3, <2>1 DEF Inv, Completing, FinalizedIsComplete, Questions
  <2>3. \A h \in Handles : call'[h].kind = "barrier" /\ call'[h].at = "sending" =>
           Landed(h)' \/ [from |-> h, kind |-> "finalize"] \in Queued
    BY <1>3, <2>1 DEF Inv, Completing
  <2> QED BY <1>4, <2>1, <2>2, <2>3 DEF Inv, Completing
<1>9. Stopping'
  BY <1>1, <1>2, <1>3, <1>4 DEF Inv, Stopping, Callers
<1> QED BY <1>5, <1>6, <1>7, <1>8, <1>9 DEF Inv

\* A message without a reply is done, or ends the loop.  (writer_loop)
LEMMA QuietHandleInv ==
  ASSUME Inv, Handle, hand.kind \notin Questions
  PROVE  Inv'
<1>1. /\ writer = "handling" /\ hand \in Msg /\ hand.from \in Callers /\ hand.kind \in Kinds
      /\ result = "none" /\ hand' = NoMsg
      /\ UNCHANGED <<chan, slot, left, lost, call>>
  BY MsgFields DEF Handle, Inv, Writing, Questions
<1>2. /\ complete \subseteq complete' /\ complete' \subseteq Handles
      /\ hand.kind = "finalize" => hand.from \in complete'
  BY DEF Handle, Completes, Inv, Completing, TypeOK
<1>3. \/ writer' = "receiving" /\ result' = result
      \/ hand.kind = "shutdown" /\ writer' = "leaving" /\ result' = "ok"
  BY DEF Handle
<1>4. Queued' = Queued /\ NoMsg.kind = "none" /\ NoMsg.kind \notin Questions
  BY <1>1 DEF Queued, NoMsg, Questions
<1>5. TypeOK' /\ Writing'
  BY <1>1, <1>2, <1>3 DEF Inv, TypeOK, Writing
<1>6. \A c \in Callers : Pending(c) => Pending(c)'
  BY <1>4 DEF Pending
<1>7. \A c \in Callers : call[c].out # "gone"
  BY <1>1 DEF Inv, Calling
<1>8. Calling'
  BY <1>1, <1>6, <1>7 DEF Inv, Calling, Writing
<1>9. Asking'
  BY <1>1, <1>4 DEF Inv, Asking
<1>10. Completing'
  <2>1. \A h \in Handles : Landed(h) => Landed(h)'
    BY <1>1, <1>2 DEF Landed
  <2>2. FinalizedIsComplete'
    BY <1>1, <1>2 DEF Inv, Completing, FinalizedIsComplete
  <2> QED BY <1>1, <1>4, <2>1, <2>2 DEF Inv, Completing
<1>11. Stopping'
  <2>1. \A d \in lost : FALSE
    BY <1>1 DEF Inv, Writing
  <2> QED BY <1>1, <1>3, <1>4, <2>1 DEF Inv, Stopping
<1> QED BY <1>5, <1>8, <1>9, <1>10, <1>11 DEF Inv

LEMMA HandleInv == ASSUME Inv, Handle  PROVE Inv'
<1>1. CASE hand.kind \in Questions
  <2>1. /\ writer = "handling" /\ hand' = NoMsg /\ writer' = "receiving"
        /\ UNCHANGED <<chan, result, slot, left, complete, lost>>
    BY <1>1 DEF Handle, Completes, Questions
  <2>2. PICK at \in {"idle", "closed"}, out \in {"ok", "refused"} :
          Goes(hand.from, at, hand.kind, out)
    BY <1>1 DEF Handle, Questions, Over
  <2> QED BY <1>1, <2>1, <2>2, AnswerInv
<1>2. CASE hand.kind \notin Questions
  BY <1>2, QuietHandleInv
<1> QED BY <1>1, <1>2

-----------------------------------------------------------------------------
(***************************************************************************)
(* The end of the writer thread.                                           *)
(***************************************************************************)

\* What fails the thread is never a question.  (writer_loop)
LEMMA FailInv == ASSUME Inv, Fail  PROVE Inv'
<1>1. /\ writer = "handling" /\ writer' = "failing" /\ result = "none" /\ result' = "error"
      /\ hand.kind \notin Questions /\ hand.kind # "barrier"
      /\ UNCHANGED <<chan, hand, slot, call, left, complete, lost>>
  BY DEF Fail, Questions, Inv, Writing
<1>2. Queued' = Queued /\ \A c \in Callers : Pending(c)' = Pending(c)
  BY <1>1 DEF Queued, Pending
<1>3. TypeOK' /\ Writing'
  BY <1>1 DEF Inv, TypeOK, Writing
<1>4. Calling'
  BY <1>1, <1>2 DEF Inv, Calling
<1>5. Asking'
  BY <1>1, <1>2 DEF Inv, Asking
<1>6. Completing'
  BY <1>1, <1>2 DEF Inv, Completing, Landed, FinalizedIsComplete
<1>7. Stopping'
  BY <1>1, <1>2 DEF Inv, Stopping
<1> QED BY <1>3, <1>4, <1>5, <1>6, <1>7 DEF Inv

\* The error is in the slot before the receiver goes.  (writer_thread)
LEMMA StoreErrorInv == ASSUME Inv, StoreError  PROVE Inv'
<1>1. /\ writer = "failing" /\ writer' = "leaving" /\ result = "error" /\ slot' = TRUE
      /\ UNCHANGED <<chan, hand, result, call, left, complete, lost>>
  BY DEF StoreError, Inv, Writing
<1>2. Queued' = Queued /\ \A c \in Callers : Pending(c)' = Pending(c)
  BY <1>1 DEF Queued, Pending
<1>3. TypeOK' /\ Writing'
  BY <1>1 DEF Inv, TypeOK, Writing
<1>4. Calling'
  BY <1>1, <1>2 DEF Inv, Calling
<1>5. Asking'
  BY <1>1, <1>2 DEF Inv, Asking
<1>6. Completing'
  BY <1>1, <1>2 DEF Inv, Completing, Landed, FinalizedIsComplete
<1>7. Stopping'
  BY <1>1, <1>2 DEF Inv, Stopping
<1> QED BY <1>3, <1>4, <1>5, <1>6, <1>7 DEF Inv

\* The receiver takes what is queued with it, and none of that is the owner's
\* unless the thread failed.  (writer_thread)
LEMMA DropReceiverInv == ASSUME Inv, DropReceiver  PROVE Inv'
<1>1. /\ writer = "leaving" /\ writer' = "gone" /\ hand' = NoMsg /\ chan' = <<>>
      /\ lost' = lost \cup Dying
      /\ UNCHANGED <<result, slot, call, left, complete>>
  BY DEF DropReceiver
<1>2. Queued' = {} /\ NoMsg.kind = "none" /\ NoMsg.kind \notin Questions
  BY <1>1 DEF Queued, NoMsg, Questions
<1>3. TypeOK'
  BY <1>1 DEF Inv, TypeOK, Dying
<1>4. result # "none"
  BY <1>1 DEF Inv, Writing
<1>5. Writing'
  BY <1>1, <1>4 DEF Inv, Writing
<1>6. Calling'
  BY <1>1 DEF Inv, Calling
<1>7. Asking'
  BY <1>1, <1>2 DEF Asking
<1>8. Completing'
  BY <1>1, <1>2 DEF Inv, Completing, Landed, FinalizedIsComplete
<1>9. Stopping'
  <2>1. ASSUME result = "ok"  PROVE Owner \notin Dying
    <3>1. hand.kind \notin {"post", "finalize"}
      BY <1>1, <1>2, <2>1 DEF Inv, Writing
    <3>2. \A m \in Queued : m.from # Owner
      BY <2>1 DEF Inv, Stopping
    <3> QED BY <3>1, <3>2 DEF Dying
  <2> QED BY <1>1, <1>2, <2>1 DEF Inv, Stopping
<1> QED BY <1>3, <1>5, <1>6, <1>7, <1>8, <1>9 DEF Inv

-----------------------------------------------------------------------------
(***************************************************************************)
(* The theorems.                                                           *)
(***************************************************************************)

\* The invariant is inductive: every action keeps it.
LEMMA StepInv == Inv /\ [Next]_vars => Inv'
<1>1. ASSUME Inv, Next  PROVE Inv'
  <2>1. ASSUME NEW c \in Callers,
               \/ \E kind \in Starts(c) : Call(c, kind)
               \/ Refused(c) \/ HangUp(c) \/ Report(c) \/ CheckAlive(c)
        PROVE  Inv'
    BY <1>1, <2>1, CallerStepInv
  <2>2. ASSUME NEW c \in Callers, Send(c)  PROVE Inv'
    BY <1>1, <2>2, SendInv
  <2>3. ASSUME NEW h \in Handles, DropHandle(h)  PROVE Inv'
    BY <1>1, <2>3, CallerStepInv DEF Callers
  <2>4. CASE Join
    BY <1>1, <2>4, JoinInv
  <2>5. CASE Receive
    BY <1>1, <2>5, ReceiveInv
  <2>6. CASE Handle
    BY <1>1, <2>6, HandleInv
  <2>7. CASE Fail
    BY <1>1, <2>7, FailInv
  <2>8. CASE StoreError
    BY <1>1, <2>8, StoreErrorInv
  <2>9. CASE DropReceiver
    BY <1>1, <2>9, DropReceiverInv
  <2> QED BY <1>1, <2>1, <2>2, <2>3, <2>4, <2>5, <2>6, <2>7, <2>8, <2>9 DEF Next
<1>2. ASSUME Inv, UNCHANGED vars  PROVE Inv'
  <2>1. UNCHANGED <<chan, hand, writer, result, slot, call, left, complete, lost>>
    BY <1>2 DEF vars
  <2>2. Queued' = Queued /\ (\A c \in Callers : Pending(c)' = Pending(c))
    BY <2>1 DEF Queued, Pending
  <2>3. TypeOK' /\ Writing' /\ Calling' /\ Asking'
    BY <1>2, <2>1, <2>2 DEF Inv, TypeOK, Writing, Calling, Asking
  <2>4. Completing' /\ Stopping'
    BY <1>2, <2>1, <2>2 DEF Inv, Completing, Landed, FinalizedIsComplete, Stopping
  <2> QED BY <2>3, <2>4 DEF Inv
<1> QED BY <1>1, <1>2

\* The inductive invariant holds of every behaviour of the hand-off.
THEOREM Invariance == Spec => []Inv
BY InitInv, StepInv, PTL DEF Spec

\* Every variable keeps its type, and the channel its messages.
THEOREM TypeCorrect == Spec => []TypeOK
<1>1. Inv => TypeOK
  BY DEF Inv
<1> QED BY <1>1, Invariance, PTL

\* A caller of a writer that failed is told why.  (writer_thread)
THEOREM FailuresAreNamed == Spec => []FailureIsNamed
<1>1. Inv => FailureIsNamed
  BY DEF Inv, Calling, FailureIsNamed
<1> QED BY <1>1, Invariance, PTL

\* finalize says ok only of a source the writer has marked complete.  (finalize)
THEOREM FinalizeTellsTheTruth == Spec => []FinalizedIsComplete
<1>1. Inv => FinalizedIsComplete
  BY DEF Inv, Completing
<1> QED BY <1>1, Invariance, PTL

\* However many callers there are, at most two messages are out of their
\* hands and not yet in the file.  (spawn)
THEOREM LossIsBounded == Spec => []AtMostTwoInFlight
<1>1. Inv => AtMostTwoInFlight
  BY DEF Inv, Writing, TypeOK, AtMostTwoInFlight
<1> QED BY <1>1, Invariance, PTL

-----------------------------------------------------------------------------
(***************************************************************************)
(* What a step may never do.                                               *)
(***************************************************************************)

\* A change of one caller's place leaves the others where they are.
LEMMA OthersStay ==
  ASSUME Inv, NEW d, NEW at, NEW kind, NEW out, Goes(d, at, kind, out),
         NEW c \in Callers, c # d
  PROVE  call'[c] = call[c]
BY DEF Goes, Inv, TypeOK

\* The caller a change of place is about goes there.
LEMMA GoesThere ==
  ASSUME Inv, NEW c \in Callers, NEW at, NEW kind, NEW out, Goes(c, at, kind, out)
  PROVE  call'[c].at = at /\ call'[c].out = out
BY DEF Goes, Inv, TypeOK

\* Only the writer, with the question in hand, moves a waiting caller to ok.
LEMMA BarrierStep ==
  ASSUME Inv, Next, NEW c \in Callers,
         call[c].at = "waiting", call[c].kind \in {"sync", "barrier"}, call'[c].out = "ok"
  PROVE  lost = {} /\ hand.from = c /\ result = "none"
<1>1. call[c].out = "none" /\ call'[c] # call[c]
  BY DEF Inv, Calling
<1>2. ASSUME NEW d \in Callers, NEW at, NEW kind, NEW out, Goes(d, at, kind, out),
             call[d].at # "waiting" \/ out # "ok"
      PROVE  FALSE
  BY <1>1, <1>2, OthersStay, GoesThere
<1>3. ASSUME NEW d \in Callers,
             \/ \E kind \in Starts(d) : Call(d, kind)
             \/ Refused(d) \/ HangUp(d) \/ Report(d) \/ CheckAlive(d)
             \/ d \in Handles /\ DropHandle(d)
      PROVE  FALSE
  <2>1. ASSUME NEW kind \in Starts(d), Call(d, kind)  PROVE FALSE
    BY <1>2, <2>1 DEF Call, At
  <2>2. CASE Refused(d)
    BY <1>2, <2>2 DEF Refused, At
  <2>3. CASE HangUp(d)
    BY <1>2, <2>3 DEF HangUp
  <2>4. CASE Report(d)
    BY <1>2, <2>4 DEF Report, At
  <2>5. CASE CheckAlive(d)
    BY <1>2, <2>5 DEF CheckAlive, At
  <2>6. CASE DropHandle(d)
    BY <1>2, <2>6 DEF DropHandle, At
  <2> QED BY <1>3, <2>1, <2>2, <2>3, <2>4, <2>5, <2>6
<1>4. ASSUME NEW d \in Callers, Send(d)  PROVE FALSE
  <2>1. call[d].at = "sending" /\ call[d].kind \in Kinds
    BY <1>4 DEF Send, At, Inv, Calling
  <2>2. \E at, kind, out : Goes(d, at, kind, out)
    BY <1>4, <2>1 DEF Send, Sent, Kinds, Questions
  <2> QED BY <1>2, <2>1, <2>2
<1>5. ~ Join
  BY <1>2 DEF Join, At, Callers
<1>6. CASE Handle
  <2>1. writer = "handling" /\ result = "none" /\ lost = {}
    BY <1>6 DEF Handle, Inv, Writing
  <2>2. hand.from = c
    <3>1. \/ call' = call
          \/ \E at, kind, out : Goes(hand.from, at, kind, out)
      BY <1>6 DEF Handle
    <3> QED BY <1>1, <3>1, OthersStay
  <2> QED BY <2>1, <2>2
<1>7. ~ (Receive \/ Fail \/ StoreError \/ DropReceiver)
  BY <1>1 DEF Receive, Fail, StoreError, DropReceiver
<1> QED BY <1>3, <1>4, <1>5, <1>6, <1>7 DEF Next, Callers

\* A barrier that says ok has everything accepted before it in the file's
\* transactions, and nothing lost.  (sync)
THEOREM BarriersTellTheTruth == Spec => BarrierIsTrue
<1>1. Inv /\ [Next]_vars =>
        [\A c \in Callers :
           /\ call[c].at = "waiting" /\ call[c].kind \in {"sync", "barrier"}
           /\ call'[c].out = "ok"
           => lost = {} /\ hand.from = c /\ result = "none"]_vars
  BY BarrierStep
<1> QED BY <1>1, Invariance, PTL DEF Spec, BarrierIsTrue

\* With the writer gone nothing a caller does ends in ok, but a join of a
\* writer that lost nothing of the owner's.
LEMMA LossStep ==
  ASSUME Inv, Next, NEW c \in lost, call'[c] # call[c]
  PROVE  call'[c].out # "ok" /\ (result = "error" => call'[c].out # "alive")
<1>1. c \in Callers /\ writer = "gone"
  BY DEF Inv, TypeOK, Writing
<1>2. result = "error" => slot
  BY <1>1 DEF Inv, Writing
<1>3. ASSUME NEW d \in Callers, NEW at, NEW kind, NEW out, Goes(d, at, kind, out),
             d = c => out # "ok" /\ (result = "error" => out # "alive")
      PROVE  call'[c].out # "ok" /\ (result = "error" => call'[c].out # "alive")
  BY <1>1, <1>3, OthersStay, GoesThere
<1>4. ASSUME NEW d \in Callers,
             \/ \E kind \in Starts(d) : Call(d, kind)
             \/ Refused(d) \/ HangUp(d) \/ Report(d) \/ CheckAlive(d)
             \/ d \in Handles /\ DropHandle(d)
      PROVE  call'[c].out # "ok" /\ (result = "error" => call'[c].out # "alive")
  <2>1. CASE \E kind \in Starts(d) : Call(d, kind)
    BY <1>3, <2>1 DEF Call
  <2>2. CASE Refused(d)
    BY <1>3, <2>2 DEF Refused
  <2>3. CASE HangUp(d)
    BY <1>3, <2>3 DEF HangUp
  <2>4. CASE Report(d)
    BY <1>3, <2>4 DEF Report
  <2>5. CASE CheckAlive(d)
    BY <1>2, <1>3, <2>5 DEF CheckAlive
  <2>6. CASE DropHandle(d)
    BY <1>3, <2>6 DEF DropHandle
  <2> QED BY <1>4, <2>1, <2>2, <2>3, <2>4, <2>5, <2>6
<1>5. ASSUME Join  PROVE call'[c].out # "ok" /\ (result = "error" => call'[c].out # "alive")
  <2>1. Owner \in Callers /\ Goes(Owner, "closed", "shutdown", result)
    BY <1>5 DEF Join, Callers
  <2>2. Owner = c => result # "ok"
    BY DEF Inv, Stopping
  <2> QED BY <1>3, <2>1, <2>2
<1>6. \A d \in Callers : ~ Send(d)
  BY <1>1 DEF Send
<1>7. ~ (Receive \/ Handle \/ Fail \/ StoreError \/ DropReceiver)
  BY <1>1 DEF Receive, Handle, Fail, StoreError, DropReceiver
<1> QED BY <1>4, <1>5, <1>6, <1>7 DEF Next, Callers

\* A loss is reported to the caller it happened to.  (send, check_alive)
THEOREM LossesAreReported == Spec => NoOkAfterLoss
<1>1. Inv /\ [Next]_vars =>
        [\A c \in lost : call'[c] # call[c] =>
           /\ call'[c].out # "ok"
           /\ result = "error" => call'[c].out # "alive"]_vars
  BY LossStep
<1> QED BY <1>1, Invariance, PTL DEF Spec, NoOkAfterLoss
=============================================================================
