------------------------ MODULE DendroLifecycleProofs ------------------------
(***************************************************************************)
(* What the catalog promises of a source's life, for any set of sources    *)
(* and readers, any number of sessions and any patience of the reader.     *)
(*                                                                         *)
(* That finalized never passes added is a count of handles over all        *)
(* sources; nothing here needs it and it is left to the model checker.     *)
(***************************************************************************)
EXTENDS DendroLifecycle, TLAPS

Typed ==
  /\ known \subseteq Sources /\ complete \subseteq known
  /\ sessions \in [Sources -> 0..MaxSessions]
  /\ interval \subseteq known /\ beating \subseteq known
  /\ rows \in [Sources -> 0..MaxRows]
  /\ beat \in [Sources -> {0} \cup Beats]
  /\ op \in Ops \cup {NoOp}
  /\ open \in [Sources -> Nat] /\ began \in [Sources -> Nat]
  /\ watch \in [Sources -> [seen : {0} \cup Beats, age : 0..StoppedAfter]]
  /\ silence \in [Sources -> 0..StoppedAfter]

\* A chain of commits on s is under way, before or past its session's entry.
Entering(s) == op # NoOp /\ op.src = s /\ op.at = "record"
Entered(s) == op # NoOp /\ op.src = s /\ op.at # "record"

\* A handle is behind its entry in the list, and its source in the catalog.
Listed ==
  /\ \A s \in Sources : /\ open[s] <= began[s] /\ began[s] <= sessions[s]
                        /\ Entered(s) => began[s] < sessions[s]
                        /\ Entering(s) => sessions[s] < MaxSessions
                        /\ s \notin known => sessions[s] = 0
  /\ op # NoOp => op.src \in known

\* What a watch has seen unchanged has been silent for at least as long.
Patient ==
  \A s \in Watched : watch[s].seen # 0 /\ watch[s].seen = beat[s]
                        => watch[s].age <= silence[s]

\* A complete source is not beaten and not being resumed.
AtRest ==
  \A s \in complete : s \notin beating /\ (op # NoOp => op.src # s)

\* A source nobody resumed under an open handle has one handle or none: none
\* while one is on its way, and none when it is complete.
InOneHand ==
  \A s \in Sources \ shared :
    /\ open[s] <= 1
    /\ op # NoOp /\ op.src = s => open[s] = 0
    /\ s \in complete => open[s] = 0

Inv == Typed /\ Listed /\ Patient

-----------------------------------------------------------------------------
\* A beat is a value no watch holds.  (Transaction::beat)
LEMMA NextBeatIsNew ==
  ASSUME Typed, NEW s \in Sources
  PROVE  NextBeat(s) \in Beats /\ NextBeat(s) # beat[s] /\ NextBeat(s) # watch[s].seen
<1>1. \E n \in Beats : n # beat[s] /\ n # watch[s].seen
  <2>1. 1 \in Beats /\ 2 \in Beats /\ 3 \in Beats
    BY DEF Beats
  <2> QED BY <2>1
<1> QED BY <1>1 DEF NextBeat

\* What beating the sources of S does to one source.
LEMMA BeatenEffect ==
  ASSUME Typed, NEW S, beat' = Beaten(S), silence' = Heard(S)
  PROVE  /\ beat' \in [Sources -> {0} \cup Beats]
         /\ silence' \in [Sources -> 0..StoppedAfter]
         /\ \A s \in Sources : s \in S => beat'[s] # watch[s].seen
         /\ \A s \in Sources : s \notin S => beat'[s] = beat[s] /\ silence'[s] = silence[s]
<1>1. \A s \in Sources : beat'[s] = IF s \in S THEN NextBeat(s) ELSE beat[s]
  BY DEF Beaten
<1>2. \A s \in Sources : silence'[s] = IF s \in S THEN 0 ELSE silence[s]
  BY DEF Heard
<1>3. \A s \in Sources : NextBeat(s) \in Beats /\ NextBeat(s) # watch[s].seen
  BY NextBeatIsNew
<1>4. beat' \in [Sources -> {0} \cup Beats]
  BY <1>3 DEF Beaten, Typed
<1>5. silence' \in [Sources -> 0..StoppedAfter]
  BY LifecycleAssumption DEF Heard, Typed
<1> QED BY <1>1, <1>2, <1>3, <1>4, <1>5

\* Ageing keeps its bound and the order of two ages.
LEMMA LaterGrows ==
  ASSUME NEW m \in 0..StoppedAfter, NEW n \in 0..StoppedAfter
  PROVE  Later(m) \in 0..StoppedAfter /\ (m <= n => Later(m) <= Later(n))
BY LifecycleAssumption DEF Later

\* A chain that is under way has its place and its source.
LEMMA OpFields ==
  ASSUME Typed, op # NoOp
  PROVE  op \in Ops /\ op.src \in Sources /\ op.at \in {"record", "beat", "version", "reply"}
BY DEF Typed, Ops

\* An empty archive.  (Writer::create)
LEMMA InitInv == Init => Inv /\ AtRest /\ InOneHand
<1> SUFFICES ASSUME Init  PROVE Inv /\ AtRest /\ InOneHand
  OBVIOUS
<1>1. Zero \in [Sources -> {0}] /\ \A s \in Sources : Zero[s] = 0
  BY DEF Zero
<1>2. Typed
  BY <1>1, LifecycleAssumption DEF Init, Typed, Beats
<1>3. Listed
  <2>1. op = NoOp /\ open = Zero /\ began = Zero /\ sessions = Zero
    BY DEF Init
  <2>2. \A s \in Sources : open[s] = 0 /\ began[s] = 0 /\ sessions[s] = 0
    BY <1>1, <2>1
  <2> QED BY <2>1, <2>2 DEF Listed, Entered, Entering
<1>4. Patient
  BY LifecycleAssumption DEF Init, Patient
<1>5. AtRest
  BY DEF Init, AtRest
<1>6. InOneHand
  <2>1. op = NoOp /\ open = Zero /\ complete = {}
    BY DEF Init
  <2>2. \A s \in Sources : open[s] = 0
    BY <1>1, <2>1
  <2>3. \A s \in Sources : open[s] <= 1
    <3>1. 0 <= 1
      OBVIOUS
    <3> QED BY <2>2, <3>1, Zenon
  <2> QED BY <2>1, <2>2, <2>3, Zenon DEF InOneHand
<1> QED BY <1>2, <1>3, <1>4, <1>5, <1>6 DEF Inv

-----------------------------------------------------------------------------
(***************************************************************************)
(* Sessions: the steps that move a source towards a handle, or past it.    *)
(***************************************************************************)
LEMMA InsertSourceInv == ASSUME Inv, NEW s \in Sources, InsertSource(s)  PROVE Inv'
<1>1. op = NoOp /\ s \notin known /\ MaxSessions > 0
  BY DEF InsertSource, Ready
<1>2. /\ op' = [kind |-> "add", src |-> s, at |-> "record"] /\ known' = known \cup {s}
      /\ UNCHANGED <<complete, sessions, rows, beat, interval, beating, open, began, watch, silence>>
  BY DEF InsertSource
<1>3. op'.src = s /\ op'.at = "record" /\ op' \in Ops
  BY <1>2 DEF Ops
<1>4. Typed'
  BY <1>2, <1>3 DEF Inv, Typed
<1>5. Listed'
  BY <1>1, <1>2, <1>3 DEF Inv, Listed, Entered, Entering, Typed
<1> QED BY <1>2, <1>4, <1>5 DEF Inv, Patient

LEMMA ResumeInv == ASSUME Inv, NEW s \in Sources, Resume(s)  PROVE Inv'
<1>1. op = NoOp /\ s \in known /\ sessions[s] < MaxSessions
  BY DEF Resume, Ready
<1>2. /\ op' = [kind |-> "resume", src |-> s, at |-> "record"] /\ complete' = complete \ {s}
      /\ UNCHANGED <<known, sessions, rows, beat, interval, beating, open, began, watch, silence>>
  BY DEF Resume, Cleared
<1>3. op'.src = s /\ op'.at = "record" /\ op' \in Ops
  BY <1>2 DEF Ops
<1>4. Typed'
  BY <1>2, <1>3 DEF Inv, Typed
<1>5. Listed'
  BY <1>1, <1>2, <1>3 DEF Inv, Listed, Entered, Entering, Typed
<1> QED BY <1>2, <1>4, <1>5 DEF Inv, Patient

LEMMA RecordSessionInv == ASSUME Inv, RecordSession  PROVE Inv'
<1>1. op # NoOp /\ op.at = "record" /\ op \in Ops /\ op.src \in Sources
  BY OpFields DEF RecordSession, Inv
<1>2. /\ op' = [op EXCEPT !.at = "beat"] /\ sessions' = [sessions EXCEPT ![op.src] = @ + 1]
      /\ UNCHANGED <<known, complete, rows, beat, interval, beating, open, began, watch, silence>>
  BY DEF RecordSession
<1>3. op' \in Ops /\ op'.src = op.src /\ op'.at = "beat"
  BY <1>1, <1>2 DEF Ops
<1>4. Entering(op.src)
  BY <1>1 DEF Entering
<1>5. sessions[op.src] \in 0..MaxSessions /\ sessions[op.src] < MaxSessions
  BY <1>1, <1>4 DEF Inv, Typed, Listed
<1>6. /\ sessions' \in [Sources -> 0..MaxSessions]
      /\ sessions'[op.src] = sessions[op.src] + 1
      /\ \A s \in Sources : s # op.src => sessions'[s] = sessions[s]
  BY <1>1, <1>2, <1>5, LifecycleAssumption DEF Inv, Typed
<1>7. Typed'
  BY <1>2, <1>3, <1>6 DEF Inv, Typed
<1>8. Listed'
  <2>1. ASSUME NEW s \in Sources
        PROVE  /\ open[s] <= began[s] /\ began[s] <= sessions'[s]
               /\ Entered(s)' => began[s] < sessions'[s]
               /\ s \notin known => sessions'[s] = 0
    <3>1. /\ open[s] \in Nat /\ began[s] \in Nat /\ sessions[s] \in Nat
          /\ open[s] <= began[s] /\ began[s] <= sessions[s]
          /\ s \notin known => sessions[s] = 0 /\ s # op.src
      BY <1>1 DEF Inv, Typed, Listed
    <3> QED BY <1>2, <1>3, <1>6, <3>1 DEF Entered
  <2>2. op'.src \in known'
    BY <1>1, <1>2, <1>3 DEF Inv, Listed
  <2> QED BY <1>2, <1>3, <2>1, <2>2 DEF Listed, Entering
<1> QED BY <1>2, <1>7, <1>8 DEF Inv, Patient

LEMMA StartHeartbeatInv == ASSUME Inv, StartHeartbeat  PROVE Inv'
<1>1. op # NoOp /\ op.at = "beat" /\ op \in Ops /\ op.src \in Sources
  BY OpFields DEF StartHeartbeat, Inv
<1>2. /\ op' = [op EXCEPT !.at = AfterBeat] /\ interval' = interval \cup {op.src}
      /\ beat' = Beaten({op.src}) /\ silence' = Heard({op.src})
      /\ UNCHANGED <<known, complete, sessions, rows, beating, open, began, watch>>
  BY DEF StartHeartbeat
<1>3. op' \in Ops /\ op'.src = op.src /\ op'.at \in {"version", "reply"}
  BY <1>1, <1>2 DEF Ops, AfterBeat
<1>4. op.src \in known /\ Entered(op.src)
  BY <1>1 DEF Inv, Listed, Entered
<1>5. Typed'
  BY <1>2, <1>3, <1>4, BeatenEffect DEF Inv, Typed
<1>6. Listed'
  BY <1>1, <1>2, <1>3, <1>4 DEF Inv, Listed, Entered, Entering
<1>7. Patient'
  BY <1>2, BeatenEffect, LifecycleAssumption DEF Inv, Patient
<1> QED BY <1>5, <1>6, <1>7 DEF Inv

LEMMA HeartbeatFailsInv == ASSUME Inv, HeartbeatFails  PROVE Inv'
<1>1. op # NoOp /\ op.at = "beat" /\ op \in Ops /\ op.src \in Sources
  BY OpFields DEF HeartbeatFails, Inv
<1>2. /\ op' = [op EXCEPT !.at = AfterBeat]
      /\ UNCHANGED <<known, complete, sessions, rows, beat, interval, beating, open, began,
                     watch, silence>>
  BY DEF HeartbeatFails, file
<1>3. op' \in Ops /\ op'.src = op.src /\ op'.at \in {"version", "reply"}
  BY <1>1, <1>2 DEF Ops, AfterBeat
<1>4. Typed'
  BY <1>2, <1>3 DEF Inv, Typed
<1>5. Listed'
  BY <1>1, <1>2, <1>3 DEF Inv, Listed, Entered, Entering
<1> QED BY <1>2, <1>4, <1>5 DEF Inv, Patient

LEMMA HandOverInv == ASSUME Inv, HandOver  PROVE Inv'
<1>1. op # NoOp /\ op.at # "record" /\ op \in Ops /\ op.src \in Sources
  BY OpFields DEF HandOver, Inv
<1>2. /\ op' = NoOp /\ beating' = beating \cup {op.src}
      /\ open' = [open EXCEPT ![op.src] = @ + 1] /\ began' = [began EXCEPT ![op.src] = @ + 1]
      /\ UNCHANGED <<known, complete, sessions, rows, beat, interval, watch, silence>>
  BY DEF HandOver, file
<1>3. op.src \in known /\ Entered(op.src)
  BY <1>1 DEF Inv, Listed, Entered
<1>4. /\ open' \in [Sources -> Nat] /\ began' \in [Sources -> Nat]
      /\ \A s \in Sources : IF s = op.src
                            THEN open'[s] = open[s] + 1 /\ began'[s] = began[s] + 1
                            ELSE open'[s] = open[s] /\ began'[s] = began[s]
  BY <1>1, <1>2 DEF Inv, Typed
<1>5. Typed'
  BY <1>2, <1>3, <1>4 DEF Inv, Typed
<1>6. Listed'
  <2>1. ASSUME NEW s \in Sources
        PROVE  open'[s] <= began'[s] /\ began'[s] <= sessions[s]
    <3>1. /\ open[s] \in Nat /\ began[s] \in Nat /\ sessions[s] \in Nat
          /\ open[s] <= began[s] /\ began[s] <= sessions[s]
          /\ s = op.src => began[s] < sessions[s]
      BY <1>3 DEF Inv, Typed, Listed
    <3> QED BY <1>4, <3>1
  <2> QED BY <1>2, <2>1 DEF Inv, Listed, Entered, Entering
<1> QED BY <1>2, <1>5, <1>6 DEF Inv, Patient

\* A handle less, of whatever becomes of it.
LEMMA HandleGoneInv ==
  ASSUME Inv, NEW s \in Sources, open[s] > 0, open' = [open EXCEPT ![s] = @ - 1],
         complete' \in SUBSET known, beating' \in SUBSET beating,
         UNCHANGED <<known, sessions, rows, beat, interval, op, began, watch, silence>>
  PROVE  Inv'
<1>1. /\ open' \in [Sources -> Nat]
      /\ open'[s] = open[s] - 1
      /\ \A r \in Sources : r # s => open'[r] = open[r]
  BY DEF Inv, Typed
<1>2. Typed'
  BY <1>1 DEF Inv, Typed
<1>3. \A r \in Sources : open[r] \in Nat /\ began[r] \in Nat /\ open'[r] <= open[r]
  BY <1>1 DEF Inv, Typed
<1>4. Listed'
  BY <1>3 DEF Inv, Listed, Entered, Entering, Typed
<1> QED BY <1>2, <1>4 DEF Inv, Patient

\* A step that ends what is under way, and touches neither the handles nor
\* the watch.
LEMMA QuietInv ==
  ASSUME Inv, op' \in {op, NoOp}, rows' \in [Sources -> 0..MaxRows],
         UNCHANGED <<known, complete, sessions, beat, interval, beating, open, began, watch, silence>>
  PROVE  Inv'
<1>1. Typed'
  BY DEF Inv, Typed
<1>2. Listed'
  BY DEF Inv, Listed, Entered, Entering
<1> QED BY <1>1, <1>2 DEF Inv, Patient

\* The archive is opened again.  (Writer::open)
LEMMA ReopenInv == ASSUME Inv, Reopen  PROVE Inv'
<1>1. /\ beating' = {} /\ open' = Zero
      /\ UNCHANGED <<known, complete, sessions, rows, beat, interval, op, began, watch, silence>>
  BY DEF Reopen, file
<1>2. Zero \in [Sources -> Nat] /\ \A s \in Sources : Zero[s] = 0
  BY DEF Zero
<1>3. Typed'
  BY <1>1, <1>2 DEF Inv, Typed
<1>4. Listed'
  BY <1>1, <1>2 DEF Inv, Listed, Entered, Entering, Typed
<1> QED BY <1>1, <1>3, <1>4 DEF Inv, Patient

-----------------------------------------------------------------------------
(***************************************************************************)
(* The heartbeat and its reader.                                           *)
(***************************************************************************)
LEMMA LoopBeatInv == ASSUME Inv, LoopBeat  PROVE Inv'
<1>1. /\ beat' = Beaten(beating) /\ silence' = Heard(beating)
      /\ UNCHANGED <<known, complete, sessions, rows, interval, op, beating, open, began, watch>>
  BY DEF LoopBeat
<1>2. Typed'
  BY <1>1, BeatenEffect DEF Inv, Typed
<1>3. Listed'
  BY <1>1 DEF Inv, Listed, Entered, Entering
<1>4. Patient'
  BY <1>1, BeatenEffect, LifecycleAssumption DEF Inv, Patient
<1> QED BY <1>2, <1>3, <1>4 DEF Inv

LEMMA ObserveInv == ASSUME Inv, NEW s \in Watched, Observe(s)  PROVE Inv'
<1>1. /\ watch' = [watch EXCEPT ![s] = [seen |-> beat[s], age |-> 0]]
      /\ UNCHANGED <<known, complete, sessions, rows, beat, interval, op, beating, open, began,
                     silence>>
  BY DEF Observe, file, thread
<1>2. s \in Sources /\ 0 \in 0..StoppedAfter
  BY LifecycleAssumption
<1>3. /\ watch' \in [Sources -> [seen : {0} \cup Beats, age : 0..StoppedAfter]]
      /\ watch'[s].age = 0
      /\ \A r \in Sources : r # s => watch'[r] = watch[r]
  BY <1>1, <1>2 DEF Inv, Typed
<1>4. Typed'
  BY <1>1, <1>3 DEF Inv, Typed
<1>5. Listed'
  BY <1>1 DEF Inv, Listed, Entered, Entering
<1>6. Patient'
  <2>1. \A r \in Sources : silence[r] \in Nat
    BY LifecycleAssumption DEF Inv, Typed
  <2> QED BY <1>1, <1>3, <2>1, LifecycleAssumption DEF Inv, Patient
<1> QED BY <1>4, <1>5, <1>6 DEF Inv

LEMMA TickInv == ASSUME Inv, Tick  PROVE Inv'
<1>1. UNCHANGED <<known, complete, sessions, rows, beat, interval, op, beating, open, began>>
  BY DEF Tick, file
<1>2. \A s \in Sources :
        /\ watch[s] \in [seen : {0} \cup Beats, age : 0..StoppedAfter]
        /\ silence[s] \in 0..StoppedAfter
  BY DEF Inv, Typed
<1>3. \A s \in Sources :
        watch'[s] = IF watch[s].seen = 0 THEN watch[s]
                                         ELSE [watch[s] EXCEPT !.age = Later(watch[s].age)]
  BY DEF Tick
<1>4. \A s \in Sources : silence'[s] = IF s \in Watched THEN Later(silence[s]) ELSE silence[s]
  BY DEF Tick
<1>5. watch' \in [Sources -> [seen : {0} \cup Beats, age : 0..StoppedAfter]]
  <2>1. ASSUME NEW s \in Sources
        PROVE  watch'[s] \in [seen : {0} \cup Beats, age : 0..StoppedAfter]
    <3>1. Later(watch[s].age) \in 0..StoppedAfter
      BY <1>2, LaterGrows
    <3> QED BY <1>2, <1>3, <3>1
  <2> QED BY <2>1 DEF Tick
<1>6. silence' \in [Sources -> 0..StoppedAfter]
  BY <1>2, <1>4, LaterGrows DEF Tick
<1>7. Typed'
  BY <1>1, <1>5, <1>6 DEF Inv, Typed
<1>8. Listed'
  BY <1>1 DEF Inv, Listed, Entered, Entering
<1>9. Patient'
  <2>1. ASSUME NEW s \in Watched, watch'[s].seen # 0, watch'[s].seen = beat'[s]
        PROVE  watch'[s].age <= silence'[s]
    <3>1. s \in Sources
      BY LifecycleAssumption
    <3>2. watch[s].seen = watch'[s].seen
      BY <1>2, <1>3, <3>1
    <3>3. watch'[s].age = Later(watch[s].age) /\ silence'[s] = Later(silence[s])
      BY <1>2, <1>3, <1>4, <2>1, <3>1, <3>2
    <3>4. watch[s].age <= silence[s]
      BY <1>1, <2>1, <3>2 DEF Inv, Patient
    <3> QED BY <1>2, <3>1, <3>3, <3>4, LaterGrows
  <2> QED BY <2>1 DEF Patient
<1> QED BY <1>7, <1>8, <1>9 DEF Inv

-----------------------------------------------------------------------------
\* The invariant is inductive: one step per action.
LEMMA StepInv == Inv /\ [Next]_vars => Inv'
<1> SUFFICES ASSUME Inv, [Next]_vars  PROVE Inv'
  OBVIOUS
<1> USE DEF file, thread
<1>1. rows \in [Sources -> 0..MaxRows] /\ complete \subseteq known /\ beating \subseteq beating
  BY DEF Inv, Typed
<1>2. ASSUME NEW s \in Sources, InsertSource(s)  PROVE Inv'
  BY <1>2, InsertSourceInv
<1>3. ASSUME NEW s \in Sources, Resume(s)  PROVE Inv'
  BY <1>3, ResumeInv
<1>4. ASSUME NEW s \in Sources, Append(s) \/ WalTick(s)  PROVE Inv'
  <2>1. CommitRows(s)
    BY <1>4 DEF Append, WalTick
  <2>2. rows[s] \in 0..MaxRows /\ rows[s] < MaxRows
    BY <1>1, <2>1 DEF CommitRows
  <2>3. rows' \in [Sources -> 0..MaxRows]
    BY <1>1, <2>1, <2>2, LifecycleAssumption DEF CommitRows
  <2> QED BY <2>1, <2>3, QuietInv DEF CommitRows
<1>5. ASSUME NEW s \in Sources, SetIdentity(s)  PROVE Inv'
  BY <1>1, <1>5, QuietInv DEF SetIdentity, KeptSessions
<1>6. ASSUME NEW s \in Sources, Finalize(s)  PROVE Inv'
  <2>1. s \in known
    BY <1>6 DEF Finalize, Inv, Listed, Typed
  <2>2. complete' \in SUBSET known /\ beating' \in SUBSET beating
    BY <1>1, <1>6, <2>1 DEF Finalize
  <2> QED BY <1>6, <2>2, HandleGoneInv DEF Finalize
<1>7. ASSUME NEW s \in Sources, DropHandle(s)  PROVE Inv'
  BY <1>1, <1>7, HandleGoneInv DEF DropHandle
<1>8. CASE RecordSession
  BY <1>8, RecordSessionInv
<1>9. CASE StartHeartbeat
  BY <1>9, StartHeartbeatInv
<1>10. CASE HeartbeatFails
  BY <1>10, HeartbeatFailsInv
<1>11. CASE HandOver
  BY <1>11, HandOverInv
<1>12. CASE GiveUp
  BY <1>1, <1>12, QuietInv DEF GiveUp
<1>13. CASE LoopBeat
  BY <1>13, LoopBeatInv
<1>14. CASE BeatFails
  BY <1>1, <1>14, QuietInv DEF BeatFails
<1>15. CASE Shutdown
  BY <1>1, <1>15, QuietInv DEF Shutdown
<1>16. CASE Stop
  BY <1>1, <1>16, QuietInv DEF Stop
<1>17. CASE Reopen
  BY <1>17, ReopenInv
<1>18. ASSUME NEW s \in Watched, Observe(s)  PROVE Inv'
  BY <1>18, ObserveInv
<1>19. CASE Tick
  BY <1>19, TickInv
<1>20. CASE UNCHANGED vars
  BY <1>1, <1>20, QuietInv DEF vars
<1> QED
  BY <1>2, <1>3, <1>4, <1>5, <1>6, <1>7, <1>8, <1>9, <1>10, <1>11, <1>12, <1>13, <1>14, <1>15,
     <1>16, <1>17, <1>18, <1>19, <1>20 DEF Next

\* The invariant of every source's life, kills between its commits included.
THEOREM Invariance == Spec => []Inv
BY InitInv, StepInv, PTL DEF Spec

\* Every session that was ever given a handle is listed with its source,
\* whatever failed or was killed on the way.  (record_session)
THEOREM SessionsAreListed == Spec => []SessionsListed
<1>1. Inv => SessionsListed
  BY DEF Inv, Listed, SessionsListed
<1> QED BY <1>1, Invariance, PTL

\* A reader never judges a writer stopped that has beaten within the last
\* STOPPED_AFTER_INTERVALS.  (HeartbeatWatch)
THEOREM StoppedMeansSilent == Spec => []StoppedIsSilent
<1>1. Inv => StoppedIsSilent
  <2> SUFFICES ASSUME Inv, NEW s \in Watched, Verdict(s) = "stopped"
               PROVE  silence[s] = StoppedAfter
    BY DEF StoppedIsSilent
  <2>1. s \in Sources /\ silence[s] \in 0..StoppedAfter
    BY LifecycleAssumption DEF Inv, Typed
  <2>2. watch[s].seen = beat[s] /\ watch[s].age = StoppedAfter /\ beat[s] # 0
    BY DEF Verdict
  <2> QED BY <2>1, <2>2, LifecycleAssumption DEF Inv, Patient
<1> QED BY <1>1, Invariance, PTL

-----------------------------------------------------------------------------
(***************************************************************************)
(* The complete flag, however many handles callers hold on a source.       *)
(***************************************************************************)
LEMMA StepAtRest ==
  ASSUME Inv, AtRest, [Next]_vars  PROVE AtRest'
<1> USE DEF file, thread
<1>1. complete \subseteq known /\ op \in Ops \cup {NoOp}
  BY DEF Inv, Typed
<1>2. ASSUME NEW s \in Sources, InsertSource(s)  PROVE AtRest'
  <2>1. op'.src = s /\ complete' = complete /\ beating' = beating /\ s \notin complete
    BY <1>1, <1>2 DEF InsertSource
  <2> QED BY <2>1 DEF AtRest
<1>3. ASSUME NEW s \in Sources, Resume(s)  PROVE AtRest'
  <2>1. op'.src = s /\ complete' = complete \ {s} /\ beating' = beating
    BY <1>3 DEF Resume, Cleared
  <2> QED BY <2>1 DEF AtRest
<1>4. ASSUME NEW s \in Sources, Finalize(s)  PROVE AtRest'
  <2>1. /\ op = NoOp /\ op' = op
        /\ complete' = complete \cup {s} /\ beating' = beating \ {s}
    BY <1>4 DEF Finalize, Ready
  <2> QED BY <2>1 DEF AtRest
<1>5. CASE RecordSession \/ StartHeartbeat \/ HeartbeatFails
  <2>1. /\ op # NoOp /\ op \in Ops
        /\ op' \in {[op EXCEPT !.at = "beat"], [op EXCEPT !.at = AfterBeat]}
        /\ complete' = complete /\ beating' = beating
    BY <1>1, <1>5 DEF RecordSession, StartHeartbeat, HeartbeatFails
  <2>2. op'.src = op.src
    BY <2>1 DEF Ops
  <2> QED BY <2>1, <2>2 DEF AtRest
<1>6. CASE HandOver
  <2>1. op # NoOp /\ op' = NoOp /\ complete' = complete /\ beating' = beating \cup {op.src}
    BY <1>6 DEF HandOver
  <2> QED BY <2>1 DEF AtRest
<1>7. CASE Reopen
  BY <1>7 DEF Reopen, AtRest
<1>8. ASSUME op' \in {op, NoOp}, UNCHANGED <<complete, beating>>  PROVE AtRest'
  BY <1>8 DEF AtRest
<1>9. ASSUME NEW s \in Sources, Append(s) \/ WalTick(s) \/ SetIdentity(s) \/ DropHandle(s)
      PROVE  AtRest'
  BY <1>8, <1>9 DEF Append, WalTick, CommitRows, SetIdentity, DropHandle
<1>10. CASE GiveUp \/ LoopBeat \/ BeatFails \/ Shutdown \/ Stop \/ Tick
  BY <1>8, <1>10 DEF GiveUp, LoopBeat, BeatFails, Shutdown, Stop, Tick
<1>11. ASSUME NEW s \in Watched, Observe(s)  PROVE AtRest'
  BY <1>8, <1>11 DEF Observe
<1>12. CASE UNCHANGED vars
  BY <1>8, <1>12 DEF vars
<1> QED
  BY <1>2, <1>3, <1>4, <1>5, <1>6, <1>7, <1>9, <1>10, <1>11, <1>12 DEF Next

\* A handle less, of whatever becomes of it: none is left of one.
LEMMA HandleGoneInOneHand ==
  ASSUME Inv, InOneHand, NEW s \in Sources, open[s] > 0, open' = [open EXCEPT ![s] = @ - 1],
         op' = op, shared' = shared, complete' \in {complete, complete \cup {s}}
  PROVE  InOneHand'
<1>1. open[s] \in Nat /\ open'[s] = open[s] - 1
  BY DEF Inv, Typed
<1>2. \A r \in Sources : r # s => open'[r] = open[r]
  BY DEF Inv, Typed
<1>3. s \notin shared => open'[s] = 0
  BY <1>1 DEF InOneHand
<1> QED BY <1>2, <1>3 DEF InOneHand

LEMMA StepInOneHand ==
  ASSUME Inv, AtRest, InOneHand, [Next]_vars  PROVE InOneHand'
<1> USE DEF file, thread
<1>1. /\ complete \subseteq known /\ op \in Ops \cup {NoOp}
      /\ open \in [Sources -> Nat]
  BY DEF Inv, Typed
<1>2. ASSUME NEW s \in Sources, InsertSource(s)  PROVE InOneHand'
  <2>1. op'.src = s /\ open' = open /\ complete' = complete /\ shared' = shared
    BY <1>2 DEF InsertSource
  <2>2. open[s] = 0
    BY <1>1, <1>2 DEF InsertSource, Inv, Typed, Listed
  <2>3. op = NoOp
    BY <1>2 DEF InsertSource, Ready
  <2> QED BY <2>1, <2>2, <2>3 DEF InOneHand
<1>3. ASSUME NEW s \in Sources, Resume(s)  PROVE InOneHand'
  <2>1. /\ op'.src = s /\ open' = open /\ complete' = complete \ {s}
        /\ shared' = IF open[s] = 0 THEN shared ELSE shared \cup {s}
    BY <1>3 DEF Resume, Cleared
  <2>2. s \notin shared' => open[s] = 0
    BY <2>1
  <2>3. shared \subseteq shared'
    BY <2>1
  <2> QED BY <2>1, <2>2, <2>3 DEF InOneHand
<1>4. ASSUME NEW s \in Sources, Finalize(s)  PROVE InOneHand'
  BY <1>4, HandleGoneInOneHand DEF Finalize
<1>5. ASSUME NEW s \in Sources, DropHandle(s)  PROVE InOneHand'
  BY <1>5, HandleGoneInOneHand DEF DropHandle
<1>6. CASE RecordSession \/ StartHeartbeat \/ HeartbeatFails
  <2>1. /\ op # NoOp /\ op \in Ops
        /\ op' \in {[op EXCEPT !.at = "beat"], [op EXCEPT !.at = AfterBeat]}
        /\ open' = open /\ complete' = complete /\ shared' = shared
    BY <1>1, <1>6 DEF RecordSession, StartHeartbeat, HeartbeatFails
  <2>2. op'.src = op.src
    BY <2>1 DEF Ops
  <2> QED BY <2>1, <2>2 DEF InOneHand
<1>7. CASE HandOver
  <2>1. /\ op # NoOp /\ op.src \in Sources /\ op' = NoOp /\ complete' = complete
        /\ shared' = shared /\ open' = [open EXCEPT ![op.src] = @ + 1]
    BY <1>7, OpFields DEF HandOver, Inv
  <2>2. \A r \in Sources : r # op.src => open'[r] = open[r]
    BY <1>1, <2>1
  <2>3. open'[op.src] = open[op.src] + 1
    BY <1>1, <2>1
  <2>4. op.src \notin complete
    BY <2>1 DEF AtRest
  <2>5. op.src \notin shared => open'[op.src] = 1
    BY <2>1, <2>3 DEF InOneHand
  <2> QED BY <2>1, <2>2, <2>4, <2>5 DEF InOneHand
<1>8. CASE Reopen
  <2>1. op' = op /\ open' = Zero /\ ~ running /\ complete' = complete
    BY <1>8 DEF Reopen
  <2>2. \A s \in Sources : open'[s] = 0
    BY <2>1 DEF Zero
  <2>3. \A s \in Sources : open'[s] <= 1
    BY <2>2
  <2> QED BY <2>2, <2>3, Zenon DEF InOneHand
<1>9. ASSUME op' \in {op, NoOp}, UNCHANGED <<complete, open, shared>>  PROVE InOneHand'
  BY <1>9 DEF InOneHand
<1>10. ASSUME NEW s \in Sources, Append(s) \/ WalTick(s) \/ SetIdentity(s)  PROVE InOneHand'
  BY <1>9, <1>10 DEF Append, WalTick, CommitRows, SetIdentity
<1>11. CASE GiveUp \/ LoopBeat \/ BeatFails \/ Shutdown \/ Stop \/ Tick
  BY <1>9, <1>11 DEF GiveUp, LoopBeat, BeatFails, Shutdown, Stop, Tick
<1>12. ASSUME NEW s \in Watched, Observe(s)  PROVE InOneHand'
  BY <1>9, <1>12 DEF Observe
<1>13. CASE UNCHANGED vars
  BY <1>9, <1>13 DEF vars
<1> QED
  BY <1>2, <1>3, <1>4, <1>5, <1>6, <1>7, <1>8, <1>10, <1>11, <1>12, <1>13 DEF Next

\* The three steps that write rows or beats keep to this of a complete source.
LEMMA StepFrozen ==
  ASSUME Inv, AtRest, InOneHand, [Next]_vars
  PROVE  \A s \in complete \cap complete' :
           /\ beat'[s] = beat[s]
           /\ rows'[s] # rows[s] => open[s] = 0 \/ s \in shared
<1> USE DEF file, thread
<1>1. complete \subseteq Sources
  BY DEF Inv, Typed
<1>2. \A s \in complete : open[s] = 0 \/ s \in shared
  BY <1>1 DEF InOneHand
<1>3. ASSUME NEW s \in Sources, Append(s) \/ WalTick(s)  PROVE beat' = beat
  BY <1>3 DEF Append, WalTick, CommitRows
<1>4. ASSUME StartHeartbeat  PROVE \A r \in complete : beat'[r] = beat[r]
  <2>1. op.src \notin complete
    BY <1>4 DEF StartHeartbeat, AtRest
  <2> QED BY <1>1, <1>4, <2>1 DEF StartHeartbeat, Beaten
<1>5. ASSUME LoopBeat  PROVE \A r \in complete : beat'[r] = beat[r]
  <2>1. \A r \in complete : r \notin beating
    BY DEF AtRest
  <2> QED BY <1>1, <1>5, <2>1 DEF LoopBeat, Beaten
<1>6. \/ beat' = beat
      \/ \E s \in Sources : Append(s) \/ WalTick(s)
      \/ StartHeartbeat \/ LoopBeat
  BY DEF Next, vars, InsertSource, Resume, SetIdentity, Finalize, DropHandle, RecordSession,
         HeartbeatFails, HandOver, GiveUp, BeatFails, Shutdown, Stop, Reopen, Observe, Tick
<1> QED BY <1>2, <1>3, <1>4, <1>5, <1>6

\* What reads as complete gets no beat until it is resumed, and no row through
\* a handle unless somebody resumed it under an open one: whatever callers do,
\* and whatever fails or is killed.  (Msg::Finalize, mark_incomplete)
THEOREM CompleteSourcesAreFrozen == Spec => CompleteIsFrozen
<1>1. Init => AtRest /\ InOneHand
  BY InitInv
<1>2. Inv /\ AtRest /\ InOneHand /\ [Next]_vars => AtRest' /\ InOneHand'
  BY StepAtRest, StepInOneHand
<1>3. Inv /\ AtRest /\ InOneHand /\ [Next]_vars
        => [\A s \in complete \cap complete' :
              /\ beat'[s] = beat[s]
              /\ rows'[s] # rows[s] => open[s] = 0 \/ s \in shared]_vars
  BY StepFrozen
<1> QED BY <1>1, <1>2, <1>3, Invariance, PTL DEF Spec, CompleteIsFrozen
=============================================================================
