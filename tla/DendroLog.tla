----------------------------- MODULE DendroLog -----------------------------
(***************************************************************************)
(* What an archive promises whoever reads it.  The rows a read returns     *)
(* change in three ways only:                                              *)
(*                                                                         *)
(*   - rows that were not there are appended (a committed tick, or a       *)
(*     segment built elsewhere);                                           *)
(*   - retention expires rows of one source, oldest first in every         *)
(*     stream, so what is left of a stream is its newest end;              *)
(*   - a seal leaves out rows its encoder cannot decode on their own, and  *)
(*     then only rows with newer ones of their stream behind them, so the  *)
(*     newest row of a stream is never lost to an encoder.                 *)
(*                                                                         *)
(* Sealing, pruning, a retried or deferred seal, a crash and a reopening   *)
(* are invisible here: a reader cannot tell that any of them happened.     *)
(***************************************************************************)
EXTENDS Integers

CONSTANT Rows          \* every row there could be, a record with fields src, str, ts

VARIABLE log           \* the rows a read returns

Together(x, y) == x.src = y.src /\ x.str = y.str

Init == log = {}

Append ==
  /\ log' \subseteq Rows
  /\ log \subseteq log'

Expire ==
  /\ log' \subseteq log
  /\ \A g \in log \ log', r \in log' : Together(r, g) => g.ts < r.ts
  /\ \A g, h \in log \ log' : g.src = h.src

LeaveOut ==
  /\ log' \subseteq log
  /\ \A g \in log \ log' : \E r \in log' : Together(r, g) /\ g.ts < r.ts

Next == Append \/ Expire \/ LeaveOut

Spec == Init /\ [][Next]_log
=============================================================================
