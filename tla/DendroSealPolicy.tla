-------------------------- MODULE DendroSealPolicy --------------------------
(***************************************************************************)
(* When to seal: a caller that appends rows to its streams, keeps a        *)
(* SegmentAccount for each, asks it after a tick whether the open segment  *)
(* is due, has the due ones sealed under the policy's max_rows and rotates *)
(* their accounts, without waiting for the seal.  The seal is that of      *)
(* DendroSplitSeal, one stream of the batch after the other.               *)
(*                                                                         *)
(* A policy's align is 0, or negative, for None.  The stagger hash is pure *)
(* arithmetic over names and stands here as the bucket it draws, the       *)
(* constant Bucket.  Row timestamps and instants share one clock.          *)
(***************************************************************************)
EXTENDS DendroSplitSeal, FiniteSetsExt

CONSTANTS
  Policies,        \* records [maxRows, maxBytes, maxAge, align, asks]: a SealPolicy, and
                   \* whether the caller asks starts_new_bucket before it adds a row
  RowBytes,        \* what one row of each stream is charged
  StaggerBuckets,  \* STAGGER_BUCKETS
  Bucket,          \* the bucket each stream draws
  Lossy,           \* the streams whose encoder may leave rows out, or fail
  Loose            \* bound: ticks past it are those of a caller in lockstep

ASSUME SealPolicyAssumption ==
  /\ Policies \subseteq [maxRows : Nat, maxBytes : Nat, maxAge : Nat,
                          align : Int, asks : BOOLEAN]
  /\ RowBytes \in [Streams -> Nat]
  /\ StaggerBuckets \in Nat \ {0}
  /\ Bucket \in [Streams -> 0..(StaggerBuckets - 1)]
  /\ Lossy \subseteq Streams
  /\ Loose \in Int

VARIABLES
  policy,   \* the caller's policy
  account,  \* each stream's SegmentAccount
  live,     \* each stream's live rows, the writer's side of the hand-off
  now,      \* the clock
  coming,   \* the streams that have a row in this tick
  phase,    \* where in a tick the caller is
  batch,    \* the streams asked to be sealed whose turn is not over
  asked,    \* the accounts the last batch was asked for on, to compare
  made,     \* what the batch will commit
  habit     \* what the caller has kept to so far, to compare

caller == <<account, now, coming, phase, asked, habit>>
sealing == <<rows, cap, at, start, parts>>

Start == Min(Timestamps) - 1

\* No stream is in the encoder's hands.
Resting == at = "idle" /\ batch = {} /\ made = {}

-----------------------------------------------------------------------------
(***************************************************************************)
(* SegmentAccount.  A bucket that is not known is the empty set.           *)
(***************************************************************************)
Less(n, m) == IF m > n THEN 0 ELSE n - m
AtLeastOne(n) == IF n = 0 THEN 1 ELSE n
Offset(n, str) == (n \div (2 * StaggerBuckets)) * Bucket[str]

\* A slip: the same targets for every stream.
OpenedAlike(str, p, at0) ==
  [rows |-> 0, bytes |-> 0, opened |-> at0, first |-> {}, last |-> {},
   maxRows |-> p.maxRows, maxBytes |-> p.maxBytes, maxAge |-> p.maxAge]

OpenedFirst(str, p, at0) ==
  [rows |-> 0, bytes |-> 0, opened |-> at0, first |-> {}, last |-> {},
   maxRows  |-> AtLeastOne(Less(p.maxRows, Offset(p.maxRows, str))),
   maxBytes |-> AtLeastOne(Less(p.maxBytes, Offset(p.maxBytes, str))),
   maxAge   |-> Less(p.maxAge, Offset(p.maxAge, str))]

\* A slip: division that rounds toward zero.
BucketOfTruncated(ts) ==
  IF policy.align > 0
    THEN {IF ts < 0 THEN -((-ts) \div policy.align) ELSE ts \div policy.align}
    ELSE {}

\* div_euclid, which rounds down.
BucketOf(ts) == IF policy.align > 0 THEN {ts \div policy.align} ELSE {}

Added(a, bytes, ts) ==
  [a EXCEPT !.rows = @ + 1, !.bytes = @ + bytes,
            !.first = IF @ = {} THEN BucketOf(ts) ELSE @,
            !.last = BucketOf(ts)]

StartsNewBucket(a, ts) == a.first # {} /\ BucketOf(ts) # {} /\ BucketOf(ts) # a.first

IsDue(a) ==
  /\ a.rows > 0
  /\ \/ a.bytes >= a.maxBytes
     \/ a.rows >= a.maxRows
     \/ now - a.opened >= a.maxAge
     \/ a.first # a.last

\* A slip: the staggered targets stay.
RotatedStaggered(a) ==
  [a EXCEPT !.rows = 0, !.bytes = 0, !.opened = now, !.first = {}, !.last = {}]

Rotated(a) ==
  [rows |-> 0, bytes |-> 0, opened |-> now, first |-> {}, last |-> {},
   maxRows |-> policy.maxRows, maxBytes |-> policy.maxBytes, maxAge |-> policy.maxAge]

-----------------------------------------------------------------------------
(***************************************************************************)
(* The caller's loop.                                                      *)
(***************************************************************************)
PolicyInit ==
  /\ policy \in Policies
  /\ account = [str \in Streams |-> OpenedFirst(str, policy, Start)]
  /\ live = [str \in Streams |-> {}]
  /\ now = Start
  /\ coming = {} /\ phase = "wait"
  /\ batch = {} /\ asked = <<>> /\ made = {}
  /\ habit = "lockstep"
  /\ at = "idle" /\ rows = {} /\ cap = 1 /\ start = 0 /\ parts = <<>>

\* seal_capped with max_rows, and rotate.
Ask(strs) ==
  /\ batch' = strs
  /\ asked' = [str \in strs |-> account[str]]
  /\ account' = [str \in Streams |->
                   IF str \in strs THEN Rotated(account[str]) ELSE account[str]]

TickComes ==
  /\ Resting /\ phase = "wait"
  /\ now + 1 \in Timestamps
  /\ now' = now + 1
  /\ coming' \in SUBSET Streams
  /\ now + 1 > Loose => coming' = Streams /\ habit = "lockstep"
  /\ habit' = IF habit = "lockstep" /\ coming' # Streams THEN "checks" ELSE habit
  /\ phase' = IF policy.asks THEN "ask" ELSE "add"
  /\ asked' = <<>>
  /\ UNCHANGED <<policy, account, live, batch, made, sealing>>

AskFirst ==
  /\ phase = "ask"
  /\ Ask({str \in coming : StartsNewBucket(account[str], now)})
  /\ phase' = "add"
  /\ UNCHANGED <<policy, live, now, coming, made, habit, sealing>>

\* The tick's rows; a caller that is late lets its check go by.
AddRows ==
  /\ Resting /\ phase = "add"
  /\ live' = [str \in Streams |-> IF str \in coming THEN live[str] \cup {now} ELSE live[str]]
  /\ account' = [str \in Streams |->
       IF str \in coming THEN Added(account[str], RowBytes[str], now) ELSE account[str]]
  /\ \/ phase' = "check" /\ habit' = habit
     \/ phase' = "wait" /\ habit' = "late"
  /\ coming' = {}
  /\ asked' = <<>>
  /\ UNCHANGED <<policy, now, batch, made, sealing>>

Check ==
  /\ phase = "check"
  /\ Ask({str \in Streams : IsDue(account[str])})
  /\ phase' = "wait"
  /\ UNCHANGED <<policy, live, now, coming, made, habit, sealing>>

-----------------------------------------------------------------------------
(***************************************************************************)
(* seal_batch: a stream without live rows is passed over, the others go    *)
(* through split_seal in the batch's order, which makes no difference, and *)
(* one transaction commits what came of it.                                *)
(***************************************************************************)
Turn == CHOOSE str \in batch : TRUE

TakeStream ==
  /\ at = "idle" /\ batch # {}
  /\ rows' = live[Turn]
  /\ cap' = AtLeastOne(policy.maxRows)
  /\ at' = CASE live[Turn] = {} -> "nothing"
             [] Cardinality(live[Turn]) > cap' -> "parts"
             [] OTHER -> "whole"
  /\ UNCHANGED <<policy, live, batch, made, start, parts, caller>>

KeepsAll ==
  /\ at' \in {"parts", "made", "sealed"}
  /\ at' = "made" => UNION {parts'[i].rows : i \in 1..Len(parts')} = rows

EncodeStep ==
  /\ Next
  /\ Turn \in Lossy \/ KeepsAll
  /\ UNCHANGED <<policy, live, batch, made, caller>>

\* The stream's segments wait for the commit; one without any is passed over.
EndTurn ==
  /\ at \in {"sealed", "nothing"}
  /\ made' = IF at = "sealed" THEN made \cup {[str |-> Turn, rows |-> rows, parts |-> parts]}
             ELSE made
  /\ batch' = batch \ {Turn}
  /\ at' = "idle" /\ rows' = {} /\ start' = 0 /\ parts' = <<>>
  /\ UNCHANGED <<policy, live, cap, caller>>

CommitBatch ==
  /\ at = "idle" /\ batch = {} /\ made # {}
  /\ live' = [str \in Streams |->
       {t \in live[str] : \A m \in made : m.str = str => m.parts[Len(m.parts)].last < t}]
  /\ made' = {}
  /\ UNCHANGED <<policy, batch, caller, sealing>>

PolicyNext ==
  \/ TickComes \/ AskFirst \/ AddRows \/ Check
  \/ TakeStream \/ EncodeStep \/ EndTurn \/ CommitBatch

policyVars == <<policy, live, batch, made, caller, sealing>>

PolicySpec == PolicyInit /\ [][PolicyNext]_policyVars

-----------------------------------------------------------------------------
(***************************************************************************)
(* Correctness.                                                            *)
(***************************************************************************)

\* The multiples of align that separate two rows: none, or a boundary.
Apart(t, u) == policy.align > 0 /\ t \div policy.align # u \div policy.align

Spanned(S) == Cardinality({t \div policy.align : t \in S})

(***************************************************************************)
(* Under alignment a segment holds rows of one bucket if the caller asked  *)
(* before each row, of two at most if it checks after each tick, whatever  *)
(* side of the epoch the rows are on; as long as the account has counted   *)
(* every live row, which it has not of rows an encoder left in the WAL or  *)
(* an earlier session did.  (SealPolicy.align)                             *)
(***************************************************************************)
BucketsKept ==
  \A m \in made :
    policy.align > 0 /\ asked[m.str].rows = Cardinality(m.rows) =>
      \A i \in 1..Len(m.parts) :
        /\ policy.asks => Spanned(m.parts[i].rows) <= 1
        /\ habit # "late" => Spanned(m.parts[i].rows) <= 2

(***************************************************************************)
(* A seal is asked for a reason: there is a row, and a cap or the age has  *)
(* been reached, or half of it in the stream's first segment, or the rows  *)
(* are at a boundary.  The stagger is a phase offset of one short segment  *)
(* and no change of the period.  (open_first, rotate)                      *)
(***************************************************************************)
SealsAreEarned ==
  \A str \in batch :
    LET a == asked[str]
        of == IF a.opened = Start THEN 2 ELSE 1
    IN  /\ a.rows > 0
        /\ \/ of * a.rows >= policy.maxRows
           \/ of * a.bytes >= policy.maxBytes
           \/ of * (now - a.opened) >= policy.maxAge
           \/ \E t, u \in live[str] \cup {now} : Apart(t, u)

(***************************************************************************)
(* Streams bound by the row cap alone, with different staggers, that get a *)
(* row in every tick never come due in the same one, in their first        *)
(* segment or any later: "desyncs the tables for the life of the source".  *)
(* It takes a cap that the stagger can divide, and a check in every tick.  *)
(* (open_first)                                                            *)
(***************************************************************************)
RowBound ==
  /\ policy.maxRows >= 2 * StaggerBuckets
  /\ policy.align <= 0
  /\ \A str \in Streams :
       RowBytes[str] * Cardinality(Timestamps) < policy.maxBytes \div 2
  /\ Cardinality(Timestamps) < policy.maxAge \div 2

NeverTogether ==
  RowBound /\ habit = "lockstep" =>
    \A s, u \in batch : Bucket[s] # Bucket[u] => s = u
=============================================================================
