------------------------ MODULE DendroOpeningProofs ------------------------
(***************************************************************************)
(* What is proved of the connections on one path, for any set of read      *)
(* handles and any number of commits.  The argument: a sidecar is missing  *)
(* only where the main file holds every commit, because whoever removes it *)
(* has folded it in and nobody commits without one.                        *)
(***************************************************************************)
EXTENDS DendroOpening, TLAPS

\* Commits are in the main file where there is no sidecar to hold them.
Kept ==
  /\ ~ sidecar => folded = Len(log)
  /\ writer = "open" => sidecar
  /\ file # "archive" => log = <<>> /\ folded = 0

\* Who may be on the path at the same time, and on which media.
Apart ==
  /\ writer = "creating" => file = "claimed"
  /\ writer = "open" => file = "archive"
  /\ mut => /\ writer = "none" /\ file = "archive"
            /\ \A r \in Readers : reader[r] = "closed"
  /\ media = "ro" => writer = "none" /\ ~ mut /\ file = "archive"
  /\ \A r \in Readers : reader[r] = "immutable" => ~ sidecar /\ media = "ro"

\* A close that folds comes from a check that saw the archive finished.
Checked ==
  \A r \in Readers :
    reader[r] = "folds" => checked[r] <= Len(log) /\ FinishedAt(checked[r])

Inv == TypeOK /\ Kept /\ Apart /\ Checked

-----------------------------------------------------------------------------
LEMMA InitInv == Init => Inv
<1> SUFFICES ASSUME Init PROVE Inv
  OBVIOUS
<1>1. log \in Seq({"begin", "row", "finish"}) /\ Len(log) = 0 /\ folded \in 0..Len(log)
  BY DEF Init
<1>2. \A r \in Readers : reader[r] = "closed" /\ checked[r] = 0
  BY DEF Init
<1>3. TypeOK
  BY <1>1 DEF Init, TypeOK
<1>4. Kept /\ Apart /\ Checked
  BY <1>1, <1>2 DEF Init, Kept, Apart, Checked
<1> QED BY <1>3, <1>4 DEF Inv

-----------------------------------------------------------------------------
(***************************************************************************)
(* Steps that leave the commits alone keep what a check has seen.          *)
(***************************************************************************)
LEMMA SeenStays ==
  ASSUME Checked, UNCHANGED <<log, checked>>,
         \A r \in Readers : reader'[r] = "folds" => reader[r] = "folds"
  PROVE  Checked'
BY DEF Checked, FinishedAt

\* What folding the sidecar in does.
LEMMA FoldEffect ==
  ASSUME TypeOK, Kept, Fold
  PROVE  /\ file' = file /\ log' = log /\ media' = media
         /\ folded' = Len(log) /\ folded' \in 0..Len(log')
         /\ sidecar' = FALSE /\ shm' = FALSE
         /\ file # "archive" => folded' = 0
<1>1. Len(log) \in Nat /\ (log = <<>> => Len(log) = 0)
  BY DEF TypeOK
<1>2. file' = file /\ log' = log /\ media' = media
  BY DEF Fold
<1>3. folded' = Len(log) /\ sidecar' = FALSE /\ shm' = FALSE
  BY DEF Fold
<1> QED BY <1>1, <1>2, <1>3 DEF Kept

LEMMA CreationKeeps ==
  ASSUME Inv, Claim \/ Created \/ CreateFails
  PROVE  Inv'
<1>1. Checked'
  BY SeenStays DEF Inv, Claim, Created, CreateFails
<1>2. CASE Claim
  BY <1>1, <1>2 DEF Inv, TypeOK, Kept, Apart, Claim
<1>3. CASE Created
  BY <1>1, <1>3 DEF Inv, TypeOK, Kept, Apart, Created
<1>4. CASE CreateFails
  BY <1>1, <1>4 DEF Inv, TypeOK, Kept, Apart, CreateFails
<1> QED BY <1>2, <1>3, <1>4

LEMMA CommitKeeps ==
  ASSUME Inv, NEW kind \in {"begin", "row", "finish"}, Commit(kind)
  PROVE  Inv'
<1> USE DEF Inv, Commit
<1>1. log \in Seq({"begin", "row", "finish"}) /\ log' = Append(log, kind)
  BY DEF TypeOK
<1>2. log' \in Seq({"begin", "row", "finish"}) /\ Len(log') = Len(log) + 1 /\ Len(log) \in Nat
  BY <1>1
<1>3. TypeOK'
  BY <1>2 DEF TypeOK
<1>4. Kept' /\ Apart'
  BY <1>2 DEF Kept, Apart
<1>5. Checked'
  <2> SUFFICES ASSUME NEW r \in Readers, reader'[r] = "folds"
               PROVE  checked'[r] <= Len(log') /\ FinishedAt(checked[r])'
    BY DEF Checked
  <2>1. checked[r] \in Nat /\ checked[r] <= Len(log) /\ FinishedAt(checked[r])
    BY DEF Checked, TypeOK
  <2>2. FinishedAt(checked[r])'
    <3> DEFINE n == checked[r]
    <3>1. n \in Nat /\ n <= Len(log) /\ FinishedAt(n) /\ n' = n
      BY <2>1
    <3> HIDE DEF n
    <3>2. \A i \in 1..n : log'[i] = log[i]
      BY <1>1, <3>1
    <3>3. PICK i \in 1..n : log[i] = "finish" /\ \A j \in (i + 1)..n : log[j] = "row"
      BY <3>1 DEF FinishedAt
    <3>4. \A j \in (i + 1)..n : j \in 1..n
      BY <3>1, <3>3
    <3>5. \E k \in 1..n : log'[k] = "finish" /\ \A j \in (k + 1)..n : log'[j] = "row"
      BY <3>2, <3>3, <3>4
    <3> QED BY <3>1, <3>5 DEF FinishedAt, n
  <2> QED BY <1>2, <2>1, <2>2
<1> QED BY <1>3, <1>4, <1>5

LEMMA WritersKeep ==
  ASSUME Inv, OpenForWrite \/ Checkpoint \/ CloseWriter \/ OpenExclusive \/ CloseExclusive
  PROVE  Inv'
<1>1. Checked'
  BY SeenStays DEF Inv, OpenForWrite, Checkpoint, CloseWriter, OpenExclusive,
     CloseExclusive, Appears, Fold, disk
<1>2. Len(log) \in Nat
  BY DEF Inv, TypeOK
<1>3. TypeOK' /\ Kept' /\ Apart'
  <2>1. CASE OpenForWrite
    BY <2>1 DEF Inv, TypeOK, Kept, Apart, OpenForWrite, Appears
  <2>2. CASE Checkpoint
    BY <1>2, <2>2 DEF Inv, TypeOK, Kept, Apart, Checkpoint
  <2>3. CASE CloseWriter
    <3>1. CASE Fold
      BY <2>3, <3>1, FoldEffect DEF Inv, TypeOK, Kept, Apart, CloseWriter
    <3>2. CASE UNCHANGED disk
      BY <2>3, <3>2 DEF Inv, TypeOK, Kept, Apart, CloseWriter, disk
    <3> QED BY <2>3, <3>1, <3>2 DEF CloseWriter
  <2>4. CASE OpenExclusive
    BY <2>4 DEF Inv, TypeOK, Kept, Apart, OpenExclusive, Appears, Quiet
  <2>5. CASE CloseExclusive
    BY <2>5, FoldEffect DEF Inv, TypeOK, Kept, Apart, CloseExclusive
  <2> QED BY <2>1, <2>2, <2>3, <2>4, <2>5
<1> QED BY <1>1, <1>3 DEF Inv

LEMMA ReadersKeep ==
  ASSUME Inv, NEW r \in Readers,
         \/ OpenReadOnly(r) \/ OpenImmutable(r) \/ CheckFinished(r)
         \/ Reopen(r) \/ CloseReadOnly(r)
  PROVE  Inv'
<1>1. Checked'
  BY SeenStays DEF Inv, TypeOK, OpenReadOnly, OpenImmutable, CheckFinished, Reopen,
     CloseReadOnly, Moves, Appears, disk
<1>2. TypeOK' /\ Kept' /\ Apart'
  <2>1. CASE OpenReadOnly(r)
    BY <2>1 DEF Inv, TypeOK, Kept, Apart, OpenReadOnly, Moves, Appears, disk
  <2>2. CASE OpenImmutable(r)
    BY <2>2 DEF Inv, TypeOK, Kept, Apart, OpenImmutable, Moves, disk
  <2>3. CASE CheckFinished(r) \/ Reopen(r)
    BY <2>3 DEF Inv, TypeOK, Kept, Apart, CheckFinished, Reopen, Moves, disk
  <2>4. CASE CloseReadOnly(r)
    BY <2>4 DEF Inv, TypeOK, Kept, Apart, CloseReadOnly, Moves, disk
  <2> QED BY <2>1, <2>2, <2>3, <2>4
<1> QED BY <1>1, <1>2 DEF Inv

LEMMA DropKeeps ==
  ASSUME Inv, NEW r \in Readers, Drop(r)
  PROVE  Inv'
<1>1. Len(log) \in Nat
  BY DEF Inv, TypeOK
<1>2. TypeOK' /\ Kept' /\ Apart'
  BY <1>1 DEF Inv, TypeOK, Kept, Apart, Drop, Moves, disk
<1>3. Checked'
  <2> SUFFICES ASSUME NEW q \in Readers, reader'[q] = "folds"
               PROVE  (checked[q] <= Len(log) /\ FinishedAt(checked[q]))'
    BY DEF Checked
  <2>1. CASE q = r
    BY <1>1, <2>1 DEF Inv, TypeOK, Drop, Moves, disk, IsFinished, FinishedAt
  <2>2. CASE q # r
    BY <2>2 DEF Inv, TypeOK, Drop, Moves, disk, Checked, FinishedAt
  <2> QED BY <2>1, <2>2
<1> QED BY <1>2, <1>3 DEF Inv

LEMMA CloseKeeps ==
  ASSUME Inv, NEW r \in Readers, CloseReadWrite(r)
  PROVE  Inv'
<1>1. Len(log) \in Nat /\ log' = log
  BY DEF Inv, TypeOK, CloseReadWrite, Fold, disk
<1>2. TypeOK' /\ Kept' /\ Apart'
  <2> DEFINE Last == /\ reader[r] = "folds" /\ writer = "none"
                     /\ \A q \in Readers \ {r} : reader[q] = "closed"
  <2>1. CASE Last /\ Fold
    <3>1. /\ file' = file /\ log' = log /\ media' = media
          /\ folded' = Len(log) /\ folded' \in 0..Len(log')
          /\ sidecar' = FALSE /\ shm' = FALSE
          /\ file # "archive" => folded' = 0
      BY <2>1, FoldEffect DEF Inv
    <3>2. /\ writer = "none" /\ writer' = writer /\ ~ mut /\ mut' = mut
          /\ checked' = [checked EXCEPT ![r] = 0]
      BY <2>1 DEF Inv, Apart, CloseReadWrite, Fold, disk
    <3>3. /\ reader' \in [Readers -> {"closed", "checking", "reopening", "ro", "rw",
                                     "immutable", "folds", "keeps"}]
          /\ \A q \in Readers : reader'[q] = "immutable" => reader[q] = "immutable"
      BY DEF Inv, TypeOK, CloseReadWrite, Moves
    <3>4. TypeOK'
      BY <3>1, <3>2, <3>3 DEF Inv, TypeOK
    <3>5. Kept' /\ Apart'
      BY <3>1, <3>2, <3>3 DEF Inv, Kept, Apart
    <3> QED BY <3>4, <3>5
  <2>2. CASE UNCHANGED disk
    BY <2>2 DEF Inv, TypeOK, Kept, Apart, CloseReadWrite, Moves, disk
  <2> QED BY <2>1, <2>2 DEF CloseReadWrite
<1>3. Checked'
  <2> SUFFICES ASSUME NEW q \in Readers, reader'[q] = "folds"
               PROVE  (checked[q] <= Len(log) /\ FinishedAt(checked[q]))'
    BY DEF Checked
  <2>1. q # r /\ reader[q] = "folds" /\ checked'[q] = checked[q]
    BY DEF Inv, TypeOK, CloseReadWrite, Moves
  <2> QED BY <1>1, <2>1 DEF Inv, Checked, FinishedAt
<1> QED BY <1>2, <1>3 DEF Inv

LEMMA KillKeeps ==
  ASSUME Inv, Kill
  PROVE  Inv'
<1>1. CASE writer # "none" /\ writer' = "none" /\ UNCHANGED <<disk, mut, reader, checked>>
  BY <1>1 DEF Inv, TypeOK, Kept, Apart, Checked, FinishedAt, disk
<1>2. CASE mut /\ mut' = FALSE /\ UNCHANGED <<disk, writer, reader, checked>>
  BY <1>2 DEF Inv, TypeOK, Kept, Apart, Checked, FinishedAt, disk
<1>3. ASSUME NEW r \in Readers, Moves(r, "closed"),
             checked' = [checked EXCEPT ![r] = 0], UNCHANGED <<disk, writer, mut>>
      PROVE  Inv'
  <2>1. TypeOK' /\ Kept' /\ Apart'
    BY <1>3 DEF Inv, TypeOK, Kept, Apart, Moves, disk
  <2>2. \A q \in Readers : reader'[q] = "folds" =>
          reader[q] = "folds" /\ checked'[q] = checked[q]
    BY <1>3 DEF Inv, TypeOK, Moves
  <2>3. Checked'
    BY <1>3, <2>2 DEF Inv, Checked, FinishedAt, disk
  <2> QED BY <2>1, <2>3 DEF Inv
<1> QED BY <1>1, <1>2, <1>3 DEF Kill

LEMMA MediaKeeps ==
  ASSUME Inv, ToReadOnlyMedia
  PROVE  Inv'
<1>1. Checked'
  BY SeenStays DEF Inv, ToReadOnlyMedia
<1>2. TypeOK' /\ Kept' /\ Apart'
  BY DEF Inv, TypeOK, Kept, Apart, ToReadOnlyMedia, Quiet
<1> QED BY <1>1, <1>2 DEF Inv

LEMMA NextInv == Inv /\ [Next]_vars => Inv'
<1> SUFFICES ASSUME Inv, [Next]_vars PROVE Inv'
  OBVIOUS
<1>1. CASE UNCHANGED vars
  BY <1>1 DEF Inv, TypeOK, Kept, Apart, Checked, FinishedAt, vars, disk
<1>2. CASE Next
  BY <1>2, CreationKeeps, CommitKeeps, WritersKeep, ReadersKeep, DropKeeps, CloseKeeps,
     KillKeeps, MediaKeeps DEF Next
<1> QED BY <1>1, <1>2

\* The invariant of every opening, commit, close and kill on one path.
THEOREM InvHolds == Spec => []Inv
BY InitInv, NextInv, PTL DEF Spec

-----------------------------------------------------------------------------
(***************************************************************************)
(* Every state of the path, the files on it and the connections to it is   *)
(* well typed, and the main file never holds more than was committed.      *)
(***************************************************************************)
THEOREM TypeCorrect == Spec => []TypeOK
BY InvHolds, PTL DEF Inv

(***************************************************************************)
(* Every read handle that opened sees every commit, immutable=1 included,  *)
(* whoever was killed, closed last or moved the files.  (Archive::open)    *)
(***************************************************************************)
THEOREM HandlesReadItAll == Spec => []NothingReadShort
<1>1. Inv => NothingReadShort
  BY DEF Inv, Kept, Apart, NothingReadShort, Visible
<1> QED BY <1>1, InvHolds, PTL

(***************************************************************************)
(* No step takes a commit away from what the path holds: neither a failed  *)
(* creation nor the removal of a sidecar.  (create_with_page_size)         *)
(***************************************************************************)
THEOREM CommitsAreKept == Spec => CommitsSurvive
<1>1. Inv /\ Inv' /\ [Next]_vars =>
        [file = "archive" => file' = "archive" /\ Visible(FALSE)' >= Visible(FALSE)]_vars
  <2> SUFFICES ASSUME Inv, Inv', Next, file = "archive"
               PROVE  file' = "archive" /\ Visible(FALSE)' >= Visible(FALSE)
    OBVIOUS
  <2>1. /\ Visible(FALSE) = Len(log) /\ Len(log) \in Nat
        /\ Visible(FALSE)' = Len(log') /\ Len(log') \in Nat
    BY DEF Inv, TypeOK, Kept, Visible
  <2>2. /\ file' = "archive"
        /\ \/ log' = log
           \/ \E kind \in {"begin", "row", "finish"} : log' = Append(log, kind)
    BY DEF Inv, Apart, Next, Claim, Created, CreateFails, OpenForWrite, Commit, Checkpoint,
       CloseWriter, OpenExclusive, CloseExclusive, OpenReadOnly, OpenImmutable,
       CheckFinished, Reopen, CloseReadOnly, Drop, CloseReadWrite, Kill, ToReadOnlyMedia,
       Fold, Appears, disk
  <2>3. Len(log') >= Len(log)
    <3>1. log \in Seq({"begin", "row", "finish"})
      BY DEF Inv, TypeOK
    <3>2. \A kind \in {"begin", "row", "finish"} : Len(Append(log, kind)) = Len(log) + 1
      BY <3>1
    <3>3. CASE log' = log
      BY <2>1, <3>3
    <3>4. ASSUME NEW kind \in {"begin", "row", "finish"}, log' = Append(log, kind)
          PROVE  Len(log') >= Len(log)
      BY <2>1, <3>2, <3>4
    <3> QED BY <2>2, <3>3, <3>4
  <2> QED BY <2>1, <2>2, <2>3
<1> QED BY <1>1, InvHolds, PTL DEF Spec, CommitsSurvive

(***************************************************************************)
(* A reader's close folds the sidecar only of an archive that was finished *)
(* when it looked: a killed session's stays to be recovered.  (Drop)       *)
(***************************************************************************)
THEOREM KilledSessionsAreLeft == Spec => LeftForRecovery
<1> DEFINE Leaves ==
      \A r \in Readers :
        reader[r] # "closed" /\ reader'[r] = "closed" /\ folded' # folded =>
          FinishedAt(checked[r])
<1>1. Inv /\ [Next]_vars => [Leaves]_vars
  <2> SUFFICES ASSUME Inv, Next, NEW r \in Readers, reader[r] # "closed",
                      reader'[r] = "closed", folded' # folded
               PROVE  FinishedAt(checked[r])
    OBVIOUS
  <2>1. PICK q \in Readers : CloseReadWrite(q)
    BY DEF Next, Claim, Created, CreateFails, OpenForWrite, Commit, Checkpoint,
       CloseWriter, OpenExclusive, CloseExclusive, OpenReadOnly, OpenImmutable,
       CheckFinished, Reopen, CloseReadOnly, Drop, Kill, ToReadOnlyMedia,
       Fold, Appears, disk
  <2>2. q = r
    BY <2>1 DEF Inv, TypeOK, CloseReadWrite, Moves
  <2>3. reader[r] = "folds"
    BY <2>1, <2>2 DEF CloseReadWrite, disk
  <2> QED BY <2>3 DEF Inv, Checked
<1> QED BY <1>1, InvHolds, PTL DEF Spec, LeftForRecovery
=============================================================================
