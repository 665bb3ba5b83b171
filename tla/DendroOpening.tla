--------------------------- MODULE DendroOpening ---------------------------
(***************************************************************************)
(* One path on disk, and the connections that come and go on it: the       *)
(* writer's (create, or open_for_write on an archive it resumes), the      *)
(* exclusive one of ArchiveMut::open, and readers' (Archive::open).        *)
(*                                                                         *)
(* What an archive holds is the log of its commits.  The first folded of   *)
(* them are in the main file, the rest only in the -wal sidecar.  SQLite   *)
(* checkpoints and removes the sidecar when the last connection closes, if *)
(* that one may write and is not told otherwise; a process that is killed  *)
(* closes nothing.  A commit is                                            *)
(*                                                                         *)
(*   "begin"   a source is added or resumed: the archive is unfinished     *)
(*   "row"     rows of a source                                            *)
(*   "finish"  the last unfinished source is finalized                     *)
(***************************************************************************)
EXTENDS Naturals, Sequences

CONSTANTS Readers,    \* read handles
          MaxCommits  \* bound: commits in a behaviour

VARIABLES
  file,     \* what is at the path: "absent", "claimed" (empty) or "archive"
  log,      \* the commits
  folded,   \* how many of them the main file holds
  sidecar,  \* a -wal file is there
  shm,      \* a -shm file is there
  media,    \* "rw", or "ro" once the files are on read-only media
  writer,   \* the writer's connection: "none", "creating" or "open"
  mut,      \* an ArchiveMut::open handle is held
  reader,   \* where each read handle is
  checked   \* how many commits a closing read handle's check saw, to compare

disk == <<file, log, folded, sidecar, shm, media>>
vars == <<disk, writer, mut, reader, checked>>

TypeOK ==
  /\ file \in {"absent", "claimed", "archive"}
  /\ log \in Seq({"begin", "row", "finish"})
  /\ folded \in 0..Len(log)
  /\ sidecar \in BOOLEAN /\ shm \in BOOLEAN
  /\ media \in {"rw", "ro"}
  /\ writer \in {"none", "creating", "open"}
  /\ mut \in BOOLEAN
  /\ reader \in [Readers -> {"closed", "checking", "reopening", "ro", "rw",
                             "immutable", "folds", "keeps"}]
  /\ checked \in [Readers -> Nat]

Init ==
  /\ file = "absent" /\ log = <<>> /\ folded = 0
  /\ sidecar = FALSE /\ shm = FALSE /\ media = "rw"
  /\ writer = "none" /\ mut = FALSE
  /\ reader = [r \in Readers |-> "closed"]
  /\ checked = [r \in Readers |-> 0]

\* is_finished, of the first n commits: some source, and none unfinished.
FinishedAt(n) ==
  \E i \in 1..n : log[i] = "finish" /\ \A j \in (i + 1)..n : log[j] = "row"

IsFinished == FinishedAt(Len(log))

Quiet == writer = "none" /\ ~ mut /\ \A r \in Readers : reader[r] = "closed"

\* The last connection's close folds the sidecar in and removes it.
Fold ==
  /\ folded' = Len(log)
  /\ sidecar' = FALSE /\ shm' = FALSE
  /\ UNCHANGED <<file, log, media>>

Appears ==
  /\ sidecar' = TRUE /\ shm' = TRUE
  /\ UNCHANGED <<file, log, folded, media>>

-----------------------------------------------------------------------------
(***************************************************************************)
(* create: the path is claimed with create_new, then initialised; a        *)
(* failure removes what was claimed.                                       *)
(***************************************************************************)
Claim ==
  /\ file = "absent" /\ writer = "none"
  /\ file' = "claimed"
  /\ writer' = "creating"
  /\ UNCHANGED <<log, folded, sidecar, shm, media, mut, reader, checked>>

Created ==
  /\ writer = "creating"
  /\ file' = "archive" /\ sidecar' = TRUE /\ shm' = TRUE
  /\ writer' = "open"
  /\ UNCHANGED <<log, folded, media, mut, reader, checked>>

\* A slip: a path that could not be claimed is cleaned up all the same.
CreateFailsAnyhow ==
  /\ writer = "creating" \/ (Quiet /\ media = "rw" /\ file # "absent")
  /\ file' = "absent" /\ sidecar' = FALSE /\ shm' = FALSE
  /\ log' = <<>> /\ folded' = 0
  /\ writer' = "none"
  /\ UNCHANGED <<media, mut, reader, checked>>

CreateFails ==
  /\ writer = "creating"
  /\ file' = "absent" /\ sidecar' = FALSE /\ shm' = FALSE
  /\ writer' = "none"
  /\ UNCHANGED <<log, folded, media, mut, reader, checked>>

\* InUse while an exclusive handle is held; readers do not matter.
OpenForWrite ==
  /\ file = "archive" /\ media = "rw"
  /\ writer = "none" /\ ~ mut
  /\ writer' = "open"
  /\ Appears
  /\ UNCHANGED <<mut, reader, checked>>

Commit(kind) ==
  /\ writer = "open"
  /\ Len(log) < MaxCommits
  /\ kind \in {"row", "finish"} => log # <<>> /\ ~ IsFinished
  /\ log' = Append(log, kind)
  /\ UNCHANGED <<file, folded, sidecar, shm, media, writer, mut, reader, checked>>

\* wal_autocheckpoint and checkpoint_passive: as far as no snapshot is held.
Checkpoint ==
  /\ writer = "open"
  /\ \E n \in folded..Len(log) : folded' = n
  /\ UNCHANGED <<file, log, sidecar, shm, media, writer, mut, reader, checked>>

CloseWriter ==
  /\ writer = "open"
  /\ writer' = "none"
  /\ IF \A r \in Readers : reader[r] = "closed" THEN Fold ELSE UNCHANGED disk
  /\ UNCHANGED <<mut, reader, checked>>

-----------------------------------------------------------------------------
(***************************************************************************)
(* ArchiveMut::open: exclusive, so refused while anything holds the file.  *)
(* Dropping it is the recovery of a killed archive.                        *)
(***************************************************************************)
OpenExclusive ==
  /\ file = "archive" /\ media = "rw" /\ Quiet
  /\ mut' = TRUE
  /\ Appears
  /\ UNCHANGED <<writer, reader, checked>>

CloseExclusive ==
  /\ mut
  /\ mut' = FALSE
  /\ Fold
  /\ UNCHANGED <<writer, reader, checked>>

-----------------------------------------------------------------------------
(***************************************************************************)
(* Archive::open and its Drop.                                             *)
(***************************************************************************)
Moves(r, to) == reader' = [reader EXCEPT ![r] = to]

\* open_at, read-only: SQLite needs the sidecars, or makes them.
OpenReadOnly(r) ==
  /\ reader[r] = "closed"
  /\ file = "archive" /\ ~ mut
  /\ media = "rw" \/ (sidecar /\ shm)
  /\ Moves(r, "checking")
  /\ IF media = "rw" THEN Appears ELSE UNCHANGED disk
  /\ UNCHANGED <<writer, mut, checked>>

\* A slip: immutable=1 whenever the media refuses the -shm file.
OpenImmutableAnyhow(r) ==
  /\ reader[r] = "closed"
  /\ file = "archive" /\ media = "ro"
  /\ ~ (sidecar /\ shm)
  /\ Moves(r, "immutable")
  /\ UNCHANGED <<disk, writer, mut, checked>>

\* Read-only media with no -wal beside the archive; with one it is refused.
OpenImmutable(r) ==
  /\ reader[r] = "closed"
  /\ file = "archive" /\ media = "ro"
  /\ ~ sidecar
  /\ Moves(r, "immutable")
  /\ UNCHANGED <<disk, writer, mut, checked>>

CheckFinished(r) ==
  /\ reader[r] = "checking"
  /\ Moves(r, IF IsFinished THEN "reopening" ELSE "ro")
  /\ UNCHANGED <<disk, writer, mut, checked>>

\* open_finished_read_write asks again; it may also fail, and ro is kept.
Reopen(r) ==
  /\ reader[r] = "reopening"
  /\ \/ media = "rw" /\ IsFinished /\ Moves(r, "rw")
     \/ Moves(r, "ro")
  /\ UNCHANGED <<disk, writer, mut, checked>>

CloseReadOnly(r) ==
  /\ reader[r] \in {"ro", "immutable"}
  /\ Moves(r, "closed")
  /\ UNCHANGED <<disk, writer, mut, checked>>

\* A slip: what the open found is taken for what the close would find.
DropTrusting(r) ==
  /\ reader[r] = "rw"
  /\ Moves(r, "folds")
  /\ checked' = [checked EXCEPT ![r] = Len(log)]
  /\ UNCHANGED <<disk, writer, mut>>

\* Drop: the close may checkpoint only if the archive is still finished.
Drop(r) ==
  /\ reader[r] = "rw"
  /\ Moves(r, IF IsFinished THEN "folds" ELSE "keeps")
  /\ checked' = [checked EXCEPT ![r] = Len(log)]
  /\ UNCHANGED <<disk, writer, mut>>

\* The close of a read-write connection; the last one folds.
CloseReadWrite(r) ==
  /\ reader[r] \in {"folds", "keeps"}
  /\ Moves(r, "closed")
  /\ IF /\ reader[r] = "folds" /\ writer = "none"
        /\ \A q \in Readers \ {r} : reader[q] = "closed"
       THEN Fold ELSE UNCHANGED disk
  /\ checked' = [checked EXCEPT ![r] = 0]
  /\ UNCHANGED <<writer, mut>>

-----------------------------------------------------------------------------
\* A process is killed: its connections are gone and nothing is closed.
Kill ==
  \/ writer # "none" /\ writer' = "none" /\ UNCHANGED <<disk, mut, reader, checked>>
  \/ mut /\ mut' = FALSE /\ UNCHANGED <<disk, writer, reader, checked>>
  \/ \E r \in Readers :
       /\ reader[r] # "closed"
       /\ Moves(r, "closed")
       /\ checked' = [checked EXCEPT ![r] = 0]
       /\ UNCHANGED <<disk, writer, mut>>

\* The files are copied as they are to media nobody can write; -shm may go.
ToReadOnlyMedia ==
  /\ file = "archive" /\ media = "rw" /\ Quiet
  /\ media' = "ro"
  /\ shm' \in {FALSE, shm}
  /\ UNCHANGED <<file, log, folded, sidecar, writer, mut, reader, checked>>

Next ==
  \/ Claim \/ Created \/ CreateFails \/ OpenForWrite
  \/ \E kind \in {"begin", "row", "finish"} : Commit(kind)
  \/ Checkpoint \/ CloseWriter
  \/ OpenExclusive \/ CloseExclusive
  \/ \E r \in Readers :
       \/ OpenReadOnly(r) \/ OpenImmutable(r) \/ CheckFinished(r) \/ Reopen(r)
       \/ CloseReadOnly(r) \/ Drop(r) \/ CloseReadWrite(r)
  \/ Kill
  \/ ToReadOnlyMedia

Spec == Init /\ [][Next]_vars

-----------------------------------------------------------------------------
(***************************************************************************)
(* Correctness.                                                            *)
(***************************************************************************)

\* What a connection on the files can see; immutable=1 ignores the sidecar.
Visible(immutable) == IF sidecar /\ ~ immutable THEN Len(log) ELSE folded

(***************************************************************************)
(* Every handle that opened reads every commit there is: no archive is     *)
(* "read short with nothing saying so", whoever was killed, closed last or *)
(* moved the files before.  (Archive::open)                                *)
(***************************************************************************)
NothingReadShort ==
  \A r \in Readers :
    reader[r] # "closed" => Visible(reader[r] = "immutable") = Len(log)

(***************************************************************************)
(* A reader leaves an unfinished archive's files as they are, so that a    *)
(* killed session stays to be recovered: its close folds only what was     *)
(* finished when it last looked, or was committed after that (the window   *)
(* the doc grants), even when a writer resumed the archive and was killed  *)
(* while the handle was open.  (Drop for Archive)                          *)
(***************************************************************************)
LeftForRecovery ==
  [][\A r \in Readers :
       reader[r] # "closed" /\ reader'[r] = "closed" /\ folded' # folded =>
         FinishedAt(checked[r])]_vars

(***************************************************************************)
(* What has been committed to the path stays readable there: a creation    *)
(* that fails, or is refused, or the removal of a sidecar takes nothing    *)
(* away.  (create_with_page_size, remove_archive)                          *)
(***************************************************************************)
CommitsSurvive ==
  [][file = "archive" => file' = "archive" /\ Visible(FALSE)' >= Visible(FALSE)]_vars
=============================================================================
