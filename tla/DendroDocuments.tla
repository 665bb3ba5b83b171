--------------------------- MODULE DendroDocuments ---------------------------
(***************************************************************************)
(* The documents table of several archives, and copies between them in any *)
(* direction.  A document is a chain of revisions that are appended and    *)
(* never changed; a copy brings over the revisions the other file lacks,   *)
(* renumbers their provenance and says which documents it forked.          *)
(*                                                                         *)
(* A revision is identified across files by its uuid: the place in the     *)
(* order all revisions were minted in, which the code never looks at.  In  *)
(* a file it is known by its id, its place in the table.  A body is looked *)
(* at for one thing, whether it is there.                                  *)
(***************************************************************************)
EXTENDS Integers, Sequences, FiniteSets

CONSTANTS Files, Names,
          NoFile,         \* of a transaction that copies nothing
          MaxRevisions,   \* bound: revisions ever minted
          MaxCopying      \* bound: copies under way at once

ASSUME DocumentsAssumption ==
  /\ NoFile \notin Files
  /\ MaxRevisions \in Nat /\ MaxCopying \in Nat

VARIABLES
  rows,     \* per file: the table, by id
  tx,       \* per file: a copy into it that is under way
  written,  \* every revision ever minted, as it was where it was minted
  told      \* <<f, u>>: a copy into f reported u displaced (Fork.displaced)

vars == <<rows, tx, written, told>>

Revision == [uuid : Nat, name : Names, deleted : BOOLEAN, supersedes : Nat]

\* A revision and the uuid of the one it superseded, 0 for none.
Minted == [name : Names, deleted : BOOLEAN, onto : Nat]

\* A copy reads its source in one statement, up to the row that was last when
\* it began; ids is the destination's id of each row read so far.
Copying == [from : Files \cup {NoFile}, upto : Nat, ids : Seq(Nat), rows : Seq(Revision),
            before : [Names -> Nat], touched : SUBSET Names]

TypeOK ==
  /\ rows \in [Files -> Seq(Revision)]
  /\ tx \in [Files -> Copying]
  /\ written \in Seq(Minted)
  /\ told \subseteq Files \X Nat

Draft(from, upto, d) == [from |-> from, upto |-> upto, ids |-> <<>>, rows |-> d,
                         before |-> [n \in Names |-> 0], touched |-> {}]

Idle == Draft(NoFile, 0, <<>>)

Init ==
  /\ rows = [f \in Files |-> <<>>]
  /\ tx = [f \in Files |-> Idle]
  /\ written = <<>>
  /\ told = {}

-----------------------------------------------------------------------------
(***************************************************************************)
(* Queries.                                                                *)
(***************************************************************************)
Of(d, n) == {i \in 1..Len(d) : d[i].name = n}

\* head: the newest revision of n by id, deletion or not; 0 for none.
IsHead(d, n, i) ==
  \/ i = 0 /\ Of(d, n) = {}
  \/ i \in Of(d, n) /\ \A j \in Of(d, n) : j <= i

UuidAt(d, i) == IF i = 0 THEN 0 ELSE d[i].uuid

\* The revision a caller is shown: none, when the newest is a deletion.
Current(d, i) == IF i = 0 \/ d[i].deleted THEN 0 ELSE d[i].uuid

Holds(d, u, i) == i \in 1..Len(d) /\ d[i].uuid = u

-----------------------------------------------------------------------------
(***************************************************************************)
(* Writes.  A copy holds the write lock of its destination.                *)
(***************************************************************************)
Insert(f, n, deleted, head) ==
  /\ tx[f].from = NoFile
  /\ Len(written) < MaxRevisions
  /\ written' = Append(written, [name |-> n, deleted |-> deleted,
                                 onto |-> UuidAt(rows[f], head)])
  /\ rows' = [rows EXCEPT ![f] =
                Append(@, [uuid |-> Len(written) + 1, name |-> n, deleted |-> deleted,
                           supersedes |-> head])]
  /\ UNCHANGED <<tx, told>>

PutDocument(f, n) ==
  \E i \in 0..Len(rows[f]) : IsHead(rows[f], n, i) /\ Insert(f, n, FALSE, i)

\* expected is a uuid the caller has read somewhere, or 0: no current document.
PutDocumentIfCurrent(f, n, expected) ==
  \E i \in 0..Len(rows[f]) :
    /\ IsHead(rows[f], n, i)
    /\ Current(rows[f], i) = expected
    /\ Insert(f, n, FALSE, i)

DeleteDocument(f, n) ==
  \E i \in 0..Len(rows[f]) :
    /\ IsHead(rows[f], n, i)
    /\ Current(rows[f], i) # 0
    /\ Insert(f, n, TRUE, i)

-----------------------------------------------------------------------------
(***************************************************************************)
(* A copy, row by row in one transaction of the destination.               *)
(***************************************************************************)
\* A copy of which nothing is new writes nothing and reports nothing, and is
\* left out.
Brings(src, dst) ==
  \E i \in 1..Len(rows[src]) : \A j \in 1..Len(rows[dst]) :
    ~ Holds(rows[dst], rows[src][i].uuid, j)

BeginCopy(src, dst) ==
  /\ src # dst
  /\ tx[dst].from = NoFile
  /\ Cardinality({f \in Files : tx[f].from # NoFile}) < MaxCopying
  /\ Brings(src, dst)
  /\ tx' = [tx EXCEPT ![dst] = Draft(src, Len(rows[src]), rows[dst])]
  /\ UNCHANGED <<rows, written, told>>

\* The row read next.
NextRow(dst) == rows[tx[dst].from][Len(tx[dst].ids) + 1]

Reading(dst) == tx[dst].from # NoFile /\ Len(tx[dst].ids) < tx[dst].upto

\* A slip: a held row does not enter the renumbering.
HeldIdNone(i) == 0

\* The destination's id of a row it holds already.
HeldId(i) == i

CopyHeld(dst) ==
  /\ Reading(dst)
  /\ \E i \in 1..Len(tx[dst].rows) :
       /\ Holds(tx[dst].rows, NextRow(dst).uuid, i)
       /\ tx' = [tx EXCEPT ![dst].ids = Append(@, HeldId(i))]
  /\ UNCHANGED <<rows, written, told>>

\* A slip: the baseline moves with the copy's own inserts.
BaselineAgain(t, n, head) == head

\* The newest revision before this copy touched the document.
Baseline(t, n, head) == IF n \in t.touched THEN t.before[n] ELSE head

CopyRow(dst) ==
  /\ Reading(dst)
  /\ LET t == tx[dst]
         r == NextRow(dst)
     IN  /\ \A i \in 1..Len(t.rows) : ~ Holds(t.rows, r.uuid, i)
         /\ \E head \in 0..Len(t.rows) :
              /\ IsHead(t.rows, r.name, head)
              /\ tx' = [tx EXCEPT ![dst] =
                   [t EXCEPT
                      !.rows = Append(@, [r EXCEPT !.supersedes = IF @ = 0 THEN 0 ELSE t.ids[@]]),
                      !.ids = Append(@, Len(t.rows) + 1),
                      !.before = [@ EXCEPT ![r.name] = Baseline(t, r.name, head)],
                      !.touched = @ \cup {r.name}]]
  /\ UNCHANGED <<rows, written, told>>

(***************************************************************************)
(* ancestry: the revisions on the way back from id i.                      *)
(***************************************************************************)
Chain(d, i) ==
  LET back[k \in 0..i] == IF k = 0 THEN {} ELSE {k} \cup back[d[k].supersedes]
  IN  back[i]

\* A slip: only a chain that shares a revision can fork a document.
ForksIfShared(d, last, before, firstNew) ==
  /\ before \notin Chain(d, last)
  /\ \E c \in Chain(d, last) : c < firstNew

Forks(d, last, before, firstNew) ==
  /\ before \notin Chain(d, last)
  /\ ~ d[before].deleted \/ \E c \in Chain(d, last) : c < firstNew

CommitCopy(dst) ==
  LET t == tx[dst]
  IN  /\ t.from # NoFile
      /\ Len(t.ids) = t.upto
      /\ rows' = [rows EXCEPT ![dst] = t.rows]
      /\ told' = told \cup
           {<<dst, t.rows[t.before[n]].uuid>> : n \in
              {m \in t.touched :
                 /\ t.before[m] # 0
                 /\ \E last \in 1..Len(t.rows) :
                      /\ IsHead(t.rows, m, last)
                      /\ Forks(t.rows, last, t.before[m], Len(rows[dst]) + 1)}}
      /\ tx' = [tx EXCEPT ![dst] = Idle]
      /\ UNCHANGED written

\* The caller's transaction fails, or its process is killed.
AbandonCopy(dst) ==
  /\ tx[dst].from # NoFile
  /\ tx' = [tx EXCEPT ![dst] = Idle]
  /\ UNCHANGED <<rows, written, told>>

-----------------------------------------------------------------------------
Next ==
  \/ \E f \in Files, n \in Names :
       \/ PutDocument(f, n)
       \/ \E u \in 0..Len(written) : PutDocumentIfCurrent(f, n, u)
       \/ DeleteDocument(f, n)
  \/ \E src, dst \in Files : BeginCopy(src, dst)
  \/ \E dst \in Files : CopyHeld(dst) \/ CopyRow(dst) \/ CommitCopy(dst) \/ AbandonCopy(dst)

Spec == Init /\ [][Next]_vars

-----------------------------------------------------------------------------
(***************************************************************************)
(* Properties.                                                             *)
(***************************************************************************)

\* A revision a file holds is the one that was minted, and supersedes, by the
\* file's own ids, the revision that one superseded where it was minted.
IsTrueRow(d, i, w) ==
  /\ d[i].uuid \in 1..Len(w)
  /\ d[i].name = w[d[i].uuid].name /\ d[i].deleted = w[d[i].uuid].deleted
  /\ w[d[i].uuid].onto = 0 => d[i].supersedes = 0
  /\ w[d[i].uuid].onto # 0 => /\ d[i].supersedes \in 1..(i - 1)
                               /\ d[d[i].supersedes].uuid = w[d[i].uuid].onto

IsTrueTable(d, w) ==
  /\ \A i \in 1..Len(d) : IsTrueRow(d, i, w)
  /\ \A i, j \in 1..Len(d) : d[i].uuid = d[j].uuid => i = j

(***************************************************************************)
(* Provenance survives any number of copies in any direction: no file      *)
(* holds a revision twice, and each one's history is true and is in the    *)
(* file with it.  (copy_documents, renumbering supersedes)                 *)
(***************************************************************************)
HistoryIsTrue == \A f \in Files : IsTrueTable(rows[f], written)

\* A revision and all it descends from, by what was minted.
Ancestors(u) ==
  LET back[v \in 0..u] == IF v = 0 THEN {} ELSE {v} \cup back[written[v].onto]
  IN  back[u]

Heads(d, n) == {UuidAt(d, i) : i \in {j \in 0..Len(d) : IsHead(d, n, j)}}

Uuids(f) == {rows[f][i].uuid : i \in 1..Len(rows[f])}

(***************************************************************************)
(* A fork is reported exactly when a file's newest revision of a document  *)
(* is replaced by one that does not descend from it, except for a deletion *)
(* replaced by a document with no revision in common.  (CopiedDocuments)   *)
(***************************************************************************)
ForksAreTrue ==
  [][\A f \in {g \in Files : rows'[g] # rows[g]}, n \in Names :
       \A b \in Heads(rows[f], n) \ {0}, c \in Heads(rows'[f], n) :
         c # b =>
           ((<<f, b>> \in told') <=>
              (/\ b \notin Ancestors(c)'
               /\ ~ written[b].deleted \/ Ancestors(c)' \cap Uuids(f) # {}))]_vars

(***************************************************************************)
(* No body a file holds has gone unseen: it is part of the history of the  *)
(* current revision, or was deleted there, or somebody was told that it,   *)
(* or a revision made of it, was displaced.  (CopiedDocuments.forked)      *)
(***************************************************************************)
NothingLostSilently ==
  \A f \in Files, n \in Names : \A u \in Uuids(f) :
    ~ written[u].deleted /\ written[u].name = n =>
      \/ \E h \in Heads(rows[f], n) : u \in Ancestors(h)
      \/ \E d \in Uuids(f) : written[d].deleted /\ u \in Ancestors(d)
      \/ \E t \in told : u \in Ancestors(t[2])

=============================================================================
