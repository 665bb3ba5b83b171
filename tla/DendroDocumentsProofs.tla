------------------------ MODULE DendroDocumentsProofs ------------------------
(***************************************************************************)
(* Theorems about DendroDocuments: for any number of files, documents,     *)
(* revisions and copies under way at once, what a file holds of a          *)
(* document's history is true, forks are reported when there is one, and   *)
(* no version disappears without a report.  The recursive walks of the     *)
(* model are read as Reach, the least set that is closed under supersedes. *)
(***************************************************************************)
EXTENDS DendroDocuments, WellFoundedInduction, TLAPS

Extended(d, e) == Len(d) <= Len(e) /\ \A i \in 1..Len(d) : e[i] = d[i]

\* A copy's draft t.rows goes on from d, what its destination holds, and is true
\* itself; ids finds in it every row the copy has read of its source e.
IsSound(t, d, e, w) ==
  /\ IsTrueTable(t.rows, w)
  /\ Extended(d, t.rows)
  /\ t.upto <= Len(e)
  /\ Len(t.ids) <= t.upto
  /\ \A k \in 1..Len(t.ids) : Holds(t.rows, e[k].uuid, t.ids[k])
  /\ \A n \in Names : t.before[n] <= Len(t.rows)

CopiesAreSound ==
  \A f \in Files : tx[f].from # NoFile => IsSound(tx[f], rows[f], rows[tx[f].from], written)

Inv == TypeOK /\ HistoryIsTrue /\ CopiesAreSound

-----------------------------------------------------------------------------
(***************************************************************************)
(* Tables.                                                                 *)
(***************************************************************************)

\* Minting a revision changes the history of none before it.
LEMMA GrownHistory ==
  ASSUME NEW d \in Seq(Revision), NEW w \in Seq(Minted), NEW m \in Minted,
         IsTrueTable(d, w)
  PROVE  IsTrueTable(d, Append(w, m))
<1>1. \A i \in 1..Len(d) : IsTrueRow(d, i, Append(w, m))
  <2> SUFFICES ASSUME NEW i \in 1..Len(d) PROVE IsTrueRow(d, i, Append(w, m))
    OBVIOUS
  <2>1. IsTrueRow(d, i, w)
    BY DEF IsTrueTable
  <2>2. d[i].uuid \in 1..Len(w)
    BY <2>1 DEF IsTrueRow
  <2>3. d[i].uuid \in 1..Len(Append(w, m)) /\ Append(w, m)[d[i].uuid] = w[d[i].uuid]
    BY <2>2
  <2> QED BY <2>1, <2>3 DEF IsTrueRow
<1> QED BY <1>1 DEF IsTrueTable

\* A table that gains a true row it does not hold yet stays true.
LEMMA GrownTable ==
  ASSUME NEW d \in Seq(Revision), NEW w \in Seq(Minted), NEW r \in Revision,
         IsTrueTable(d, w),
         \A i \in 1..Len(d) : d[i].uuid # r.uuid,
         IsTrueRow(Append(d, r), Len(d) + 1, w)
  PROVE  IsTrueTable(Append(d, r), w)
<1> DEFINE c == Append(d, r)
<1>1. /\ Len(c) = Len(d) + 1 /\ c[Len(d) + 1] = r
      /\ \A j \in 1..Len(d) : c[j] = d[j]
  OBVIOUS
<1>2. IsTrueRow(c, Len(d) + 1, w)
  OBVIOUS
<1>3. Len(d) \in Nat
  OBVIOUS
<1> HIDE DEF c
<1>4. \A j \in 1..Len(c) : IsTrueRow(c, j, w)
  <2> SUFFICES ASSUME NEW j \in 1..Len(c) PROVE IsTrueRow(c, j, w)
    OBVIOUS
  <2>1. CASE j \in 1..Len(d)
    <3>1. IsTrueRow(d, j, w)
      BY <2>1 DEF IsTrueTable
    <3>2. c[j] = d[j] /\ \A i \in 1..(j - 1) : c[i] = d[i]
      BY <1>1, <1>3, <2>1
    <3> QED BY <3>1, <3>2 DEF IsTrueRow
  <2>2. CASE j = Len(d) + 1
    BY <1>2, <2>2
  <2> QED BY <1>1, <1>3, <2>1, <2>2
<1>5. \A i, j \in 1..Len(c) : c[i].uuid = c[j].uuid => i = j
  <2>1. \A i, j \in 1..Len(d) : d[i].uuid = d[j].uuid => i = j
    BY DEF IsTrueTable
  <2>2. \A i \in 1..Len(d) : c[i] = d[i] /\ c[i].uuid # c[Len(c)].uuid
    BY <1>1, <1>3
  <2>3. Len(c) = Len(d) + 1
    BY <1>1
  <2> QED BY <1>3, <2>1, <2>2, <2>3
<1>6. IsTrueTable(c, w)
  BY <1>4, <1>5 DEF IsTrueTable
<1> QED BY <1>6 DEF c

\* A revision written where its history is known.
LEMMA WrittenRow ==
  ASSUME NEW d \in Seq(Revision), NEW w \in Seq(Minted), NEW n \in Names,
         NEW deleted \in BOOLEAN, NEW i \in 0..Len(d),
         IsTrueTable(d, w)
  PROVE  LET m == [name |-> n, deleted |-> deleted, onto |-> UuidAt(d, i)]
             r == [uuid |-> Len(w) + 1, name |-> n, deleted |-> deleted, supersedes |-> i]
         IN  /\ m \in Minted /\ r \in Revision
             /\ IsTrueTable(Append(d, r), Append(w, m))
<1> DEFINE m == [name |-> n, deleted |-> deleted, onto |-> UuidAt(d, i)]
           r == [uuid |-> Len(w) + 1, name |-> n, deleted |-> deleted, supersedes |-> i]
           e == Append(d, r)
           v == Append(w, m)
<1>1. \A j \in 1..Len(d) : d[j] \in Revision /\ d[j].uuid \in 1..Len(w)
  BY DEF IsTrueTable, IsTrueRow
<1>2. UuidAt(d, i) \in Nat /\ (UuidAt(d, i) = 0 <=> i = 0)
  BY <1>1 DEF UuidAt
<1>3. m \in Minted /\ r \in Revision
  BY <1>2 DEF Minted, Revision
<1>4. IsTrueTable(d, v)
  BY <1>3, GrownHistory
<1>5. e[Len(d) + 1] = r /\ \A j \in 1..Len(d) : e[j] = d[j]
  BY <1>3
<1>6. Len(v) = Len(w) + 1 /\ v[Len(w) + 1] = m /\ v \in Seq(Minted)
  BY <1>3
<1>7. IsTrueRow(e, Len(d) + 1, v)
  <2> HIDE DEF m, r, e, v
  <2>1. r.uuid = Len(w) + 1 /\ v[r.uuid] = m
    BY <1>6 DEF r
  <2>2. /\ r.name = m.name /\ r.deleted = m.deleted
        /\ r.supersedes = i /\ m.onto = UuidAt(d, i)
    BY DEF r, m
  <2>3. i # 0 => i \in 1..(Len(d) + 1 - 1) /\ e[i].uuid = UuidAt(d, i)
    BY <1>5 DEF UuidAt
  <2>4. r.uuid \in 1..Len(v)
    BY <1>6, <2>1
  <2> QED BY <1>2, <1>5, <2>1, <2>2, <2>3, <2>4 DEF IsTrueRow
<1>8. \A j \in 1..Len(d) : d[j].uuid # r.uuid
  BY <1>1
<1> HIDE DEF m, r, v
<1>9. IsTrueTable(e, v)
  BY <1>3, <1>4, <1>6, <1>7, <1>8, GrownTable
<1> QED BY <1>3, <1>9 DEF m, r, v

\* A row brought over from another file, its provenance renumbered.
LEMMA CopiedRow ==
  ASSUME NEW d \in Seq(Revision), NEW e \in Seq(Revision), NEW w \in Seq(Minted),
         NEW ids \in Seq(Nat), NEW k \in 1..Len(e),
         IsTrueTable(d, w), IsTrueTable(e, w), Len(ids) = k - 1,
         \A j \in 1..Len(ids) : Holds(d, e[j].uuid, ids[j]),
         \A i \in 1..Len(d) : ~ Holds(d, e[k].uuid, i)
  PROVE  LET r == [e[k] EXCEPT !.supersedes = IF @ = 0 THEN 0 ELSE ids[@]]
         IN  r \in Revision /\ r.uuid = e[k].uuid /\ IsTrueTable(Append(d, r), w)
<1> DEFINE s == e[k].supersedes
           to == IF s = 0 THEN 0 ELSE ids[s]
           r == [e[k] EXCEPT !.supersedes = to]
           c == Append(d, r)
<1>1. IsTrueRow(e, k, w) /\ e[k] \in Revision
  BY DEF IsTrueTable
<1>2. /\ w[e[k].uuid].onto = 0 => s = 0
      /\ w[e[k].uuid].onto # 0 => s \in 1..Len(ids) /\ e[s].uuid = w[e[k].uuid].onto
  BY <1>1 DEF IsTrueRow
<1>3. s # 0 => s \in 1..Len(ids) /\ ids[s] \in 1..Len(d) /\ d[ids[s]].uuid = w[e[k].uuid].onto
  BY <1>2 DEF Holds
<1>4. to \in Nat
  BY <1>3
<1>5. r \in Revision /\ r.uuid = e[k].uuid /\ r.name = e[k].name
      /\ r.deleted = e[k].deleted /\ r.supersedes = to
  <2> HIDE DEF to, s
  <2>1. PICK x \in Revision : x = e[k]
    BY <1>1
  <2>2. r = [x EXCEPT !.supersedes = to]
    BY <2>1
  <2> HIDE DEF r
  <2>3. r \in Revision /\ r.uuid = x.uuid /\ r.name = x.name /\ r.deleted = x.deleted
        /\ r.supersedes = to
    BY <1>4, <2>2 DEF Revision
  <2> QED BY <2>1, <2>3
<1> HIDE DEF r
<1>6. c[Len(d) + 1] = r /\ \A j \in 1..Len(d) : c[j] = d[j]
  BY <1>5
<1>7. IsTrueRow(c, Len(d) + 1, w)
  <2> HIDE DEF c
  <2>1. s # 0 => to \in 1..(Len(d) + 1 - 1) /\ c[to].uuid = w[e[k].uuid].onto
    <3> SUFFICES ASSUME s # 0
                 PROVE  to \in 1..(Len(d) + 1 - 1) /\ c[to].uuid = w[e[k].uuid].onto
      OBVIOUS
    <3>1. to = ids[s]
      OBVIOUS
    <3>2. to \in 1..Len(d) /\ d[to].uuid = w[e[k].uuid].onto
      BY <1>3, <3>1
    <3> HIDE DEF to
    <3>3. c[to] = d[to]
      BY <1>6, <3>2
    <3>4. Len(d) + 1 - 1 = Len(d)
      <4>1. Len(d) \in Nat
        OBVIOUS
      <4> QED BY <4>1
    <3> QED BY <3>2, <3>3, <3>4
  <2>2. w[e[k].uuid].onto # 0 => s # 0
    BY <1>2
  <2>3. s = 0 => to = 0
    OBVIOUS
  <2>4. /\ r.uuid \in 1..Len(w)
        /\ r.name = w[r.uuid].name /\ r.deleted = w[r.uuid].deleted
    BY <1>1, <1>5 DEF IsTrueRow
  <2>5. w[r.uuid].onto = 0 => r.supersedes = 0
    BY <1>2, <1>5, <2>3
  <2>6. w[r.uuid].onto # 0 => /\ r.supersedes \in 1..(Len(d) + 1 - 1)
                              /\ c[r.supersedes].uuid = w[r.uuid].onto
    BY <1>5, <2>1, <2>2
  <2> QED BY <1>6, <2>4, <2>5, <2>6 DEF IsTrueRow
<1>8. \A i \in 1..Len(d) : d[i].uuid # r.uuid
  BY <1>5 DEF Holds
<1>9. IsTrueTable(c, w)
  BY <1>5, <1>7, <1>8, GrownTable
<1> QED BY <1>5, <1>9 DEF r

-----------------------------------------------------------------------------
(***************************************************************************)
(* Steps.                                                                  *)
(***************************************************************************)

\* What a copy has read of its source stays as it was while the source grows.
LEMMA GrownSource ==
  ASSUME NEW t \in Copying, NEW d \in Seq(Revision), NEW e \in Seq(Revision),
         NEW g \in Seq(Revision), NEW w \in Seq(Minted),
         IsSound(t, d, e, w), Extended(e, g)
  PROVE  IsSound(t, d, g, w)
<1>1. t.ids \in Seq(Nat) /\ t.upto \in Nat
  BY DEF Copying
<1>2. t.upto <= Len(g)
  BY <1>1 DEF IsSound, Extended
<1>3. \A k \in 1..Len(t.ids) : g[k] = e[k]
  BY <1>1 DEF IsSound, Extended
<1> QED BY <1>2, <1>3 DEF IsSound

\* Nor does it matter to a copy that a revision is minted.
LEMMA GrownCopy ==
  ASSUME NEW t \in Copying, NEW d \in Seq(Revision), NEW e \in Seq(Revision),
         NEW w \in Seq(Minted), NEW m \in Minted,
         IsSound(t, d, e, w)
  PROVE  IsSound(t, d, e, Append(w, m))
<1>1. t.rows \in Seq(Revision)
  BY DEF Copying
<1>2. IsTrueTable(t.rows, Append(w, m))
  BY <1>1, GrownHistory DEF IsSound
<1> QED BY <1>2 DEF IsSound

LEMMA InitSound == Init => Inv
<1> SUFFICES ASSUME Init PROVE Inv
  OBVIOUS
<1>1. <<>> \in Seq(Revision) /\ <<>> \in Seq(Minted) /\ <<>> \in Seq(Nat)
  OBVIOUS
<1>2. Idle \in Copying
  BY <1>1 DEF Idle, Draft, Copying
<1>3. TypeOK
  BY <1>1, <1>2 DEF Init, TypeOK
<1>4. HistoryIsTrue
  BY DEF Init, HistoryIsTrue, IsTrueTable
<1>5. CopiesAreSound
  BY DEF Init, CopiesAreSound, Idle, Draft
<1> QED BY <1>3, <1>4, <1>5 DEF Inv

\* put and delete: the new revision is true, and every other history stays so.
LEMMA InsertSound ==
  ASSUME Inv, NEW f \in Files, NEW n \in Names, NEW deleted \in BOOLEAN,
         NEW head \in 0..Len(rows[f]), Insert(f, n, deleted, head)
  PROVE  Inv'
<1> DEFINE m == [name |-> n, deleted |-> deleted, onto |-> UuidAt(rows[f], head)]
           r == [uuid |-> Len(written) + 1, name |-> n, deleted |-> deleted,
                 supersedes |-> head]
<1>1. TypeOK /\ HistoryIsTrue /\ CopiesAreSound
  BY DEF Inv
<1>2. written' = Append(written, m) /\ rows' = [rows EXCEPT ![f] = Append(@, r)]
      /\ tx' = tx /\ told' = told /\ tx[f].from = NoFile
  BY DEF Insert
<1>3. rows[f] \in Seq(Revision) /\ written \in Seq(Minted) /\ IsTrueTable(rows[f], written)
  BY <1>1 DEF TypeOK, HistoryIsTrue
<1>4. m \in Minted /\ r \in Revision /\ IsTrueTable(Append(rows[f], r), Append(written, m))
  BY <1>3, WrittenRow
<1> HIDE DEF m, r
<1>5. rows'[f] = Append(rows[f], r) /\ \A g \in Files : g # f => rows'[g] = rows[g]
  BY <1>1, <1>2 DEF TypeOK
<1>6. TypeOK'
  <2>1. rows' \in [Files -> Seq(Revision)]
    BY <1>1, <1>2, <1>3, <1>4 DEF TypeOK
  <2>2. written' \in Seq(Minted)
    BY <1>2, <1>3, <1>4
  <2> QED BY <1>1, <1>2, <2>1, <2>2 DEF TypeOK
<1>7. HistoryIsTrue'
  <2> SUFFICES ASSUME NEW g \in Files PROVE IsTrueTable(rows'[g], written')
    BY DEF HistoryIsTrue
  <2>1. CASE g = f
    BY <1>2, <1>4, <1>5, <2>1
  <2>2. CASE g # f
    <3>1. rows[g] \in Seq(Revision) /\ IsTrueTable(rows[g], written)
      BY <1>1 DEF TypeOK, HistoryIsTrue
    <3>2. IsTrueTable(rows[g], Append(written, m))
      BY <1>3, <1>4, <3>1, GrownHistory
    <3> QED BY <1>2, <1>5, <2>2, <3>2
  <2> QED BY <2>1, <2>2
<1>8. CopiesAreSound'
  <2> SUFFICES ASSUME NEW g \in Files, tx[g].from # NoFile
               PROVE  IsSound(tx[g], rows'[g], rows'[tx[g].from], written')
    BY <1>2 DEF CopiesAreSound
  <2> DEFINE src == tx[g].from
  <2>1. tx[g] \in Copying /\ src \in Files /\ rows[g] \in Seq(Revision)
        /\ rows[src] \in Seq(Revision) /\ rows'[src] \in Seq(Revision)
    BY <1>1, <1>6 DEF TypeOK, Copying
  <2>2. IsSound(tx[g], rows[g], rows[src], written)
    BY <1>1 DEF CopiesAreSound
  <2>3. g # f /\ rows'[g] = rows[g]
    BY <1>2, <1>5
  <2>4. Extended(rows[src], rows'[src])
    <3> HIDE DEF src
    <3>1. CASE src = f
      <4>1. /\ Len(Append(rows[f], r)) = Len(rows[f]) + 1 /\ Len(rows[f]) \in Nat
            /\ \A i \in 1..Len(rows[f]) : Append(rows[f], r)[i] = rows[f][i]
        BY <1>3, <1>4
      <4> QED BY <1>5, <3>1, <4>1 DEF Extended
    <3>2. CASE src # f
      <4>1. rows'[src] = rows[src] /\ Len(rows[src]) \in Nat
        BY <1>5, <2>1, <3>2
      <4> QED BY <4>1 DEF Extended
    <3> QED BY <3>1, <3>2
  <2> HIDE DEF src
  <2>5. IsSound(tx[g], rows[g], rows'[src], written)
    BY <1>3, <2>1, <2>2, <2>4, GrownSource
  <2>6. IsSound(tx[g], rows[g], rows'[src], Append(written, m))
    BY <1>3, <1>4, <2>1, <2>5, GrownCopy
  <2> QED BY <1>2, <2>3, <2>6 DEF src
<1> QED BY <1>6, <1>7, <1>8 DEF Inv

\* A step of one copy leaves the tables and the other copies alone.
LEMMA CopyStepSound ==
  ASSUME Inv, NEW dst \in Files, NEW t \in Copying,
         rows' = rows, written' = written, told' = told,
         tx' = [tx EXCEPT ![dst] = t],
         t.from # NoFile => IsSound(t, rows[dst], rows[t.from], written)
  PROVE  Inv'
<1>1. TypeOK /\ HistoryIsTrue /\ CopiesAreSound
  BY DEF Inv
<1>2. tx'[dst] = t /\ \A f \in Files : f # dst => tx'[f] = tx[f]
  BY <1>1 DEF TypeOK
<1>3. TypeOK'
  BY <1>1 DEF TypeOK
<1>4. HistoryIsTrue'
  BY <1>1 DEF HistoryIsTrue
<1>5. CopiesAreSound'
  BY <1>1, <1>2 DEF CopiesAreSound
<1> QED BY <1>3, <1>4, <1>5 DEF Inv

LEMMA BeginSound ==
  ASSUME Inv, NEW src \in Files, NEW dst \in Files, BeginCopy(src, dst)
  PROVE  Inv'
<1> DEFINE t == Draft(src, Len(rows[src]), rows[dst])
<1>1. TypeOK /\ HistoryIsTrue
  BY DEF Inv
<1>2. rows[src] \in Seq(Revision) /\ rows[dst] \in Seq(Revision)
      /\ IsTrueTable(rows[dst], written) /\ Len(rows[src]) \in Nat /\ Len(rows[dst]) \in Nat
  BY <1>1 DEF TypeOK, HistoryIsTrue
<1>3. <<>> \in Seq(Nat) /\ Len(<<>>) = 0
  OBVIOUS
<1>4. /\ t \in Copying /\ t.from = src /\ t.upto = Len(rows[src]) /\ t.ids = <<>>
      /\ t.rows = rows[dst] /\ \A n \in Names : t.before[n] = 0
  BY <1>2, <1>3 DEF Draft, Copying
<1> HIDE DEF t
<1>6. IsSound(t, rows[dst], rows[src], written)
  BY <1>2, <1>3, <1>4 DEF IsSound, Extended
<1>5. rows' = rows /\ written' = written /\ told' = told /\ tx' = [tx EXCEPT ![dst] = t]
  BY DEF BeginCopy, t
<1> QED BY <1>4, <1>5, <1>6, CopyStepSound

LEMMA HeldSound ==
  ASSUME Inv, NEW dst \in Files, CopyHeld(dst)
  PROVE  Inv'
<1> DEFINE t == tx[dst]
           e == rows[t.from]
<1>1. TypeOK /\ CopiesAreSound
  BY DEF Inv
<1>2. t \in Copying /\ t.from \in Files /\ e \in Seq(Revision)
      /\ Len(t.ids) < t.upto /\ t.from # NoFile
  BY <1>1 DEF CopyHeld, Reading, TypeOK, Copying
<1>3. IsSound(t, rows[dst], e, written)
  BY <1>1, <1>2 DEF CopiesAreSound
<1>4. PICK i \in 1..Len(t.rows) :
        /\ Holds(t.rows, e[Len(t.ids) + 1].uuid, i)
        /\ tx' = [tx EXCEPT ![dst].ids = Append(@, i)]
  BY DEF CopyHeld, NextRow, HeldId
<1> DEFINE u == [t EXCEPT !.ids = Append(@, i)]
<1>5. tx' = [tx EXCEPT ![dst] = u]
  BY <1>4
<1> HIDE DEF t, e
<1>6. t.ids \in Seq(Nat) /\ i \in Nat /\ Append(t.ids, i) \in Seq(Nat)
  <2>1. t.ids \in Seq(Nat) /\ t.rows \in Seq(Revision)
    BY <1>2 DEF Copying
  <2> QED BY <1>4, <2>1
<1>7. u \in Copying /\ u.ids = Append(t.ids, i) /\ u.from = t.from /\ u.upto = t.upto
      /\ u.rows = t.rows /\ u.before = t.before
  <2> DEFINE ids == Append(t.ids, i)
  <2>1. ids \in Seq(Nat)
    BY <1>6
  <2> HIDE DEF ids
  <2>2. u = [t EXCEPT !.ids = ids]
    BY DEF ids
  <2> HIDE DEF u
  <2>3. u \in Copying
    BY <1>2, <2>1, <2>2 DEF Copying
  <2>4. /\ u.ids = ids /\ u.from = t.from /\ u.upto = t.upto
        /\ u.rows = t.rows /\ u.before = t.before
    BY <1>2, <2>2 DEF Copying
  <2> QED BY <2>3, <2>4 DEF ids
<1> HIDE DEF u
<1>8. \A k \in 1..Len(u.ids) : Holds(u.rows, e[k].uuid, u.ids[k])
  BY <1>3, <1>4, <1>6, <1>7 DEF IsSound
<1>9. Len(u.ids) <= u.upto
  BY <1>2, <1>6, <1>7 DEF Copying
<1>10. IsSound(u, rows[dst], e, written)
  BY <1>3, <1>7, <1>8, <1>9 DEF IsSound
<1>11. rows' = rows /\ written' = written /\ told' = told
  BY DEF CopyHeld
<1> QED BY <1>5, <1>7, <1>10, <1>11, CopyStepSound DEF e

LEMMA RowSound ==
  ASSUME Inv, NEW dst \in Files, CopyRow(dst)
  PROVE  Inv'
<1> DEFINE t == tx[dst]
           e == rows[t.from]
           k == Len(t.ids) + 1
           r == [e[k] EXCEPT !.supersedes = IF @ = 0 THEN 0 ELSE t.ids[@]]
<1>1. TypeOK /\ HistoryIsTrue /\ CopiesAreSound
  BY DEF Inv
<1>2. t \in Copying /\ t.from \in Files /\ e \in Seq(Revision)
      /\ Len(t.ids) < t.upto /\ t.from # NoFile
  BY <1>1 DEF CopyRow, Reading, TypeOK, Copying
<1>3. IsSound(t, rows[dst], e, written) /\ IsTrueTable(e, written) /\ written \in Seq(Minted)
  BY <1>1, <1>2 DEF CopiesAreSound, HistoryIsTrue, TypeOK
<1>4. \A i \in 1..Len(t.rows) : ~ Holds(t.rows, e[k].uuid, i)
  BY DEF CopyRow, NextRow
<1>5. PICK head \in 0..Len(t.rows) :
        tx' = [tx EXCEPT ![dst] =
          [t EXCEPT !.rows = Append(@, r), !.ids = Append(@, Len(t.rows) + 1),
                    !.before = [@ EXCEPT ![e[k].name] = Baseline(t, e[k].name, head)],
                    !.touched = @ \cup {e[k].name}]]
  BY DEF CopyRow, NextRow
<1>6. t.rows \in Seq(Revision) /\ t.ids \in Seq(Nat) /\ t.before \in [Names -> Nat]
      /\ t.touched \subseteq Names /\ t.upto \in Nat
  BY <1>2 DEF Copying
<1>7. k \in 1..Len(e) /\ Len(t.ids) = k - 1 /\ e[k] \in Revision /\ e[k].name \in Names
  <2>1. t.upto <= Len(e)
    BY <1>3 DEF IsSound
  <2> HIDE DEF t, e
  <2>2. Len(e) \in Nat /\ Len(t.ids) \in Nat
    BY <1>2, <1>6
  <2>3. k \in 1..Len(e) /\ Len(t.ids) = k - 1
    BY <1>2, <1>6, <2>1, <2>2
  <2>4. e[k] \in Revision
    BY <1>2, <2>3
  <2> QED BY <2>3, <2>4 DEF Revision
<1>8. r \in Revision /\ r.uuid = e[k].uuid /\ IsTrueTable(Append(t.rows, r), written)
  <2>1. \A j \in 1..Len(t.ids) : Holds(t.rows, e[j].uuid, t.ids[j])
    BY <1>3 DEF IsSound
  <2>2. IsTrueTable(t.rows, written)
    BY <1>3 DEF IsSound
  <2> HIDE DEF t, e, k
  <2> QED BY <1>2, <1>3, <1>4, <1>6, <1>7, <2>1, <2>2, CopiedRow
<1> DEFINE b == [t.before EXCEPT ![e[k].name] = Baseline(t, e[k].name, head)]
           u == [t EXCEPT !.rows = Append(@, r), !.ids = Append(@, Len(t.rows) + 1),
                          !.before = b, !.touched = @ \cup {e[k].name}]
<1>9. tx' = [tx EXCEPT ![dst] = u]
  BY <1>5
<1> HIDE DEF t, e, k, r
<1>10. \A n \in Names : b[n] \in Nat /\ b[n] <= Len(t.rows)
  <2>1. \A n \in Names : t.before[n] <= Len(t.rows)
    BY <1>3 DEF IsSound
  <2> QED BY <1>6, <1>7, <2>1 DEF Baseline
<1>11. b \in [Names -> Nat]
  BY <1>6, <1>7, <1>10
<1> HIDE DEF b
<1>12. /\ u \in Copying /\ u.from = t.from /\ u.upto = t.upto /\ u.rows = Append(t.rows, r)
       /\ u.ids = Append(t.ids, Len(t.rows) + 1) /\ u.before = b
  <2> DEFINE d == Append(t.rows, r)
             ids == Append(t.ids, Len(t.rows) + 1)
             touched == t.touched \cup {e[k].name}
  <2>1. d \in Seq(Revision) /\ ids \in Seq(Nat) /\ touched \in SUBSET Names
    BY <1>6, <1>7, <1>8
  <2> HIDE DEF d, ids, touched
  <2>2. u = [t EXCEPT !.rows = d, !.ids = ids, !.before = b, !.touched = touched]
    BY DEF d, ids, touched
  <2> HIDE DEF u
  <2>3. u \in Copying
    BY <1>2, <1>11, <2>1, <2>2 DEF Copying
  <2>4. /\ u.ids = ids /\ u.from = t.from /\ u.upto = t.upto
        /\ u.rows = d /\ u.before = b
    <3> HIDE DEF t, b
    <3> QED BY <1>2, <2>2 DEF Copying
  <2> QED BY <2>3, <2>4 DEF d, ids
<1> HIDE DEF u
<1>13. /\ Len(Append(t.rows, r)) = Len(t.rows) + 1
       /\ Append(t.rows, r)[Len(t.rows) + 1] = r
       /\ \A i \in 1..Len(t.rows) : Append(t.rows, r)[i] = t.rows[i]
       /\ Len(t.rows) \in Nat
  BY <1>6, <1>8
<1>14. \A j \in 1..Len(u.ids) : Holds(u.rows, e[j].uuid, u.ids[j])
  <2> SUFFICES ASSUME NEW j \in 1..Len(u.ids) PROVE Holds(u.rows, e[j].uuid, u.ids[j])
    OBVIOUS
  <2>1. CASE j \in 1..Len(t.ids)
    <3>1. Holds(t.rows, e[j].uuid, t.ids[j]) /\ u.ids[j] = t.ids[j]
      BY <1>3, <1>6, <1>12, <2>1 DEF IsSound
    <3>2. PICK x \in 1..Len(t.rows) : x = t.ids[j] /\ t.rows[x].uuid = e[j].uuid
      BY <3>1 DEF Holds
    <3>3. x \in 1..Len(u.rows) /\ u.rows[x] = t.rows[x]
      BY <1>12, <1>13
    <3> QED BY <3>1, <3>2, <3>3 DEF Holds
  <2>2. CASE j = k
    <3>1. u.ids[j] = Len(t.rows) + 1
      BY <1>6, <1>7, <1>12, <1>13, <2>2
    <3> QED BY <1>8, <1>12, <1>13, <2>2, <3>1 DEF Holds
  <2> QED BY <1>6, <1>7, <1>12, <2>1, <2>2
<1>15. IsSound(u, rows[dst], e, written)
  <2>1. Extended(rows[dst], u.rows)
    <3>1. Extended(rows[dst], t.rows) /\ Len(rows[dst]) \in Nat
      BY <1>1, <1>3 DEF IsSound, TypeOK
    <3> QED BY <1>12, <1>13, <3>1 DEF Extended
  <2>2. Len(u.ids) <= u.upto /\ u.upto <= Len(e)
    BY <1>2, <1>3, <1>6, <1>12 DEF IsSound
  <2>3. \A n \in Names : u.before[n] <= Len(u.rows)
    BY <1>10, <1>12, <1>13
  <2> QED BY <1>8, <1>12, <1>14, <2>1, <2>2, <2>3 DEF IsSound
<1>16. rows' = rows /\ written' = written /\ told' = told
  BY DEF CopyRow
<1> QED BY <1>9, <1>12, <1>15, <1>16, CopyStepSound DEF e

\* A commit puts the draft in place of what it goes on from, which a copy that
\* reads this file does not notice.
LEMMA CommitSound ==
  ASSUME Inv, NEW dst \in Files, CommitCopy(dst)
  PROVE  Inv'
<1> DEFINE t == tx[dst]
<1>1. TypeOK /\ HistoryIsTrue /\ CopiesAreSound
  BY DEF Inv
<1>2. /\ t \in Copying /\ t.from \in Files /\ t.from # NoFile
      /\ t.rows \in Seq(Revision) /\ t.before \in [Names -> Nat] /\ t.touched \subseteq Names
      /\ Len(t.rows) \in Nat
  BY <1>1 DEF CommitCopy, TypeOK, Copying
<1>3. IsSound(t, rows[dst], rows[t.from], written)
  BY <1>1, <1>2 DEF CopiesAreSound
<1>4. /\ rows' = [rows EXCEPT ![dst] = t.rows] /\ tx' = [tx EXCEPT ![dst] = Idle]
      /\ written' = written
  BY DEF CommitCopy
<1>5. /\ rows'[dst] = t.rows /\ \A f \in Files : f # dst => rows'[f] = rows[f]
      /\ tx'[dst] = Idle /\ \A f \in Files : f # dst => tx'[f] = tx[f]
  BY <1>1, <1>4 DEF TypeOK
<1>6. Idle \in Copying /\ Idle.from = NoFile
  <2>1. <<>> \in Seq(Revision) /\ <<>> \in Seq(Nat)
    OBVIOUS
  <2> QED BY <2>1 DEF Idle, Draft, Copying
<1>7. told' \subseteq Files \X Nat
  <2>1. \A n \in t.touched : t.before[n] # 0 => t.rows[t.before[n]].uuid \in Nat
    <3> SUFFICES ASSUME NEW n \in t.touched, t.before[n] # 0
                 PROVE  t.rows[t.before[n]].uuid \in Nat
      OBVIOUS
    <3>1. t.before[n] \in 1..Len(t.rows)
      BY <1>2, <1>3 DEF IsSound
    <3>2. t.rows[t.before[n]] \in Revision
      BY <1>2, <3>1
    <3> QED BY <3>2 DEF Revision
  <2>2. \A p \in told' : p \in told \/
          \E n \in t.touched : t.before[n] # 0 /\ p = <<dst, t.rows[t.before[n]].uuid>>
    BY DEF CommitCopy
  <2>3. \A p \in told : p \in Files \X Nat
    BY <1>1 DEF TypeOK
  <2> HIDE DEF t
  <2>4. \A p \in told' : p \in Files \X Nat
    BY <2>1, <2>2, <2>3
  <2> QED BY <2>4
<1>8. TypeOK'
  BY <1>1, <1>2, <1>4, <1>6, <1>7 DEF TypeOK
<1>9. HistoryIsTrue'
  <2>1. IsTrueTable(t.rows, written)
    BY <1>3 DEF IsSound
  <2> QED BY <1>1, <1>4, <1>5, <2>1 DEF HistoryIsTrue
<1>10. CopiesAreSound'
  <2> SUFFICES ASSUME NEW f \in Files, tx'[f].from # NoFile
               PROVE  IsSound(tx'[f], rows'[f], rows'[tx'[f].from], written')
    BY DEF CopiesAreSound
  <2>1. f # dst /\ tx'[f] = tx[f] /\ rows'[f] = rows[f]
    BY <1>5, <1>6
  <2> DEFINE u == tx[f]
             src == u.from
  <2>2. u \in Copying /\ src \in Files /\ rows[f] \in Seq(Revision)
        /\ rows[src] \in Seq(Revision) /\ rows'[src] \in Seq(Revision)
        /\ written \in Seq(Minted)
    BY <1>1, <1>8, <2>1 DEF TypeOK, Copying
  <2>3. IsSound(u, rows[f], rows[src], written)
    BY <1>1, <2>1 DEF CopiesAreSound
  <2>4. Extended(rows[src], rows'[src])
    <3>1. CASE src = dst
      BY <1>3, <1>5, <3>1 DEF IsSound
    <3>2. CASE src # dst
      <4>1. rows'[src] = rows[src] /\ Len(rows[src]) \in Nat
        BY <1>5, <2>2, <3>2
      <4> QED BY <4>1 DEF Extended
    <3> QED BY <3>1, <3>2
  <2> HIDE DEF u, src
  <2>5. IsSound(u, rows[f], rows'[src], written)
    BY <2>2, <2>3, <2>4, GrownSource
  <2> QED BY <1>4, <2>1, <2>5 DEF u, src
<1> QED BY <1>8, <1>9, <1>10 DEF Inv

LEMMA AbandonSound ==
  ASSUME Inv, NEW dst \in Files, AbandonCopy(dst)
  PROVE  Inv'
<1>1. <<>> \in Seq(Revision) /\ <<>> \in Seq(Nat)
  OBVIOUS
<1>2. Idle \in Copying /\ Idle.from = NoFile
  BY <1>1 DEF Idle, Draft, Copying
<1>3. rows' = rows /\ written' = written /\ told' = told /\ tx' = [tx EXCEPT ![dst] = Idle]
  BY DEF AbandonCopy
<1> QED BY <1>2, <1>3, CopyStepSound

LEMMA NextSound == Inv /\ [Next]_vars => Inv'
<1> SUFFICES ASSUME Inv, [Next]_vars PROVE Inv'
  OBVIOUS
<1>1. ASSUME NEW f \in Files, NEW n \in Names, PutDocument(f, n)
      PROVE  Inv'
  BY <1>1, InsertSound DEF PutDocument
<1>2. ASSUME NEW f \in Files, NEW n \in Names, NEW u \in 0..Len(written),
             PutDocumentIfCurrent(f, n, u)
      PROVE  Inv'
  BY <1>2, InsertSound DEF PutDocumentIfCurrent
<1>3. ASSUME NEW f \in Files, NEW n \in Names, DeleteDocument(f, n)
      PROVE  Inv'
  BY <1>3, InsertSound DEF DeleteDocument
<1>4. ASSUME NEW src \in Files, NEW dst \in Files, BeginCopy(src, dst)
      PROVE  Inv'
  BY <1>4, BeginSound
<1>5. ASSUME NEW dst \in Files, CopyHeld(dst)
      PROVE  Inv'
  BY <1>5, HeldSound
<1>6. ASSUME NEW dst \in Files, CopyRow(dst)
      PROVE  Inv'
  BY <1>6, RowSound
<1>7. ASSUME NEW dst \in Files, CommitCopy(dst)
      PROVE  Inv'
  BY <1>7, CommitSound
<1>8. ASSUME NEW dst \in Files, AbandonCopy(dst)
      PROVE  Inv'
  BY <1>8, AbandonSound
<1>9. CASE UNCHANGED vars
  <2>1. rows' = rows /\ tx' = tx /\ written' = written /\ told' = told
    BY <1>9 DEF vars
  <2>2. TypeOK'
    BY <2>1 DEF Inv, TypeOK
  <2>3. HistoryIsTrue'
    BY <2>1 DEF Inv, HistoryIsTrue
  <2>4. CopiesAreSound'
    BY <2>1 DEF Inv, CopiesAreSound
  <2> QED BY <2>2, <2>3, <2>4 DEF Inv
<1> QED BY <1>1, <1>2, <1>3, <1>4, <1>5, <1>6, <1>7, <1>8, <1>9 DEF Next

-----------------------------------------------------------------------------
(***************************************************************************)
(* Every file, every copy under way, every revision and every report of a  *)
(* fork has its type: a report names a revision there is, for any number   *)
(* of files and copies.                                                    *)
(***************************************************************************)
THEOREM TypeCorrect == Spec => []TypeOK
<1>1. Inv => TypeOK
  BY DEF Inv
<1> QED BY InitSound, NextSound, <1>1, PTL DEF Spec

(***************************************************************************)
(* HistoryIsTrue for any number of files, documents and revisions: however *)
(* archives are copied into each other, also while the source is written   *)
(* or is itself copied into, no file holds a revision twice and each       *)
(* revision supersedes there what it superseded where it was minted.       *)
(* (copy_documents)                                                        *)
(***************************************************************************)
THEOREM HistoriesAreTrue == Spec => []HistoryIsTrue
<1>1. Inv => HistoryIsTrue
  BY DEF Inv
<1> QED BY InitSound, NextSound, <1>1, PTL DEF Spec

-----------------------------------------------------------------------------
(***************************************************************************)
(* What descends from what.  up takes each of 1 .. m to one below it, or   *)
(* to 0; Reach is what is met on the way from k, the least set with k in   *)
(* it that up does not leave.  Chain and Ancestors, which the model walks, *)
(* are such ways back.                                                     *)
(***************************************************************************)
LEMMA Least ==
  ASSUME NEW T, T \subseteq Nat, T # {}
  PROVE  \E x \in T : \A y \in T : x <= y
<1> DEFINE R == OpToRel(<, Nat)
<1>1. IsWellFoundedOn(R, Nat)
  BY NatLessThanWellFounded
<1>2. \A x, y \in Nat : x < y => <<x, y>> \in R
  BY DEF OpToRel
<1> HIDE DEF R
<1>3. PICK x \in T : \A y \in T : ~ (<<y, x>> \in R)
  BY <1>1, WFMin
<1>4. ASSUME NEW y \in T PROVE x <= y
  <2>1. x \in Nat /\ y \in Nat /\ ~ (y < x)
    BY <1>2, <1>3
  <2> QED BY <2>1
<1> QED BY <1>4

GoesDown(up, m) == \A k \in 1..m : up[k] \in 0..(k - 1)

Closed(up, m, C) == \A k \in 1..m : k \in C /\ up[k] # 0 => up[k] \in C

Reach(up, m, k) == {j \in 1..m : \A C \in SUBSET Nat : k \in C /\ Closed(up, m, C) => j \in C}

LEMMA ReachClosed ==
  ASSUME NEW m \in Nat, NEW up, GoesDown(up, m), NEW k
  PROVE  Closed(up, m, Reach(up, m, k)) /\ Reach(up, m, k) \in SUBSET (1..m)
<1>1. ASSUME NEW j \in 1..m, j \in Reach(up, m, k), up[j] # 0
      PROVE  up[j] \in Reach(up, m, k)
  <2>1. up[j] \in 1..m
    <3>1. up[j] \in 0..(j - 1)
      BY DEF GoesDown
    <3> QED BY <1>1, <3>1
  <2>2. \A C \in SUBSET Nat : k \in C /\ Closed(up, m, C) => up[j] \in C
    BY <1>1 DEF Reach, Closed
  <2> QED BY <2>1, <2>2 DEF Reach
<1> QED BY <1>1 DEF Closed, Reach

LEMMA ReachSelf ==
  ASSUME NEW m \in Nat, NEW up, NEW k \in 1..m
  PROVE  k \in Reach(up, m, k)
BY DEF Reach

LEMMA ReachNone ==
  ASSUME NEW m \in Nat, NEW up
  PROVE  Reach(up, m, 0) = {}
<1>1. {0} \in SUBSET Nat /\ Closed(up, m, {0})
  BY DEF Closed
<1> QED BY <1>1 DEF Reach

LEMMA ReachTransitive ==
  ASSUME NEW m \in Nat, NEW up, NEW i, NEW j \in Reach(up, m, i)
  PROVE  Reach(up, m, j) \subseteq Reach(up, m, i)
BY DEF Reach

LEMMA ReachBelow ==
  ASSUME NEW m \in Nat, NEW up, GoesDown(up, m), NEW k \in 1..m
  PROVE  Reach(up, m, k) \in SUBSET (1..k)
<1>1. (1..k) \in SUBSET Nat /\ k \in 1..k
  OBVIOUS
<1>2. Closed(up, m, 1..k)
  <2> SUFFICES ASSUME NEW j \in 1..m, j \in 1..k, up[j] # 0 PROVE up[j] \in 1..k
    BY DEF Closed
  <2>1. up[j] \in 0..(j - 1)
    BY DEF GoesDown
  <2> QED BY <2>1
<1> QED BY <1>1, <1>2 DEF Reach

LEMMA ReachStep ==
  ASSUME NEW m \in Nat, NEW up, GoesDown(up, m), NEW k \in 1..m
  PROVE  Reach(up, m, k) = {k} \cup Reach(up, m, up[k])
<1> DEFINE C == {k} \cup Reach(up, m, up[k])
<1>1. k \in Reach(up, m, k) /\ up[k] \in 0..(k - 1)
  BY ReachSelf DEF GoesDown
<1>2. Reach(up, m, up[k]) \subseteq Reach(up, m, k)
  <2>1. CASE up[k] = 0
    BY <2>1, ReachNone
  <2>2. CASE up[k] # 0
    <3>1. up[k] \in Reach(up, m, k)
      BY <1>1, <2>2, ReachClosed DEF Closed
    <3> QED BY <3>1, ReachTransitive
  <2> QED BY <2>1, <2>2
<1>3. C \in SUBSET Nat /\ k \in C
  <2>1. Reach(up, m, up[k]) \in SUBSET (1..m)
    BY ReachClosed
  <2> QED BY <2>1
<1>4. Closed(up, m, C)
  <2> SUFFICES ASSUME NEW j \in 1..m, j \in C, up[j] # 0 PROVE up[j] \in C
    BY DEF Closed
  <2>1. CASE j = k
    <3>1. up[k] \in 1..m
      BY <1>1, <2>1
    <3>2. up[k] \in Reach(up, m, up[k])
      BY <3>1, ReachSelf
    <3> QED BY <2>1, <3>2
  <2>2. CASE j \in Reach(up, m, up[k])
    BY <2>2, ReachClosed DEF Closed
  <2> QED BY <2>1, <2>2
<1>5. Reach(up, m, k) \subseteq C
  <2> HIDE DEF C
  <2> QED BY <1>3, <1>4 DEF Reach
<1> QED BY <1>1, <1>2, <1>5

\* The way back, as a recursive function: there is one, and it is Reach.
Back(up, i, g) == g = [k \in 0..i |-> IF k = 0 THEN {} ELSE {k} \cup g[up[k]]]

LEMMA BackIsReach ==
  ASSUME NEW m \in Nat, NEW up, GoesDown(up, m), NEW i \in 0..m
  PROVE  /\ \E g : Back(up, i, g)
         /\ \A g : Back(up, i, g) => g[i] = Reach(up, m, i)
<1>1. PICK g : g = [k \in 0..i |-> Reach(up, m, k)]
  OBVIOUS
<1>2. \A k \in 0..i : g[k] = IF k = 0 THEN {} ELSE {k} \cup g[up[k]]
  <2> SUFFICES ASSUME NEW k \in 0..i, k # 0 PROVE g[k] = {k} \cup g[up[k]]
    BY <1>1, ReachNone
  <2>1. k \in 1..m
    OBVIOUS
  <2>2. up[k] \in 0..(k - 1)
    BY <2>1 DEF GoesDown
  <2>3. up[k] \in 0..i
    BY <2>2
  <2> QED BY <1>1, <2>1, <2>3, ReachStep
<1>3. Back(up, i, g)
  BY <1>1, <1>2 DEF Back
<1>4. ASSUME NEW h, Back(up, i, h) PROVE h[i] = Reach(up, m, i)
  <2> DEFINE T == {k \in 0..i : h[k] # Reach(up, m, k)}
  <2>1. \A k \in 0..i : h[k] = IF k = 0 THEN {} ELSE {k} \cup h[up[k]]
    BY <1>4 DEF Back
  <2>2. CASE T = {}
    BY <2>2
  <2>3. CASE T # {}
    <3>1. T \subseteq Nat
      OBVIOUS
    <3>2. PICK k \in T : \A j \in T : k <= j
      <4> HIDE DEF T
      <4> QED BY <2>3, <3>1, Least
    <3>3. k # 0
      BY <2>1, <3>2, ReachNone
    <3>4. k \in 1..m /\ up[k] \in 0..(k - 1)
      BY <3>3 DEF GoesDown
    <3>5. up[k] \in 0..i /\ up[k] \notin T
      BY <3>2, <3>4
    <3>6. h[up[k]] = Reach(up, m, up[k])
      BY <3>5
    <3>7. h[k] = {k} \cup h[up[k]]
      BY <2>1, <3>3
    <3>8. Reach(up, m, k) = {k} \cup Reach(up, m, up[k])
      BY <3>4, ReachStep
    <3> QED BY <3>6, <3>7, <3>8
  <2> QED BY <2>2, <2>3
<1> QED BY <1>3, <1>4

-----------------------------------------------------------------------------
(***************************************************************************)
(* Chains by ids, and ancestors by uuids.                                  *)
(***************************************************************************)
Supersedes(d) == [k \in 1..Len(d) |-> d[k].supersedes]
Ontos(w) == [v \in 1..Len(w) |-> w[v].onto]

AncestorsIn(w, u) ==
  LET back[v \in 0..u] == IF v = 0 THEN {} ELSE {v} \cup back[w[v].onto]
  IN  back[u]

\* Whatever was minted went onto something minted before.
MintedInOrder(w) == GoesDown(Ontos(w), Len(w))

LEMMA ChainIsReach ==
  ASSUME NEW d \in Seq(Revision), GoesDown(Supersedes(d), Len(d)), NEW i \in 0..Len(d)
  PROVE  Chain(d, i) = Reach(Supersedes(d), Len(d), i)
<1> DEFINE P(g) == g = [k \in 0..i |-> IF k = 0 THEN {} ELSE {k} \cup g[d[k].supersedes]]
           back[k \in 0..i] == IF k = 0 THEN {} ELSE {k} \cup back[d[k].supersedes]
<1>1. \A g : P(g) <=> Back(Supersedes(d), i, g)
  <2> SUFFICES ASSUME NEW g PROVE P(g) <=> Back(Supersedes(d), i, g)
    OBVIOUS
  <2>1. \A k \in 0..i : k # 0 => Supersedes(d)[k] = d[k].supersedes
    BY DEF Supersedes
  <2>2. [k \in 0..i |-> IF k = 0 THEN {} ELSE {k} \cup g[d[k].supersedes]]
          = [k \in 0..i |-> IF k = 0 THEN {} ELSE {k} \cup g[Supersedes(d)[k]]]
    BY <2>1
  <2> QED BY <2>2 DEF Back
<1>2. back = CHOOSE g : P(g)
  OBVIOUS
<1>3. Chain(d, i) = back[i]
  BY DEF Chain
<1> HIDE DEF P, back
<1>4. /\ \E g : Back(Supersedes(d), i, g)
      /\ \A g : Back(Supersedes(d), i, g) => g[i] = Reach(Supersedes(d), Len(d), i)
  <2>1. Len(d) \in Nat
    OBVIOUS
  <2> QED BY <2>1, BackIsReach
<1>5. P(back)
  BY <1>1, <1>2, <1>4
<1> QED BY <1>1, <1>3, <1>4, <1>5

LEMMA AncestorsAreReach ==
  ASSUME NEW w \in Seq(Minted), MintedInOrder(w), NEW u \in 0..Len(w)
  PROVE  AncestorsIn(w, u) = Reach(Ontos(w), Len(w), u)
<1> DEFINE P(g) == g = [v \in 0..u |-> IF v = 0 THEN {} ELSE {v} \cup g[w[v].onto]]
           back[v \in 0..u] == IF v = 0 THEN {} ELSE {v} \cup back[w[v].onto]
<1>1. \A g : P(g) <=> Back(Ontos(w), u, g)
  <2> SUFFICES ASSUME NEW g PROVE P(g) <=> Back(Ontos(w), u, g)
    OBVIOUS
  <2>1. \A v \in 0..u : v # 0 => Ontos(w)[v] = w[v].onto
    BY DEF Ontos
  <2>2. [v \in 0..u |-> IF v = 0 THEN {} ELSE {v} \cup g[w[v].onto]]
          = [v \in 0..u |-> IF v = 0 THEN {} ELSE {v} \cup g[Ontos(w)[v]]]
    BY <2>1
  <2> QED BY <2>2 DEF Back
<1>2. back = CHOOSE g : P(g)
  OBVIOUS
<1>3. AncestorsIn(w, u) = back[u]
  BY DEF AncestorsIn
<1> HIDE DEF P, back
<1>4. /\ \E g : Back(Ontos(w), u, g)
      /\ \A g : Back(Ontos(w), u, g) => g[u] = Reach(Ontos(w), Len(w), u)
  <2>1. Len(w) \in Nat /\ GoesDown(Ontos(w), Len(w))
    BY DEF MintedInOrder
  <2> QED BY <2>1, BackIsReach
<1>5. P(back)
  BY <1>1, <1>2, <1>4
<1> QED BY <1>1, <1>3, <1>4, <1>5

LEMMA AncestorsHere ==
  ASSUME NEW u
  PROVE  /\ Ancestors(u) = AncestorsIn(written, u)
         /\ Ancestors(u)' = AncestorsIn(written', u)
BY DEF Ancestors, AncestorsIn

\* A true table goes back by its ids, as the revisions in it do by uuids.
LEMMA TrueGoesDown ==
  ASSUME NEW d \in Seq(Revision), NEW w, IsTrueTable(d, w)
  PROVE  /\ GoesDown(Supersedes(d), Len(d))
         /\ \A i \in 1..Len(d) : d[i].uuid \in 1..Len(w)
<1>1. ASSUME NEW k \in 1..Len(d) PROVE Supersedes(d)[k] \in 0..(k - 1)
  <2>1. IsTrueRow(d, k, w)
    BY DEF IsTrueTable
  <2> QED BY <2>1 DEF IsTrueRow, Supersedes
<1> QED BY <1>1 DEF GoesDown, IsTrueTable, IsTrueRow

LEMMA ChainIsAncestry ==
  ASSUME NEW d \in Seq(Revision), NEW w \in Seq(Minted), IsTrueTable(d, w), MintedInOrder(w),
         NEW i \in 1..Len(d)
  PROVE  /\ Chain(d, i) \subseteq 1..i
         /\ \A j \in Chain(d, i) : d[j].uuid \in AncestorsIn(w, d[i].uuid)
         /\ \A v \in AncestorsIn(w, d[i].uuid) : \E j \in Chain(d, i) : d[j].uuid = v
<1> DEFINE m == Len(d)
           up == Supersedes(d)
           n == Len(w)
           on == Ontos(w)
<1>1. /\ m \in Nat /\ n \in Nat /\ GoesDown(up, m) /\ GoesDown(on, n)
      /\ \A k \in 1..m : d[k].uuid \in 1..n
  BY TrueGoesDown DEF MintedInOrder
<1>2. Chain(d, i) = Reach(up, m, i) /\ AncestorsIn(w, d[i].uuid) = Reach(on, n, d[i].uuid)
  <2>1. i \in 0..Len(d) /\ d[i].uuid \in 0..Len(w)
    BY <1>1
  <2> QED BY <1>1, <2>1, ChainIsReach, AncestorsAreReach
<1>3. \A k \in 1..m : up[k] # 0 <=> on[d[k].uuid] # 0
  <2> SUFFICES ASSUME NEW k \in 1..m PROVE up[k] # 0 <=> on[d[k].uuid] # 0
    OBVIOUS
  <2>1. IsTrueRow(d, k, w) /\ up[k] = d[k].supersedes /\ on[d[k].uuid] = w[d[k].uuid].onto
    BY <1>1 DEF IsTrueTable, Supersedes, Ontos
  <2> QED BY <2>1 DEF IsTrueRow
<1>4. \A k \in 1..m : up[k] # 0 => up[k] \in 1..m /\ d[up[k]].uuid = on[d[k].uuid]
  <2> SUFFICES ASSUME NEW k \in 1..m, up[k] # 0
               PROVE  up[k] \in 1..m /\ d[up[k]].uuid = on[d[k].uuid]
    OBVIOUS
  <2>1. IsTrueRow(d, k, w) /\ up[k] = d[k].supersedes /\ on[d[k].uuid] = w[d[k].uuid].onto
    BY <1>1 DEF IsTrueTable, Supersedes, Ontos
  <2> QED BY <1>1, <2>1 DEF IsTrueRow
<1> HIDE DEF m, up, n, on
<1>5. ASSUME NEW j \in Reach(up, m, i)
      PROVE  d[j].uuid \in Reach(on, n, d[i].uuid)
  <2>1. j \in 1..m
    BY <1>1, ReachClosed
  <2>2. ASSUME NEW C \in SUBSET Nat, d[i].uuid \in C, Closed(on, n, C)
        PROVE  d[j].uuid \in C
    <3> DEFINE D == {k \in 1..m : d[k].uuid \in C}
    <3>1. D \in SUBSET Nat /\ i \in D
      BY <2>2 DEF m
    <3>2. Closed(up, m, D)
      <4> SUFFICES ASSUME NEW k \in 1..m, k \in D, up[k] # 0 PROVE up[k] \in D
        BY DEF Closed
      <4>1. on[d[k].uuid] # 0 /\ d[k].uuid \in 1..n /\ d[k].uuid \in C
        BY <1>1, <1>3
      <4>2. on[d[k].uuid] \in C
        BY <2>2, <4>1 DEF Closed
      <4> QED BY <1>4, <4>2
    <3> HIDE DEF D
    <3>3. j \in D
      BY <3>1, <3>2 DEF Reach
    <3> QED BY <3>3 DEF D
  <2> QED BY <1>1, <2>1, <2>2 DEF Reach
<1>6. ASSUME NEW v \in Reach(on, n, d[i].uuid)
      PROVE  \E j \in Reach(up, m, i) : d[j].uuid = v
  <2> DEFINE C == {d[j].uuid : j \in Reach(up, m, i)}
  <2>1. Reach(up, m, i) \in SUBSET (1..m) /\ i \in Reach(up, m, i)
    BY <1>1, ReachClosed, ReachSelf DEF m
  <2>2. C \in SUBSET Nat /\ d[i].uuid \in C
    BY <1>1, <2>1
  <2>3. Closed(on, n, C)
    <3> SUFFICES ASSUME NEW x \in 1..n, x \in C, on[x] # 0 PROVE on[x] \in C
      BY DEF Closed
    <3>1. PICK j \in Reach(up, m, i) : x = d[j].uuid
      OBVIOUS
    <3>2. j \in 1..m /\ up[j] # 0
      BY <1>3, <2>1, <3>1
    <3>3. up[j] \in Reach(up, m, i)
      BY <1>1, <3>2, ReachClosed DEF Closed
    <3>4. d[up[j]].uuid = on[x]
      BY <1>4, <3>1, <3>2
    <3> QED BY <3>3, <3>4
  <2> HIDE DEF C
  <2>4. v \in C
    BY <2>2, <2>3 DEF Reach
  <2> QED BY <2>4 DEF C
<1>7. Reach(up, m, i) \subseteq 1..i
  BY <1>1, ReachBelow DEF m
<1> QED BY <1>2, <1>5, <1>6, <1>7

LEMMA AncestorsAre ==
  ASSUME NEW w \in Seq(Minted), MintedInOrder(w)
  PROVE  /\ AncestorsIn(w, 0) = {}
         /\ \A u \in 1..Len(w) : /\ u \in AncestorsIn(w, u)
                                 /\ AncestorsIn(w, u) \subseteq 1..u
         /\ \A u \in 0..Len(w) : \A v \in AncestorsIn(w, u) :
              v \in 1..Len(w) /\ AncestorsIn(w, v) \subseteq AncestorsIn(w, u)
<1>1. Len(w) \in Nat /\ GoesDown(Ontos(w), Len(w))
  BY DEF MintedInOrder
<1>2. \A u \in 0..Len(w) : AncestorsIn(w, u) = Reach(Ontos(w), Len(w), u)
  BY AncestorsAreReach
<1>3. AncestorsIn(w, 0) = {}
  <2>1. 0 \in 0..Len(w)
    BY <1>1
  <2> QED BY <1>1, <1>2, <2>1, ReachNone
<1>4. ASSUME NEW u \in 1..Len(w)
      PROVE  u \in AncestorsIn(w, u) /\ AncestorsIn(w, u) \subseteq 1..u
  <2>1. u \in 0..Len(w)
    OBVIOUS
  <2> QED BY <1>1, <1>2, <2>1, ReachSelf, ReachBelow
<1>5. ASSUME NEW u \in 0..Len(w), NEW v \in AncestorsIn(w, u)
      PROVE  v \in 1..Len(w) /\ AncestorsIn(w, v) \subseteq AncestorsIn(w, u)
  <2>1. v \in Reach(Ontos(w), Len(w), u)
    BY <1>2
  <2>2. v \in 1..Len(w)
    BY <2>1 DEF Reach
  <2>3. v \in 0..Len(w)
    BY <2>2
  <2>4. Reach(Ontos(w), Len(w), v) \subseteq Reach(Ontos(w), Len(w), u)
    BY <1>1, <2>1, ReachTransitive
  <2> QED BY <1>2, <2>2, <2>3, <2>4
<1> QED BY <1>3, <1>4, <1>5

\* A revision that is minted has its ancestors, and changes no other's.
LEMMA AncestorsGrow ==
  ASSUME NEW w \in Seq(Minted), NEW m \in Minted, MintedInOrder(w), m.onto \in 0..Len(w)
  PROVE  /\ MintedInOrder(Append(w, m))
         /\ \A u \in 0..Len(w) : AncestorsIn(Append(w, m), u) = AncestorsIn(w, u)
         /\ AncestorsIn(Append(w, m), Len(w) + 1) = {Len(w) + 1} \cup AncestorsIn(w, m.onto)
<1> DEFINE v == Append(w, m)
           n == Len(w)
<1>1. n \in Nat /\ v \in Seq(Minted) /\ Len(v) = n + 1 /\ v[n + 1] = m
      /\ \A k \in 1..n : v[k] = w[k]
  OBVIOUS
<1> HIDE DEF v
<1>2. Ontos(v)[n + 1] = m.onto /\ \A k \in 1..n : Ontos(v)[k] = Ontos(w)[k]
  <2>1. \A k \in 1..(n + 1) : Ontos(v)[k] = v[k].onto
    BY <1>1 DEF Ontos
  <2>2. \A k \in 1..n : Ontos(w)[k] = w[k].onto
    BY DEF Ontos
  <2>3. n + 1 \in 1..(n + 1) /\ \A k \in 1..n : k \in 1..(n + 1)
    BY <1>1
  <2> QED BY <1>1, <2>1, <2>2, <2>3
<1> DEFINE on == Ontos(v)
           up == Ontos(w)
<1>3. GoesDown(up, n)
  BY DEF MintedInOrder
<1> HIDE DEF n, on, up
<1>4. GoesDown(on, n + 1)
  <2> SUFFICES ASSUME NEW k \in 1..(n + 1) PROVE on[k] \in 0..(k - 1)
    BY DEF GoesDown
  <2>1. CASE k = n + 1
    BY <1>1, <1>2, <2>1 DEF on, n
  <2>2. CASE k \in 1..n
    BY <1>2, <1>3, <2>2 DEF GoesDown, on, up
  <2> QED BY <1>1, <2>1, <2>2
<1>5. ASSUME NEW u \in 1..n PROVE Reach(on, n + 1, u) = Reach(up, n, u)
  <2>1. \A k \in 1..n : on[k] = up[k] /\ k \in 1..(n + 1)
    BY <1>1, <1>2 DEF on, up
  <2>2. n + 1 \in Nat /\ u \in 1..(n + 1)
    BY <1>1
  <2>3. ASSUME NEW j \in Reach(up, n, u) PROVE j \in Reach(on, n + 1, u)
    <3>1. \A C \in SUBSET Nat : Closed(on, n + 1, C) => Closed(up, n, C)
      BY <2>1 DEF Closed
    <3>2. j \in 1..n
      BY DEF Reach
    <3> QED BY <2>1, <3>1, <3>2 DEF Reach
  <2>4. ASSUME NEW j \in Reach(on, n + 1, u) PROVE j \in Reach(up, n, u)
    <3>1. j \in 1..u
      BY <1>4, <2>2, ReachBelow
    <3>2. j \in 1..n
      BY <1>1, <3>1
    <3>3. ASSUME NEW C \in SUBSET Nat, u \in C, Closed(up, n, C) PROVE j \in C
      <4> DEFINE D == C \cap (1..n)
      <4>1. D \in SUBSET Nat /\ u \in D
        BY <3>3
      <4>2. Closed(on, n + 1, D)
        <5> SUFFICES ASSUME NEW k \in 1..(n + 1), k \in D, on[k] # 0 PROVE on[k] \in D
          BY DEF Closed
        <5>1. k \in 1..n /\ k \in C /\ on[k] = up[k]
          BY <2>1
        <5>2. up[k] \in C
          BY <3>3, <5>1 DEF Closed
        <5>3. up[k] \in 0..(k - 1)
          BY <1>3, <5>1 DEF GoesDown
        <5>4. up[k] \in 1..n
          BY <1>1, <5>1, <5>3
        <5> QED BY <5>1, <5>2, <5>4
      <4> HIDE DEF D
      <4>3. j \in D
        BY <4>1, <4>2 DEF Reach
      <4> QED BY <4>3 DEF D
    <3> QED BY <3>2, <3>3 DEF Reach
  <2> QED BY <2>3, <2>4
<1>6. n + 1 \in Nat /\ Reach(on, n + 1, 0) = {} /\ Reach(up, n, 0) = {}
  BY <1>1, ReachNone
<1>7. \A u \in 0..n : Reach(on, n + 1, u) = Reach(up, n, u)
  <2>1. \A u \in 0..n : u = 0 \/ u \in 1..n
    BY <1>1
  <2> QED BY <1>5, <1>6, <2>1
<1>8. MintedInOrder(v)
  BY <1>1, <1>4 DEF MintedInOrder, on
<1>9. /\ \A u \in 0..(n + 1) : AncestorsIn(v, u) = Reach(on, n + 1, u)
      /\ \A u \in 0..n : AncestorsIn(w, u) = Reach(up, n, u)
  BY <1>1, <1>8, AncestorsAreReach DEF on, up, n
<1>10. \A u \in 0..n : AncestorsIn(v, u) = AncestorsIn(w, u)
  BY <1>1, <1>7, <1>9
<1>11. AncestorsIn(v, n + 1) = {n + 1} \cup AncestorsIn(w, m.onto)
  <2>1. n + 1 \in 1..(n + 1) /\ n + 1 \in 0..(n + 1) /\ m.onto \in 0..n
    BY <1>1 DEF n
  <2>2. on[n + 1] = m.onto
    BY <1>2 DEF on
  <2>3. Reach(on, n + 1, n + 1) = {n + 1} \cup Reach(on, n + 1, on[n + 1])
    BY <1>4, <1>6, <2>1, ReachStep
  <2> QED BY <1>7, <1>9, <2>1, <2>2, <2>3
<1> QED BY <1>8, <1>10, <1>11 DEF v, n

-----------------------------------------------------------------------------
(***************************************************************************)
(* What a copy knows of the documents it touches: before is the head in    *)
(* the table it goes on from, and it touches those it has new rows of; the *)
(* new rows are the ones read that were not held, in the order read.       *)
(***************************************************************************)
IsReading(t, d) ==
  /\ \A n \in t.touched : IsHead(d, n, t.before[n])
  /\ \A n \in Names : n \in t.touched <=> \E i \in Len(d) + 1 .. Len(t.rows) : t.rows[i].name = n
  /\ \A i \in Len(d) + 1 .. Len(t.rows) : \E k \in 1..Len(t.ids) : t.ids[k] = i
  /\ \A k, l \in 1..Len(t.ids) :
       k < l /\ t.ids[k] > Len(d) /\ t.ids[l] > Len(d) => t.ids[k] < t.ids[l]

\* A body that was displaced somewhere is displaced there for good.
IsPast(f, u) ==
  \E i, j \in 1..Len(rows[f]) :
    i < j /\ rows[f][i].uuid = u /\ rows[f][i].name = rows[f][j].name

Forked ==
  /\ MintedInOrder(written)
  /\ \A f \in Files : tx[f].from # NoFile => IsReading(tx[f], rows[f])
  /\ \A f \in Files, u \in Nat : <<f, u>> \in told => IsPast(f, u)

(***************************************************************************)
(* What NothingLostSilently says of a table.                               *)
(***************************************************************************)
UuidsOf(d) == {d[i].uuid : i \in 1..Len(d)}

Seen(d, n, w, tl, u) ==
  \/ \E h \in Heads(d, n) : u \in AncestorsIn(w, h)
  \/ \E x \in UuidsOf(d) : w[x].deleted /\ u \in AncestorsIn(w, x)
  \/ \E t \in tl : u \in AncestorsIn(w, t[2])

Lossless(d, w, tl) ==
  \A n \in Names : \A u \in UuidsOf(d) :
    ~ w[u].deleted /\ w[u].name = n => Seen(d, n, w, tl, u)

\* The source's table as it was when the copy began.
WasLossless(t, e, w, tl) ==
  \E s \in Seq(Revision) :
    Len(s) = t.upto /\ Extended(s, e) /\ IsTrueTable(s, w) /\ Lossless(s, w, tl)

NothingLost ==
  /\ \A f \in Files : Lossless(rows[f], written, told)
  /\ \A f \in Files : tx[f].from # NoFile =>
       WasLossless(tx[f], rows[tx[f].from], written, told)

-----------------------------------------------------------------------------
(***************************************************************************)
(* Heads.                                                                  *)
(***************************************************************************)
LEMMA HeadIsOne ==
  ASSUME NEW d \in Seq(Revision), NEW n, NEW i \in 0..Len(d), IsHead(d, n, i),
         NEW j \in 0..Len(d), IsHead(d, n, j)
  PROVE  i = j
<1>1. Of(d, n) \subseteq 1..Len(d)
  BY DEF Of
<1>2. CASE i = 0
  BY <1>1, <1>2 DEF IsHead
<1>3. CASE j = 0
  BY <1>1, <1>3 DEF IsHead
<1>4. CASE i # 0 /\ j # 0
  <2>1. i <= j /\ j <= i
    BY <1>4 DEF IsHead
  <2> QED BY <2>1
<1> QED BY <1>2, <1>3, <1>4

LEMMA HeadExists ==
  ASSUME NEW d \in Seq(Revision), NEW n
  PROVE  \E i \in 0..Len(d) : IsHead(d, n, i)
<1>1. Of(d, n) \subseteq 1..Len(d) /\ Len(d) \in Nat
  BY DEF Of
<1>2. CASE Of(d, n) = {}
  BY <1>1, <1>2 DEF IsHead
<1>3. CASE Of(d, n) # {}
  <2> DEFINE T == {Len(d) - i : i \in Of(d, n)}
  <2>1. T \subseteq Nat /\ T # {}
    BY <1>1, <1>3
  <2>2. PICK x \in T : \A y \in T : x <= y
    <3> HIDE DEF T
    <3> QED BY <2>1, Least
  <2>3. PICK i \in Of(d, n) : x = Len(d) - i
    OBVIOUS
  <2>4. \A j \in Of(d, n) : Len(d) - i <= Len(d) - j
    BY <2>2, <2>3
  <2>5. \A j \in Of(d, n) : j <= i
    <3> SUFFICES ASSUME NEW j \in Of(d, n) PROVE j <= i
      OBVIOUS
    <3>1. i \in Int /\ j \in Int /\ Len(d) - i <= Len(d) - j
      BY <1>1, <2>4
    <3> QED BY <1>1, <3>1
  <2> QED BY <1>1, <2>5 DEF IsHead
<1> QED BY <1>2, <1>3

LEMMA HeadsAre ==
  ASSUME NEW d \in Seq(Revision), NEW n, NEW h
  PROVE  h \in Heads(d, n) <=> \E i \in 0..Len(d) : IsHead(d, n, i) /\ h = UuidAt(d, i)
BY DEF Heads

\* Rows of other documents do not move a head.
LEMMA HeadStays ==
  ASSUME NEW d \in Seq(Revision), NEW e \in Seq(Revision), Extended(d, e), NEW n,
         \A i \in Len(d) + 1 .. Len(e) : e[i].name # n
  PROVE  /\ \A i : IsHead(d, n, i) <=> IsHead(e, n, i)
         /\ Heads(d, n) = Heads(e, n)
<1>1. Len(d) \in Nat /\ Len(e) \in Nat /\ Len(d) <= Len(e) /\ \A i \in 1..Len(d) : e[i] = d[i]
  BY DEF Extended
<1>2. \A i \in 1..Len(e) : i \in 1..Len(d) \/ i \in Len(d) + 1 .. Len(e)
  BY <1>1
<1>3. Of(d, n) = Of(e, n) /\ Of(e, n) \subseteq 1..Len(d)
  BY <1>1, <1>2 DEF Of
<1>4. \A i : IsHead(d, n, i) <=> IsHead(e, n, i)
  BY <1>3 DEF IsHead
<1>5. \A i : IsHead(e, n, i) => i \in 0..Len(d) /\ i \in 0..Len(e) /\ UuidAt(e, i) = UuidAt(d, i)
  <2> SUFFICES ASSUME NEW i, IsHead(e, n, i)
               PROVE  i \in 0..Len(d) /\ i \in 0..Len(e) /\ UuidAt(e, i) = UuidAt(d, i)
    OBVIOUS
  <2>1. i = 0 \/ i \in 1..Len(d)
    BY <1>3 DEF IsHead
  <2> QED BY <1>1, <2>1 DEF UuidAt
<1>6. \A h : h \in Heads(d, n) <=> h \in Heads(e, n)
  BY <1>4, <1>5, HeadsAre
<1> QED BY <1>4, <1>6

-----------------------------------------------------------------------------
(***************************************************************************)
(* The steps of a copy.                                                    *)
(***************************************************************************)
LEMMA HeldReading ==
  ASSUME NEW t \in Copying, NEW d \in Seq(Revision), NEW e \in Seq(Revision),
         NEW w \in Seq(Minted), IsSound(t, d, e, w), IsTrueTable(e, w), IsReading(t, d),
         Len(t.ids) < t.upto,
         NEW i \in 1..Len(t.rows), Holds(t.rows, e[Len(t.ids) + 1].uuid, i),
         NEW u, u.rows = t.rows, u.ids = Append(t.ids, i), u.touched = t.touched,
         u.before = t.before
  PROVE  IsReading(u, d)
<1> DEFINE m == Len(t.ids)
<1>1. /\ t.ids \in Seq(Nat) /\ t.rows \in Seq(Revision) /\ m \in Nat
      /\ Len(u.ids) = m + 1 /\ u.ids[m + 1] = i
      /\ \A k \in 1..m : u.ids[k] = t.ids[k]
  BY DEF Copying
<1>2. /\ m + 1 \in 1..Len(e)
      /\ \A k \in 1..m : k \in 1..Len(e) /\ Holds(t.rows, e[k].uuid, t.ids[k])
  <2>1. t.upto <= Len(e) /\ t.upto \in Nat /\ Len(e) \in Nat /\ m < t.upto
        /\ \A k \in 1..m : Holds(t.rows, e[k].uuid, t.ids[k])
    <3>1. t.upto <= Len(e) /\ \A k \in 1..m : Holds(t.rows, e[k].uuid, t.ids[k])
      BY DEF IsSound
    <3>2. t.upto \in Nat
      BY DEF Copying
    <3>3. Len(e) \in Nat
      OBVIOUS
    <3> QED BY <3>1, <3>2, <3>3
  <2>2. m \in Nat
    BY <1>1
  <2> HIDE DEF m
  <2>3. m + 1 \in 1..Len(e) /\ \A k \in 1..m : k \in 1..Len(e)
    BY <2>1, <2>2
  <2> QED BY <2>1, <2>3
<1>0. /\ \A j \in Len(d) + 1 .. Len(t.rows) : \E k \in 1..m : t.ids[k] = j
      /\ \A k, l \in 1..m :
           k < l /\ t.ids[k] > Len(d) /\ t.ids[l] > Len(d) => t.ids[k] < t.ids[l]
      /\ Holds(t.rows, e[m + 1].uuid, i)
      /\ \A k, l \in 1..Len(e) : e[k].uuid = e[l].uuid => k = l
  BY DEF IsReading, IsTrueTable
<1> HIDE DEF m
<1>3. \A k \in 1..m : t.ids[k] # i
  <2> SUFFICES ASSUME NEW k \in 1..m, t.ids[k] = i PROVE FALSE
    OBVIOUS
  <2>1. k \in 1..Len(e) /\ e[k].uuid = e[m + 1].uuid
    BY <1>0, <1>2 DEF Holds
  <2>2. k = m + 1
    BY <1>0, <1>2, <2>1
  <2> QED BY <1>1, <2>2
<1>4. \A j \in Len(d) + 1 .. Len(u.rows) : \E k \in 1..Len(u.ids) : u.ids[k] = j
  <2> SUFFICES ASSUME NEW j \in Len(d) + 1 .. Len(t.rows)
               PROVE  \E k \in 1..Len(u.ids) : u.ids[k] = j
    OBVIOUS
  <2>1. PICK k \in 1..m : t.ids[k] = j
    BY <1>0
  <2>2. k \in 1..(m + 1)
    BY <1>1
  <2>3. k \in 1..Len(u.ids)
    BY <1>1, <2>2
  <2>4. u.ids[k] = t.ids[k]
    BY <1>1
  <2> QED BY <2>1, <2>3, <2>4
<1>5. i <= Len(d)
  <2> SUFFICES ASSUME i > Len(d) PROVE FALSE
    BY <1>1
  <2>1. i \in Len(d) + 1 .. Len(t.rows)
    BY <1>1
  <2> QED BY <1>0, <1>3, <2>1
<1>6. \A k, l \in 1..Len(u.ids) :
        k < l /\ u.ids[k] > Len(d) /\ u.ids[l] > Len(d) => u.ids[k] < u.ids[l]
  <2> SUFFICES ASSUME NEW k \in 1..(m + 1), NEW l \in 1..(m + 1), k < l,
                      u.ids[k] > Len(d), u.ids[l] > Len(d)
               PROVE  u.ids[k] < u.ids[l]
    BY <1>1
  <2>1. k \in 1..m /\ l \in 1..m
    <3>1. l # m + 1
      <4> SUFFICES ASSUME l = m + 1 PROVE FALSE
        OBVIOUS
      <4>1. i > Len(d)
        BY <1>1
      <4>2. i \in Nat /\ Len(d) \in Nat
        BY <1>1
      <4> QED BY <1>5, <4>1, <4>2
    <3>2. m \in Nat
      BY <1>1
    <3> QED BY <3>1, <3>2
  <2>2. u.ids[k] = t.ids[k] /\ u.ids[l] = t.ids[l]
    BY <1>1, <2>1
  <2> QED BY <1>0, <2>1, <2>2
<1> QED BY <1>4, <1>6 DEF IsReading

LEMMA RowReading ==
  ASSUME NEW t \in Copying, NEW d \in Seq(Revision), NEW e \in Seq(Revision),
         NEW w \in Seq(Minted), IsSound(t, d, e, w), IsReading(t, d),
         NEW r \in Revision, NEW head \in 0..Len(t.rows), IsHead(t.rows, r.name, head),
         NEW u, u.rows = Append(t.rows, r), u.ids = Append(t.ids, Len(t.rows) + 1),
         u.touched = t.touched \cup {r.name},
         u.before = [t.before EXCEPT ![r.name] = Baseline(t, r.name, head)]
  PROVE  IsReading(u, d)
<1> DEFINE m == Len(t.ids)
           c == Len(t.rows)
<1>1. /\ t.ids \in Seq(Nat) /\ t.rows \in Seq(Revision) /\ m \in Nat /\ c \in Nat
      /\ Len(u.ids) = m + 1 /\ u.ids[m + 1] = c + 1
      /\ \A k \in 1..m : u.ids[k] = t.ids[k]
      /\ Len(u.rows) = c + 1 /\ u.rows[c + 1] = r
      /\ \A i \in 1..c : u.rows[i] = t.rows[i]
  BY DEF Copying
<1>2. Extended(d, t.rows) /\ Len(d) \in Nat /\ Len(d) <= c
  BY DEF IsSound, Extended
<1>3. r.name \in Names /\ t.before \in [Names -> Nat] /\ t.touched \subseteq Names
  BY DEF Revision, Copying
<1>4. /\ \A i \in Len(d) + 1 .. Len(u.rows) : i \in Len(d) + 1 .. c \/ i = c + 1
      /\ \A i \in Len(d) + 1 .. c : i \in 1..c
      /\ c + 1 \in Len(d) + 1 .. Len(u.rows)
      /\ \A i \in Len(d) + 1 .. c : i \in Len(d) + 1 .. Len(u.rows)
  <2>1. PICK x \in Nat, y \in Nat : x = Len(d) /\ y = c /\ x <= y /\ Len(u.rows) = y + 1
    BY <1>1, <1>2
  <2> HIDE DEF c, m
  <2>2. /\ \A i \in x + 1 .. y + 1 : i \in x + 1 .. y \/ i = y + 1
        /\ \A i \in x + 1 .. y : i \in 1..y /\ i \in x + 1 .. y + 1
        /\ y + 1 \in x + 1 .. y + 1
    BY <2>1
  <2> QED BY <2>1, <2>2
<1> HIDE DEF m, c
<1>5. ASSUME NEW n \in u.touched PROVE IsHead(d, n, u.before[n])
  <2>1. CASE n \in t.touched
    <3>1. u.before[n] = t.before[n]
      BY <1>3, <2>1 DEF Baseline
    <3> QED BY <2>1, <3>1 DEF IsReading
  <2>2. CASE n \notin t.touched
    <3>1. n = r.name /\ u.before[n] = head
      BY <1>3, <2>2 DEF Baseline
    <3>2. \A i \in Len(d) + 1 .. Len(t.rows) : t.rows[i].name # n
      BY <1>3, <2>2, <3>1 DEF IsReading
    <3>3. IsHead(t.rows, n, head)
      BY <3>1
    <3>4. IsHead(d, n, head)
      BY <1>1, <1>2, <3>2, <3>3, HeadStays
    <3> QED BY <3>1, <3>4
  <2> QED BY <2>1, <2>2
<1>6. ASSUME NEW n \in Names
      PROVE  n \in u.touched <=> \E i \in Len(d) + 1 .. Len(u.rows) : u.rows[i].name = n
  <2>1. n \in t.touched <=> \E i \in Len(d) + 1 .. c : t.rows[i].name = n
    BY DEF IsReading, c
  <2>2. (\E i \in Len(d) + 1 .. Len(u.rows) : u.rows[i].name = n)
          <=> (\E i \in Len(d) + 1 .. c : t.rows[i].name = n) \/ r.name = n
    BY <1>1, <1>4
  <2> QED BY <2>1, <2>2
<1>7. ASSUME NEW i \in Len(d) + 1 .. Len(u.rows) PROVE \E k \in 1..Len(u.ids) : u.ids[k] = i
  <2>1. CASE i = c + 1
    <3>1. m + 1 \in 1..Len(u.ids) /\ u.ids[m + 1] = i
      BY <1>1, <2>1
    <3> QED BY <3>1
  <2>2. CASE i \in Len(d) + 1 .. c
    <3>1. PICK k \in 1..m : t.ids[k] = i
      BY <2>2 DEF IsReading, m, c
    <3> QED BY <1>1, <3>1
  <2> QED BY <1>4, <2>1, <2>2
<1>8. ASSUME NEW k \in 1..Len(u.ids), NEW l \in 1..Len(u.ids), k < l,
             u.ids[k] > Len(d), u.ids[l] > Len(d)
      PROVE  u.ids[k] < u.ids[l]
  <2>1. k \in 1..m /\ (l \in 1..m \/ l = m + 1)
    BY <1>1, <1>8
  <2>2. CASE l \in 1..m
    <3>1. \A x, y \in 1..m :
            x < y /\ t.ids[x] > Len(d) /\ t.ids[y] > Len(d) => t.ids[x] < t.ids[y]
      BY DEF IsReading, m
    <3>2. u.ids[k] = t.ids[k] /\ u.ids[l] = t.ids[l]
      BY <1>1, <2>1, <2>2
    <3> QED BY <1>8, <2>1, <2>2, <3>1, <3>2
  <2>3. CASE l = m + 1
    <3>1. Holds(t.rows, e[k].uuid, t.ids[k])
      BY <2>1 DEF IsSound, m
    <3>2. t.ids[k] \in 1..c
      BY <3>1 DEF Holds, c
    <3>3. u.ids[k] = t.ids[k] /\ u.ids[l] = c + 1
      BY <1>1, <2>1, <2>3
    <3>4. c \in Nat
      BY <1>1
    <3> HIDE DEF c, m
    <3>5. PICK x \in 1..c : x = u.ids[k]
      BY <3>2, <3>3
    <3>6. x < c + 1
      BY <3>4
    <3> QED BY <3>3, <3>5, <3>6
  <2> QED BY <2>1, <2>2, <2>3
<1> QED BY <1>5, <1>6, <1>7, <1>8 DEF IsReading

-----------------------------------------------------------------------------
(***************************************************************************)
(* Forked is kept.                                                         *)
(***************************************************************************)
LEMMA InitForked == Init => Forked
<1> SUFFICES ASSUME Init PROVE Forked
  OBVIOUS
<1>1. MintedInOrder(written)
  BY DEF Init, MintedInOrder, GoesDown
<1> QED BY <1>1 DEF Init, Forked, Idle, Draft

\* Of an insert: what is minted, and the table it is added to.
LEMMA Inserted ==
  ASSUME Inv, Forked, NEW f \in Files, NEW n \in Names, NEW deleted \in BOOLEAN,
         NEW head \in 0..Len(rows[f]), Insert(f, n, deleted, head)
  PROVE  \E m \in Minted, r \in Revision :
           /\ m = [name |-> n, deleted |-> deleted, onto |-> UuidAt(rows[f], head)]
           /\ r.uuid = Len(written) + 1 /\ r.name = n
           /\ m.onto \in 0..Len(written)
           /\ written' = Append(written, m)
           /\ rows'[f] = Append(rows[f], r)
           /\ \A g \in Files : g # f => rows'[g] = rows[g]
           /\ tx' = tx /\ told' = told /\ tx[f].from = NoFile
<1> DEFINE m == [name |-> n, deleted |-> deleted, onto |-> UuidAt(rows[f], head)]
           r == [uuid |-> Len(written) + 1, name |-> n, deleted |-> deleted,
                 supersedes |-> head]
<1>1. rows[f] \in Seq(Revision) /\ written \in Seq(Minted) /\ IsTrueTable(rows[f], written)
      /\ rows \in [Files -> Seq(Revision)]
  BY DEF Inv, TypeOK, HistoryIsTrue
<1>2. m \in Minted /\ r \in Revision
  BY <1>1, WrittenRow
<1>3. m.onto \in 0..Len(written)
  <2>1. CASE head = 0
    BY <1>1, <2>1 DEF UuidAt
  <2>2. CASE head # 0
    <3>1. head \in 1..Len(rows[f])
      BY <2>2
    <3>2. rows[f][head].uuid \in 1..Len(written)
      BY <1>1, <3>1, TrueGoesDown
    <3> QED BY <2>2, <3>2 DEF UuidAt
  <2> QED BY <2>1, <2>2
<1>4. /\ written' = Append(written, m) /\ rows' = [rows EXCEPT ![f] = Append(@, r)]
      /\ tx' = tx /\ told' = told /\ tx[f].from = NoFile
  BY DEF Insert
<1>5. r.uuid = Len(written) + 1 /\ r.name = n
  OBVIOUS
<1> QED BY <1>1, <1>2, <1>3, <1>4, <1>5

LEMMA PastStays ==
  ASSUME NEW f \in Files, rows[f] \in Seq(Revision), rows'[f] \in Seq(Revision),
         Extended(rows[f], rows'[f]), NEW u, IsPast(f, u)
  PROVE  IsPast(f, u)'
<1>1. PICK i \in 1..Len(rows[f]), j \in 1..Len(rows[f]) :
        i < j /\ rows[f][i].uuid = u /\ rows[f][i].name = rows[f][j].name
  BY DEF IsPast
<1>2. i \in 1..Len(rows'[f]) /\ j \in 1..Len(rows'[f])
      /\ rows'[f][i] = rows[f][i] /\ rows'[f][j] = rows[f][j]
  BY DEF Extended
<1> QED BY <1>1, <1>2 DEF IsPast

LEMMA AppendExtends ==
  ASSUME NEW d \in Seq(Revision), NEW r \in Revision
  PROVE  /\ Append(d, r) \in Seq(Revision) /\ Extended(d, Append(d, r)) /\ Extended(d, d)
         /\ Len(Append(d, r)) = Len(d) + 1 /\ Append(d, r)[Len(d) + 1] = r
<1>1. Len(Append(d, r)) = Len(d) + 1 /\ Len(d) \in Nat
  OBVIOUS
<1>2. \A i \in 1..Len(d) : Append(d, r)[i] = d[i]
  OBVIOUS
<1> QED BY <1>1, <1>2 DEF Extended

LEMMA InsertForked ==
  ASSUME Inv, Forked, NEW f \in Files, NEW n \in Names, NEW deleted \in BOOLEAN,
         NEW head \in 0..Len(rows[f]), Insert(f, n, deleted, head)
  PROVE  Forked'
<1>1. PICK m \in Minted, r \in Revision :
        /\ m.onto \in 0..Len(written)
        /\ written' = Append(written, m)
        /\ rows'[f] = Append(rows[f], r)
        /\ \A g \in Files : g # f => rows'[g] = rows[g]
        /\ tx' = tx /\ told' = told /\ tx[f].from = NoFile
  BY Inserted
<1>2. written \in Seq(Minted) /\ MintedInOrder(written)
      /\ \A g \in Files : rows[g] \in Seq(Revision)
  BY DEF Inv, TypeOK, Forked
<1>3. MintedInOrder(written')
  BY <1>1, <1>2, AncestorsGrow
<1>4. ASSUME NEW g \in Files
      PROVE  rows'[g] \in Seq(Revision) /\ Extended(rows[g], rows'[g])
  <2>1. rows[g] \in Seq(Revision)
    BY <1>2
  <2>2. /\ Append(rows[g], r) \in Seq(Revision) /\ Extended(rows[g], Append(rows[g], r))
        /\ Extended(rows[g], rows[g])
    BY <2>1, AppendExtends
  <2>3. rows'[g] = rows[g] \/ rows'[g] = Append(rows[g], r)
    BY <1>1
  <2> QED BY <2>1, <2>2, <2>3
<1>5. \A g \in Files : tx'[g].from # NoFile => IsReading(tx'[g], rows'[g])
  BY <1>1 DEF Forked
<1>6. \A g \in Files, u \in Nat : <<g, u>> \in told' => IsPast(g, u)'
  BY <1>1, <1>2, <1>4, PastStays DEF Forked
<1> QED BY <1>3, <1>5, <1>6 DEF Forked

LEMMA CopyStepForked ==
  ASSUME Inv, Forked, NEW dst \in Files, NEW t,
         rows' = rows, written' = written, told' = told,
         tx' = [tx EXCEPT ![dst] = t],
         t.from # NoFile => IsReading(t, rows[dst])
  PROVE  Forked'
<1>1. tx'[dst] = t /\ \A f \in Files : f # dst => tx'[f] = tx[f]
  BY DEF Inv, TypeOK
<1>2. \A f \in Files : tx'[f].from # NoFile => IsReading(tx'[f], rows'[f])
  BY <1>1 DEF Forked
<1>3. \A f \in Files, u \in Nat : <<f, u>> \in told' => IsPast(f, u)'
  BY DEF Forked, IsPast
<1> QED BY <1>2, <1>3 DEF Forked

LEMMA BeginForked ==
  ASSUME Inv, Forked, NEW src \in Files, NEW dst \in Files, BeginCopy(src, dst)
  PROVE  Forked'
<1> DEFINE t == Draft(src, Len(rows[src]), rows[dst])
<1>1. rows' = rows /\ written' = written /\ told' = told /\ tx' = [tx EXCEPT ![dst] = t]
  BY DEF BeginCopy
<1>2. t.rows = rows[dst] /\ t.touched = {} /\ t.ids = <<>>
  BY DEF Draft
<1>3. Len(rows[dst]) \in Nat
  BY DEF Inv, TypeOK
<1> HIDE DEF t
<1>4. Len(rows[dst]) + 1 .. Len(t.rows) = {} /\ 1..Len(t.ids) = {}
  BY <1>2, <1>3
<1>5. IsReading(t, rows[dst])
  BY <1>2, <1>4 DEF IsReading
<1> QED BY <1>1, <1>5, CopyStepForked

LEMMA AbandonForked ==
  ASSUME Inv, Forked, NEW dst \in Files, AbandonCopy(dst)
  PROVE  Forked'
<1>1. rows' = rows /\ written' = written /\ told' = told /\ tx' = [tx EXCEPT ![dst] = Idle]
  BY DEF AbandonCopy
<1>2. Idle.from = NoFile
  BY DEF Idle, Draft
<1> QED BY <1>1, <1>2, CopyStepForked

LEMMA HeldForked ==
  ASSUME Inv, Forked, NEW dst \in Files, CopyHeld(dst)
  PROVE  Forked'
<1> DEFINE t == tx[dst]
           e == rows[t.from]
<1>1. t \in Copying /\ t.from \in Files /\ e \in Seq(Revision) /\ written \in Seq(Minted)
      /\ Len(t.ids) < t.upto /\ t.from # NoFile /\ rows[dst] \in Seq(Revision)
  BY DEF CopyHeld, Reading, Inv, TypeOK, Copying
<1>2. IsSound(t, rows[dst], e, written) /\ IsReading(t, rows[dst]) /\ IsTrueTable(e, written)
  BY <1>1 DEF Inv, CopiesAreSound, Forked, HistoryIsTrue
<1>3. PICK i \in 1..Len(t.rows) :
        /\ Holds(t.rows, e[Len(t.ids) + 1].uuid, i)
        /\ tx' = [tx EXCEPT ![dst].ids = Append(@, i)]
  BY DEF CopyHeld, NextRow, HeldId
<1>4. PICK u : u = [t EXCEPT !.ids = Append(@, i)]
  OBVIOUS
<1>5. tx' = [tx EXCEPT ![dst] = u]
  BY <1>3, <1>4
<1> HIDE DEF t, e
<1>6. u.rows = t.rows /\ u.ids = Append(t.ids, i) /\ u.touched = t.touched
      /\ u.before = t.before
  BY <1>1, <1>4 DEF Copying
<1>7. IsReading(u, rows[dst])
  BY <1>1, <1>2, <1>3, <1>6, HeldReading
<1>8. rows' = rows /\ written' = written /\ told' = told
  BY DEF CopyHeld
<1> QED BY <1>5, <1>7, <1>8, CopyStepForked

\* Of a row that is copied: the draft it is added to.
LEMMA RowForked ==
  ASSUME Inv, Forked, NEW dst \in Files, CopyRow(dst)
  PROVE  Forked'
<1> DEFINE t == tx[dst]
           e == rows[t.from]
           k == Len(t.ids) + 1
           r == [e[k] EXCEPT !.supersedes = IF @ = 0 THEN 0 ELSE t.ids[@]]
<1>1. t \in Copying /\ t.from \in Files /\ e \in Seq(Revision) /\ written \in Seq(Minted)
      /\ Len(t.ids) < t.upto /\ t.from # NoFile /\ rows[dst] \in Seq(Revision)
  BY DEF CopyRow, Reading, Inv, TypeOK, Copying
<1>2. IsSound(t, rows[dst], e, written) /\ IsReading(t, rows[dst]) /\ IsTrueTable(e, written)
  BY <1>1 DEF Inv, CopiesAreSound, Forked, HistoryIsTrue
<1>3. \A i \in 1..Len(t.rows) : ~ Holds(t.rows, e[k].uuid, i)
  BY DEF CopyRow, NextRow
<1>4. PICK head \in 0..Len(t.rows) :
        /\ IsHead(t.rows, e[k].name, head)
        /\ tx' = [tx EXCEPT ![dst] =
             [t EXCEPT !.rows = Append(@, r), !.ids = Append(@, Len(t.rows) + 1),
                       !.before = [@ EXCEPT ![e[k].name] = Baseline(t, e[k].name, head)],
                       !.touched = @ \cup {e[k].name}]]
  BY DEF CopyRow, NextRow
<1>5. PICK u :
        u = [t EXCEPT !.rows = Append(@, r), !.ids = Append(@, Len(t.rows) + 1),
                      !.before = [@ EXCEPT ![e[k].name] = Baseline(t, e[k].name, head)],
                      !.touched = @ \cup {e[k].name}]
  OBVIOUS
<1>6. tx' = [tx EXCEPT ![dst] = u]
  BY <1>4, <1>5
<1>7. k \in 1..Len(e) /\ Len(t.ids) = k - 1 /\ e[k] \in Revision
  <2>1. t.upto <= Len(e) /\ t.upto \in Nat /\ t.ids \in Seq(Nat)
    BY <1>1, <1>2 DEF IsSound, Copying
  <2> HIDE DEF t, e
  <2>2. Len(e) \in Nat /\ Len(t.ids) \in Nat
    BY <1>1, <2>1
  <2>3. k \in 1..Len(e) /\ Len(t.ids) = k - 1
    BY <1>1, <2>1, <2>2
  <2> QED BY <1>1, <2>3
<1>8. r \in Revision
  <2>1. /\ \A j \in 1..Len(t.ids) : Holds(t.rows, e[j].uuid, t.ids[j])
        /\ IsTrueTable(t.rows, written) /\ t.rows \in Seq(Revision) /\ t.ids \in Seq(Nat)
    BY <1>1, <1>2 DEF IsSound, Copying
  <2> HIDE DEF t, e, k
  <2> QED BY <1>1, <1>2, <1>3, <1>7, <2>1, CopiedRow
<1>9. r.name = e[k].name
  <2> HIDE DEF t, e, k
  <2> QED BY <1>7 DEF Revision
<1> HIDE DEF t, e, k, r
<1>10. /\ u.rows = Append(t.rows, r) /\ u.ids = Append(t.ids, Len(t.rows) + 1)
       /\ u.touched = t.touched \cup {r.name}
       /\ u.before = [t.before EXCEPT ![r.name] = Baseline(t, r.name, head)]
  BY <1>1, <1>5, <1>9 DEF Copying
<1>11. IsHead(t.rows, r.name, head)
  BY <1>4, <1>9
<1>12. IsReading(u, rows[dst])
  BY <1>1, <1>2, <1>8, <1>10, <1>11, RowReading
<1>13. rows' = rows /\ written' = written /\ told' = told
  BY DEF CopyRow
<1> QED BY <1>6, <1>12, <1>13, CopyStepForked

\* Of a commit: the table that becomes the file's.
LEMMA Committed ==
  ASSUME Inv, Forked, NEW dst \in Files, CommitCopy(dst)
  PROVE  /\ tx[dst] \in Copying /\ tx[dst].from \in Files
         /\ rows[dst] \in Seq(Revision) /\ tx[dst].rows \in Seq(Revision)
         /\ rows[tx[dst].from] \in Seq(Revision)
         /\ IsSound(tx[dst], rows[dst], rows[tx[dst].from], written)
         /\ IsReading(tx[dst], rows[dst])
         /\ Len(tx[dst].ids) = tx[dst].upto
         /\ rows'[dst] = tx[dst].rows
         /\ \A g \in Files : g # dst => rows'[g] = rows[g]
         /\ written' = written /\ tx'[dst] = Idle
         /\ \A g \in Files : g # dst => tx'[g] = tx[g]
<1>1. TypeOK /\ CopiesAreSound
  BY DEF Inv
<1>2. tx[dst].from # NoFile /\ tx[dst] \in Copying
  BY <1>1 DEF CommitCopy, TypeOK
<1>3. /\ tx[dst].from \in Files
      /\ rows[dst] \in Seq(Revision) /\ tx[dst].rows \in Seq(Revision)
  BY <1>1, <1>2 DEF TypeOK, Copying
<1>4. IsSound(tx[dst], rows[dst], rows[tx[dst].from], written) /\ IsReading(tx[dst], rows[dst])
  BY <1>1, <1>2 DEF CopiesAreSound, Forked
<1>5. /\ Len(tx[dst].ids) = tx[dst].upto
      /\ rows' = [rows EXCEPT ![dst] = tx[dst].rows] /\ tx' = [tx EXCEPT ![dst] = Idle]
      /\ written' = written
  BY DEF CommitCopy
<1> QED BY <1>1, <1>2, <1>3, <1>4, <1>5 DEF TypeOK

LEMMA CommitForked ==
  ASSUME Inv, Forked, NEW dst \in Files, CommitCopy(dst)
  PROVE  Forked'
<1> DEFINE t == tx[dst]
           d == rows[dst]
<1>1. /\ t \in Copying /\ d \in Seq(Revision) /\ t.rows \in Seq(Revision)
      /\ IsSound(t, d, rows[t.from], written) /\ IsReading(t, d)
      /\ rows'[dst] = t.rows /\ \A g \in Files : g # dst => rows'[g] = rows[g]
      /\ written' = written /\ tx'[dst] = Idle
      /\ \A g \in Files : g # dst => tx'[g] = tx[g]
  BY Committed
<1>2. Extended(d, t.rows)
  BY <1>1 DEF IsSound
<1>3. Idle.from = NoFile
  BY DEF Idle, Draft
<1>4. \A f \in Files : tx'[f].from # NoFile => IsReading(tx'[f], rows'[f])
  BY <1>1, <1>3 DEF Forked
<1>5. ASSUME NEW f \in Files, NEW u \in Nat, <<f, u>> \in told' PROVE IsPast(f, u)'
  <2>1. CASE <<f, u>> \in told
    <3>1. IsPast(f, u)
      BY <2>1 DEF Forked
    <3>2. rows[f] \in Seq(Revision)
      BY DEF Inv, TypeOK
    <3>3. CASE f = dst
      BY <1>1, <1>2, <3>1, <3>2, <3>3, PastStays
    <3>4. CASE f # dst
      BY <1>1, <3>1, <3>4 DEF IsPast
    <3> QED BY <3>3, <3>4
  <2>2. CASE <<f, u>> \notin told
    <3>1. PICK n \in t.touched :
            t.before[n] # 0 /\ f = dst /\ u = t.rows[t.before[n]].uuid
      BY <1>5, <2>2 DEF CommitCopy
    <3>2. PICK i : i = t.before[n]
      OBVIOUS
    <3>3. IsHead(d, n, i) /\ n \in Names
      BY <1>1, <3>1, <3>2 DEF IsReading, Copying
    <3>4. i \in 1..Len(d) /\ d[i].name = n
      BY <3>1, <3>2, <3>3 DEF IsHead, Of
    <3>5. PICK j \in Len(d) + 1 .. Len(t.rows) : t.rows[j].name = n
      BY <1>1, <3>1, <3>3 DEF IsReading
    <3> HIDE DEF t, d
    <3>6. i \in 1..Len(t.rows) /\ j \in 1..Len(t.rows) /\ i < j /\ t.rows[i] = d[i]
      <4>1. Len(d) \in Nat /\ Len(t.rows) \in Nat /\ Len(d) <= Len(t.rows)
        BY <1>1, <1>2 DEF Extended
      <4> QED BY <1>2, <3>4, <4>1 DEF Extended
    <3>7. rows'[f] = t.rows /\ t.rows[i].uuid = u /\ t.rows[i].name = t.rows[j].name
      BY <1>1, <3>1, <3>2, <3>4, <3>5, <3>6
    <3> QED BY <3>6, <3>7 DEF IsPast
  <2> QED BY <2>1, <2>2
<1> QED BY <1>1, <1>4, <1>5 DEF Forked

LEMMA NextForked == Inv /\ Forked /\ [Next]_vars => Forked'
<1> SUFFICES ASSUME Inv, Forked, [Next]_vars PROVE Forked'
  OBVIOUS
<1>1. ASSUME NEW f \in Files, NEW n \in Names,
             PutDocument(f, n) \/ DeleteDocument(f, n)
      PROVE  Forked'
  BY <1>1, InsertForked DEF PutDocument, DeleteDocument
<1>2. ASSUME NEW f \in Files, NEW n \in Names, NEW u \in 0..Len(written),
             PutDocumentIfCurrent(f, n, u)
      PROVE  Forked'
  BY <1>2, InsertForked DEF PutDocumentIfCurrent
<1>3. ASSUME NEW src \in Files, NEW dst \in Files, BeginCopy(src, dst)
      PROVE  Forked'
  BY <1>3, BeginForked
<1>4. ASSUME NEW dst \in Files,
             CopyHeld(dst) \/ CopyRow(dst) \/ CommitCopy(dst) \/ AbandonCopy(dst)
      PROVE  Forked'
  BY <1>4, HeldForked, RowForked, CommitForked, AbandonForked
<1>5. CASE UNCHANGED vars
  BY <1>5 DEF vars, Forked, IsPast
<1> QED BY <1>1, <1>2, <1>3, <1>4, <1>5 DEF Next

-----------------------------------------------------------------------------
(***************************************************************************)
(* Forks.                                                                  *)
(***************************************************************************)

\* Nobody was told that a head was displaced.
LEMMA HeadNotTold ==
  ASSUME Inv, Forked, NEW f \in Files, NEW n, NEW i \in 1..Len(rows[f]),
         IsHead(rows[f], n, i)
  PROVE  <<f, rows[f][i].uuid>> \notin told
<1> SUFFICES ASSUME <<f, rows[f][i].uuid>> \in told PROVE FALSE
  OBVIOUS
<1>1. rows[f] \in Seq(Revision) /\ IsTrueTable(rows[f], written)
  BY DEF Inv, TypeOK, HistoryIsTrue
<1>2. rows[f][i].uuid \in Nat
  <2>1. rows[f][i] \in Revision
    BY <1>1
  <2> QED BY <2>1 DEF Revision
<1>3. PICK k \in 1..Len(rows[f]), j \in 1..Len(rows[f]) :
        /\ k < j /\ rows[f][k].uuid = rows[f][i].uuid
        /\ rows[f][k].name = rows[f][j].name
  BY <1>2 DEF Forked, IsPast
<1>4. k = i
  BY <1>1, <1>3 DEF IsTrueTable
<1>5. rows[f][i].name = n
  BY DEF IsHead, Of
<1>6. j \in Of(rows[f], n)
  BY <1>3, <1>4, <1>5 DEF Of
<1> QED BY <1>3, <1>4, <1>6 DEF IsHead

\* A head that is there, by its id.
LEMMA HeadId ==
  ASSUME NEW d \in Seq(Revision), NEW n, NEW b \in Heads(d, n) \ {0}
  PROVE  \E i \in 1..Len(d) : IsHead(d, n, i) /\ b = d[i].uuid /\ d[i].name = n
<1>1. PICK i \in 0..Len(d) : IsHead(d, n, i) /\ b = UuidAt(d, i)
  BY HeadsAre
<1>2. i # 0
  BY <1>1 DEF UuidAt
<1> QED BY <1>1, <1>2 DEF UuidAt, IsHead, Of

\* An insert makes a head of what descends from the head before.
LEMMA InsertedHead ==
  ASSUME NEW d \in Seq(Revision), NEW r \in Revision, NEW n
  PROVE  /\ r.name = n => /\ IsHead(Append(d, r), n, Len(d) + 1)
                          /\ Heads(Append(d, r), n) = {r.uuid}
         /\ r.name # n => Heads(Append(d, r), n) = Heads(d, n)
<1> DEFINE e == Append(d, r)
<1>1. /\ e \in Seq(Revision) /\ Extended(d, e) /\ Len(e) = Len(d) + 1
      /\ e[Len(d) + 1] = r /\ Len(d) \in Nat
  BY AppendExtends
<1> HIDE DEF e
<1>2. ASSUME r.name = n
      PROVE  IsHead(e, n, Len(d) + 1) /\ Heads(e, n) = {r.uuid}
  <2>1. Len(d) + 1 \in 1..Len(e)
    BY <1>1
  <2>2. Len(d) + 1 \in Of(e, n) /\ \A j \in Of(e, n) : j <= Len(d) + 1
    BY <1>1, <1>2, <2>1 DEF Of
  <2>3. IsHead(e, n, Len(d) + 1)
    BY <2>2 DEF IsHead
  <2>4. Len(d) + 1 \in 0..Len(e) /\ UuidAt(e, Len(d) + 1) = r.uuid
    BY <1>1, <2>1 DEF UuidAt
  <2>5. \A h : h \in Heads(e, n) <=> h = r.uuid
    BY <1>1, <2>3, <2>4, HeadsAre, HeadIsOne
  <2> QED BY <2>3, <2>5
<1>3. ASSUME r.name # n PROVE Heads(e, n) = Heads(d, n)
  <2>1. \A i \in Len(d) + 1 .. Len(e) : i = Len(d) + 1
    BY <1>1
  <2>2. \A i \in Len(d) + 1 .. Len(e) : e[i].name # n
    BY <1>1, <1>3, <2>1
  <2> QED BY <1>1, <2>2, HeadStays
<1> QED BY <1>2, <1>3 DEF e

IsTrueFork(f, b, c) ==
  (<<f, b>> \in told') <=>
     (/\ b \notin Ancestors(c)'
      /\ ~ written[b].deleted \/ Ancestors(c)' \cap Uuids(f) # {})

LEMMA InsertForks ==
  ASSUME Inv, Forked, NEW f \in Files, NEW n \in Names, NEW deleted \in BOOLEAN,
         NEW head \in 0..Len(rows[f]), IsHead(rows[f], n, head), Insert(f, n, deleted, head),
         NEW g \in Files, rows'[g] # rows[g],
         NEW o \in Names, NEW b \in Heads(rows[g], o) \ {0}, NEW c \in Heads(rows'[g], o),
         c # b
  PROVE  IsTrueFork(g, b, c)
<1>1. PICK m \in Minted, r \in Revision :
        /\ m = [name |-> n, deleted |-> deleted, onto |-> UuidAt(rows[f], head)]
        /\ r.uuid = Len(written) + 1 /\ r.name = n
        /\ m.onto \in 0..Len(written)
        /\ written' = Append(written, m)
        /\ rows'[f] = Append(rows[f], r)
        /\ \A h \in Files : h # f => rows'[h] = rows[h]
        /\ told' = told
  BY Inserted
<1>2. g = f
  BY <1>1
<1>3. rows[f] \in Seq(Revision) /\ written \in Seq(Minted) /\ MintedInOrder(written)
  BY DEF Inv, TypeOK, Forked
<1>4. o = n /\ c = Len(written) + 1
  <2>1. /\ r.name = o => Heads(rows'[f], o) = {r.uuid}
        /\ r.name # o => Heads(rows'[f], o) = Heads(rows[f], o)
    <3>1. /\ r.name = o => /\ IsHead(Append(rows[f], r), o, Len(rows[f]) + 1)
                            /\ Heads(Append(rows[f], r), o) = {r.uuid}
          /\ r.name # o => Heads(Append(rows[f], r), o) = Heads(rows[f], o)
      BY <1>3, InsertedHead
    <3> QED BY <1>1, <3>1
  <2>2. CASE o = n
    BY <1>1, <1>2, <2>1, <2>2
  <2>3. CASE o # n
    <3>1. c \in Heads(rows[f], o)
      BY <1>1, <1>2, <2>1, <2>3
    <3>2. PICK i \in 0..Len(rows[f]), j \in 0..Len(rows[f]) :
            /\ IsHead(rows[f], o, i) /\ b = UuidAt(rows[f], i)
            /\ IsHead(rows[f], o, j) /\ c = UuidAt(rows[f], j)
      BY <1>2, <1>3, <3>1, HeadsAre
    <3>3. i = j
      BY <1>3, <3>2, HeadIsOne
    <3> QED BY <3>2, <3>3
  <2> QED BY <2>2, <2>3
<1>5. PICK i \in 1..Len(rows[f]) : IsHead(rows[f], n, i) /\ b = rows[f][i].uuid
  <2>1. b \in Heads(rows[f], n) \ {0}
    BY <1>2, <1>4
  <2> QED BY <1>3, <2>1, HeadId
<1>6. i = head
  <2>1. i \in 0..Len(rows[f])
    OBVIOUS
  <2> QED BY <1>3, <1>5, <2>1, HeadIsOne
<1>7. m.onto = b
  BY <1>1, <1>5, <1>6 DEF UuidAt
<1>8. AncestorsIn(written', c) = {c} \cup AncestorsIn(written, b)
  BY <1>1, <1>3, <1>4, <1>7, AncestorsGrow
<1>9. b \in AncestorsIn(written, b)
  <2>1. b \in 1..Len(written)
    BY <1>5, TrueGoesDown DEF Inv, TypeOK, HistoryIsTrue
  <2> QED BY <1>3, <2>1, AncestorsAre
<1>10. b \in Ancestors(c)'
  BY <1>8, <1>9, AncestorsHere
<1>11. <<g, b>> \notin told'
  BY <1>1, <1>2, <1>5, HeadNotTold
<1> QED BY <1>10, <1>11 DEF IsTrueFork

\* A commit makes a head of the last row it copied: what it descends from in
\* the draft is what it descends from.
LEMMA CommitForks ==
  ASSUME Inv, Forked, NEW dst \in Files, CommitCopy(dst),
         NEW g \in Files, rows'[g] # rows[g],
         NEW n \in Names, NEW b \in Heads(rows[g], n) \ {0}, NEW c \in Heads(rows'[g], n),
         c # b
  PROVE  IsTrueFork(g, b, c)
<1> DEFINE t == tx[dst]
           d == rows[dst]
           e == t.rows
           w == written
<1>1. /\ t \in Copying /\ d \in Seq(Revision) /\ e \in Seq(Revision)
      /\ IsSound(t, d, rows[t.from], w) /\ IsReading(t, d)
      /\ rows'[dst] = e /\ \A h \in Files : h # dst => rows'[h] = rows[h]
      /\ written' = w
  BY Committed
<1>2. g = dst
  BY <1>1
<1>3. /\ w \in Seq(Minted) /\ MintedInOrder(w) /\ IsTrueTable(d, w) /\ IsTrueTable(e, w)
      /\ Extended(d, e) /\ Len(d) \in Nat /\ Len(e) \in Nat /\ Len(d) <= Len(e)
  <2>1. w \in Seq(Minted) /\ MintedInOrder(w) /\ IsTrueTable(d, w)
    BY DEF Inv, TypeOK, HistoryIsTrue, Forked
  <2>2. IsTrueTable(e, w) /\ Extended(d, e)
    BY <1>1 DEF IsSound
  <2> QED BY <1>1, <2>1, <2>2 DEF Extended
<1>4. PICK i \in 1..Len(d) : IsHead(d, n, i) /\ b = d[i].uuid /\ d[i].name = n
  <2>1. b \in Heads(d, n) \ {0}
    BY <1>2
  <2> HIDE DEF d
  <2> QED BY <1>1, <2>1, HeadId
<1> HIDE DEF t, d, e, w
<1>5. i \in 1..Len(e) /\ e[i] = d[i]
  BY <1>3 DEF Extended
<1>6. PICK last \in 0..Len(e) : IsHead(e, n, last) /\ c = UuidAt(e, last)
  <2>1. c \in Heads(e, n)
    BY <1>1, <1>2
  <2> QED BY <1>1, <2>1, HeadsAre
<1>7. last \in 1..Len(e) /\ c = e[last].uuid
  <2>1. i \in Of(e, n)
    BY <1>4, <1>5 DEF Of
  <2>2. last # 0
    BY <1>6, <2>1 DEF IsHead
  <2> QED BY <1>6, <2>2 DEF UuidAt
<1>8. n \in t.touched /\ t.before[n] = i
  <2>1. n \in t.touched
    <3> SUFFICES ASSUME n \notin t.touched PROVE FALSE
      OBVIOUS
    <3>1. \A j \in Len(d) + 1 .. Len(e) : e[j].name # n
      BY <1>1 DEF IsReading, e
    <3>2. IsHead(e, n, i)
      BY <1>1, <1>3, <1>4, <3>1, HeadStays
    <3>3. i \in 0..Len(e)
      BY <1>5
    <3>4. i = last
      BY <1>1, <1>6, <3>2, <3>3, HeadIsOne
    <3> QED BY <1>4, <1>5, <1>7, <3>4
  <2>2. IsHead(d, n, t.before[n])
    BY <1>1, <2>1 DEF IsReading
  <2>3. PICK k : k = t.before[n]
    OBVIOUS
  <2>4. k \in 0..Len(d) /\ i \in 0..Len(d)
    BY <2>2, <2>3 DEF IsHead, Of
  <2>5. k = i
    BY <1>1, <1>4, <2>2, <2>3, <2>4, HeadIsOne
  <2> QED BY <2>1, <2>3, <2>5
<1>9. <<g, b>> \in told' <=> Forks(e, last, i, Len(d) + 1)
  <2>1. <<g, b>> \notin told
    BY <1>2, <1>4, HeadNotTold DEF d
  <2>2. told' = told \cup
          {<<dst, e[t.before[o]].uuid>> : o \in
             {m \in t.touched :
                /\ t.before[m] # 0
                /\ \E l \in 1..Len(e) :
                     IsHead(e, m, l) /\ Forks(e, l, t.before[m], Len(d) + 1)}}
    BY DEF CommitCopy, t, d, e
  <2>3. ASSUME Forks(e, last, i, Len(d) + 1) PROVE <<g, b>> \in told'
    <3>1. t.before[n] # 0 /\ e[t.before[n]].uuid = b
      BY <1>4, <1>5, <1>8
    <3>2. \E l \in 1..Len(e) : IsHead(e, n, l) /\ Forks(e, l, t.before[n], Len(d) + 1)
      BY <1>6, <1>7, <1>8, <2>3
    <3> QED BY <1>2, <1>8, <2>2, <3>1, <3>2
  <2>4. ASSUME <<g, b>> \in told' PROVE Forks(e, last, i, Len(d) + 1)
    <3>1. PICK o \in t.touched, l \in 1..Len(e) :
            /\ t.before[o] # 0 /\ b = e[t.before[o]].uuid
            /\ IsHead(e, o, l) /\ Forks(e, l, t.before[o], Len(d) + 1)
      BY <2>1, <2>2, <2>4
    <3>2. PICK k : k = t.before[o]
      OBVIOUS
    <3>3. IsHead(d, o, k)
      BY <1>1, <3>1, <3>2 DEF IsReading
    <3>4. k \in 1..Len(d) /\ d[k].name = o
      BY <3>1, <3>2, <3>3 DEF IsHead, Of
    <3>5. k \in 1..Len(e) /\ e[k].uuid = e[i].uuid /\ e[k] = d[k]
      BY <1>3, <1>4, <1>5, <3>1, <3>2, <3>4 DEF Extended
    <3>6. k = i
      BY <1>3, <1>5, <3>5 DEF IsTrueTable
    <3>7. o = n
      BY <1>4, <3>4, <3>6
    <3>8. l = last
      <4>1. l \in 0..Len(e) /\ IsHead(e, n, l)
        BY <3>1, <3>7
      <4> QED BY <1>1, <1>6, <4>1, HeadIsOne
    <3> QED BY <3>1, <3>2, <3>6, <3>8
  <2> QED BY <2>3, <2>4
<1>10. /\ Chain(e, last) \subseteq 1..last
       /\ \A j \in Chain(e, last) : e[j].uuid \in AncestorsIn(w, e[last].uuid)
       /\ \A v \in AncestorsIn(w, e[last].uuid) : \E j \in Chain(e, last) : e[j].uuid = v
  BY <1>1, <1>3, <1>7, ChainIsAncestry
<1>11. Ancestors(c)' = AncestorsIn(w, e[last].uuid)
  BY <1>1, <1>7, AncestorsHere
<1>12. i \in Chain(e, last) <=> b \in Ancestors(c)'
  <2>1. i \in Chain(e, last) => b \in Ancestors(c)'
    BY <1>4, <1>5, <1>10, <1>11
  <2>2. ASSUME b \in Ancestors(c)' PROVE i \in Chain(e, last)
    <3>1. PICK j \in Chain(e, last) : e[j].uuid = b
      BY <1>10, <1>11, <2>2
    <3>2. j \in 1..Len(e)
      BY <1>3, <1>7, <1>10
    <3>3. j = i
      BY <1>3, <1>4, <1>5, <3>1, <3>2 DEF IsTrueTable
    <3> QED BY <3>3
  <2> QED BY <2>1, <2>2
<1>13. (\E k \in Chain(e, last) : k < Len(d) + 1) <=> Ancestors(c)' \cap Uuids(g) # {}
  <2>0. Uuids(g) = {d[k].uuid : k \in 1..Len(d)}
    BY <1>2 DEF Uuids, d
  <2>1. ASSUME NEW k \in Chain(e, last), k < Len(d) + 1
        PROVE  Ancestors(c)' \cap Uuids(g) # {}
    <3>1. k \in 1..Len(d)
      BY <1>3, <1>7, <1>10, <2>1
    <3>2. e[k] = d[k]
      BY <1>3, <3>1 DEF Extended
    <3>3. d[k].uuid \in Uuids(g)
      BY <2>0, <3>1
    <3>4. e[k].uuid \in Ancestors(c)'
      BY <1>10, <1>11
    <3> QED BY <3>2, <3>3, <3>4
  <2>2. ASSUME NEW v \in Ancestors(c)', v \in Uuids(g)
        PROVE  \E k \in Chain(e, last) : k < Len(d) + 1
    <3>1. PICK k \in 1..Len(d) : v = d[k].uuid
      BY <2>0, <2>2
    <3>2. k \in 1..Len(e) /\ e[k].uuid = v
      BY <1>3, <3>1 DEF Extended
    <3>3. PICK j \in Chain(e, last) : e[j].uuid = v
      BY <1>10, <1>11, <2>2
    <3>4. j \in 1..Len(e)
      BY <1>3, <1>7, <1>10
    <3>5. j = k
      BY <1>3, <3>2, <3>3, <3>4 DEF IsTrueTable
    <3>6. k < Len(d) + 1
      BY <1>3
    <3> QED BY <3>5, <3>6
  <2> QED BY <2>1, <2>2
<1>14. written[b].deleted = e[i].deleted
  BY <1>3, <1>4, <1>5 DEF IsTrueTable, IsTrueRow, w
<1> QED BY <1>9, <1>12, <1>13, <1>14 DEF IsTrueFork, Forks

LEMMA NextForks ==
  ASSUME Inv, Forked, [Next]_vars,
         NEW g \in Files, rows'[g] # rows[g],
         NEW o \in Names, NEW b \in Heads(rows[g], o) \ {0}, NEW c \in Heads(rows'[g], o),
         c # b
  PROVE  IsTrueFork(g, b, c)
<1>1. ASSUME NEW f \in Files, NEW n \in Names,
             PutDocument(f, n) \/ DeleteDocument(f, n)
      PROVE  IsTrueFork(g, b, c)
  BY <1>1, InsertForks DEF PutDocument, DeleteDocument
<1>2. ASSUME NEW f \in Files, NEW n \in Names, NEW u \in 0..Len(written),
             PutDocumentIfCurrent(f, n, u)
      PROVE  IsTrueFork(g, b, c)
  BY <1>2, InsertForks DEF PutDocumentIfCurrent
<1>3. ASSUME NEW src \in Files, NEW dst \in Files, BeginCopy(src, dst)
      PROVE  IsTrueFork(g, b, c)
  BY <1>3 DEF BeginCopy
<1>4. ASSUME NEW dst \in Files, CopyHeld(dst) \/ CopyRow(dst) \/ AbandonCopy(dst)
      PROVE  IsTrueFork(g, b, c)
  BY <1>4 DEF CopyHeld, CopyRow, AbandonCopy
<1>5. ASSUME NEW dst \in Files, CommitCopy(dst)
      PROVE  IsTrueFork(g, b, c)
  BY <1>5, CommitForks
<1>6. CASE UNCHANGED vars
  BY <1>6 DEF vars
<1> QED BY <1>1, <1>2, <1>3, <1>4, <1>5, <1>6 DEF Next

(***************************************************************************)
(* ForksAreTrue for any number of files, documents, revisions and copies   *)
(* under way: copy_documents reports a fork exactly when a file's newest   *)
(* revision is replaced by one that does not descend from it, a deletion   *)
(* excepted whose document came from elsewhere altogether, also while the  *)
(* source is written or copied into.                                       *)
(***************************************************************************)
THEOREM ForksAreReported == Spec => ForksAreTrue
<1>1. ASSUME Inv, Forked, [Next]_vars
      PROVE  [\A f \in {g \in Files : rows'[g] # rows[g]}, n \in Names :
                \A b \in Heads(rows[f], n) \ {0}, c \in Heads(rows'[f], n) :
                  c # b =>
                    ((<<f, b>> \in told') <=>
                       (/\ b \notin Ancestors(c)'
                        /\ ~ written[b].deleted \/ Ancestors(c)' \cap Uuids(f) # {}))]_vars
  BY <1>1, NextForks DEF IsTrueFork
<1> QED BY <1>1, InitSound, NextSound, InitForked, NextForked, PTL DEF Spec, ForksAreTrue

-----------------------------------------------------------------------------
(***************************************************************************)
(* Nothing is lost: neither when a revision is minted, nor when a file     *)
(* hears of a fork, is a body lost that was not.                           *)
(***************************************************************************)
LEMMA LosslessMinted ==
  ASSUME NEW d \in Seq(Revision), NEW w \in Seq(Minted), NEW m \in Minted, NEW tl,
         MintedInOrder(w), m.onto \in 0..Len(w), IsTrueTable(d, w),
         \A t \in tl : t[2] \in 0..Len(w),
         Lossless(d, w, tl)
  PROVE  Lossless(d, Append(w, m), tl)
<1> DEFINE v == Append(w, m)
<1>1. \A u \in 0..Len(w) : AncestorsIn(v, u) = AncestorsIn(w, u)
  BY AncestorsGrow
<1>2. \A u \in 1..Len(w) : v[u] = w[u]
  OBVIOUS
<1>3. \A u \in UuidsOf(d) : u \in 1..Len(w) /\ u \in 0..Len(w)
  <2>1. \A i \in 1..Len(d) : d[i].uuid \in 1..Len(w)
    BY TrueGoesDown
  <2> QED BY <2>1 DEF UuidsOf
<1>4. ASSUME NEW n, NEW h \in Heads(d, n) PROVE h \in 0..Len(w)
  <2>1. PICK i \in 0..Len(d) : h = UuidAt(d, i)
    BY HeadsAre
  <2>2. CASE i = 0
    BY <2>1, <2>2 DEF UuidAt
  <2>3. CASE i # 0
    <3>1. i \in 1..Len(d)
      BY <2>3
    <3>2. h = d[i].uuid
      BY <2>1, <2>3 DEF UuidAt
    <3>3. h \in UuidsOf(d)
      BY <3>1, <3>2 DEF UuidsOf
    <3> QED BY <1>3, <3>3
  <2> QED BY <2>2, <2>3
<1> HIDE DEF v
<1>5. ASSUME NEW n \in Names, NEW u \in UuidsOf(d), ~ v[u].deleted, v[u].name = n
      PROVE  Seen(d, n, v, tl, u)
  <2>1. Seen(d, n, w, tl, u)
    BY <1>2, <1>3, <1>5 DEF Lossless
  <2>2. CASE \E h \in Heads(d, n) : u \in AncestorsIn(w, h)
    BY <1>1, <1>4, <2>2 DEF Seen
  <2>3. CASE \E x \in UuidsOf(d) : w[x].deleted /\ u \in AncestorsIn(w, x)
    BY <1>1, <1>2, <1>3, <2>3 DEF Seen
  <2>4. CASE \E t \in tl : u \in AncestorsIn(w, t[2])
    BY <1>1, <2>4 DEF Seen
  <2> QED BY <2>1, <2>2, <2>3, <2>4 DEF Seen
<1> QED BY <1>5 DEF Lossless, v

LEMMA LosslessTold ==
  ASSUME NEW d, NEW w, NEW tl, NEW tm, tl \subseteq tm, Lossless(d, w, tl)
  PROVE  Lossless(d, w, tm)
BY DEF Lossless, Seen

\* Nor by an insert: it goes onto the head there was.
LEMMA LosslessInserted ==
  ASSUME NEW d \in Seq(Revision), NEW w \in Seq(Minted), NEW m \in Minted, NEW r \in Revision,
         NEW tl, MintedInOrder(w), IsTrueTable(d, w),
         \A t \in tl : t[2] \in 0..Len(w),
         NEW head \in 0..Len(d), IsHead(d, m.name, head), m.onto = UuidAt(d, head),
         m.onto \in 0..Len(w), r.uuid = Len(w) + 1, r.name = m.name,
         Lossless(d, w, tl)
  PROVE  Lossless(Append(d, r), Append(w, m), tl)
<1> DEFINE v == Append(w, m)
           e == Append(d, r)
<1>1. Lossless(d, v, tl)
  BY LosslessMinted
<1>2. /\ AncestorsIn(v, Len(w) + 1) = {Len(w) + 1} \cup AncestorsIn(w, m.onto)
      /\ AncestorsIn(v, m.onto) = AncestorsIn(w, m.onto)
  BY AncestorsGrow
<1>3. v[Len(w) + 1] = m
  OBVIOUS
<1>4. \A o : /\ r.name = o => Heads(e, o) = {r.uuid}
             /\ r.name # o => Heads(e, o) = Heads(d, o)
  BY InsertedHead
<1>5. \A u : u \in UuidsOf(e) <=> u \in UuidsOf(d) \/ u = r.uuid
  <2>1. Len(e) = Len(d) + 1 /\ e[Len(d) + 1] = r /\ Len(d) \in Nat
    OBVIOUS
  <2>2. \A i \in 1..Len(d) : e[i] = d[i]
    OBVIOUS
  <2> HIDE DEF e
  <2>3. \A i : i \in 1..Len(e) <=> i \in 1..Len(d) \/ i = Len(d) + 1
    BY <2>1
  <2> QED BY <2>1, <2>2, <2>3 DEF UuidsOf
<1> HIDE DEF v, e
<1>6. ASSUME NEW n \in Names, NEW u \in UuidsOf(e), ~ v[u].deleted, v[u].name = n
      PROVE  Seen(e, n, v, tl, u)
  <2>1. CASE u = r.uuid
    <3>1. r.name = n
      BY <1>3, <1>6, <2>1
    <3>2. u \in Heads(e, n) /\ u \in AncestorsIn(v, u)
      BY <1>2, <1>4, <2>1, <3>1
    <3> QED BY <3>2 DEF Seen
  <2>2. CASE u \in UuidsOf(d)
    <3>1. Seen(d, n, v, tl, u)
      BY <1>1, <1>6, <2>2 DEF Lossless
    <3>2. ASSUME NEW h \in Heads(d, n), u \in AncestorsIn(v, h) PROVE Seen(e, n, v, tl, u)
      <4>1. CASE r.name = n
        <5>1. PICK i \in 0..Len(d) : IsHead(d, n, i) /\ h = UuidAt(d, i)
          BY HeadsAre
        <5>2. IsHead(d, n, head)
          BY <4>1
        <5>3. i = head
          BY <5>1, <5>2, HeadIsOne
        <5>4. u \in AncestorsIn(v, r.uuid) /\ r.uuid \in Heads(e, n)
          BY <1>2, <1>4, <3>2, <4>1, <5>1, <5>3
        <5> QED BY <5>4 DEF Seen
      <4>2. CASE r.name # n
        <5>1. h \in Heads(e, n)
          BY <1>4, <4>2
        <5> QED BY <3>2, <5>1 DEF Seen
      <4> QED BY <4>1, <4>2
    <3>3. CASE \E x \in UuidsOf(d) : v[x].deleted /\ u \in AncestorsIn(v, x)
      BY <1>5, <3>3 DEF Seen
    <3>4. CASE \E t \in tl : u \in AncestorsIn(v, t[2])
      BY <3>4 DEF Seen
    <3> QED BY <3>1, <3>2, <3>3, <3>4 DEF Seen
  <2> QED BY <1>5, <2>1, <2>2
<1> QED BY <1>6 DEF Lossless, v, e

\* The newest revision of a document in a source is the newest of what a copy
\* brought, unless it was there already.
LEMMA NewestCopied ==
  ASSUME NEW t \in Copying, NEW d \in Seq(Revision), NEW s \in Seq(Revision), NEW w,
         t.rows \in Seq(Revision), t.ids \in Seq(Nat),
         IsReading(t, d), Extended(d, t.rows), IsTrueTable(t.rows, w), IsTrueTable(s, w),
         Len(t.ids) = Len(s),
         \A k \in 1..Len(s) : Holds(t.rows, s[k].uuid, t.ids[k]),
         NEW n, NEW p \in 1..Len(s), IsHead(s, n, p), t.ids[p] > Len(d)
  PROVE  s[p].uuid \in Heads(t.rows, n)
<1> DEFINE e == t.rows
           q == t.ids[p]
<1>1. Len(d) \in Nat /\ Len(e) \in Nat /\ Len(s) \in Nat /\ Len(d) <= Len(e)
  BY DEF Extended
<1>2. \A k \in 1..Len(s) : t.ids[k] \in 1..Len(e) /\ e[t.ids[k]].uuid = s[k].uuid
  BY DEF Holds
<1>3. /\ \A i, j \in 1..Len(e) : e[i].uuid = e[j].uuid => i = j
      /\ \A i \in 1..Len(e) : e[i].name = w[e[i].uuid].name
      /\ \A i \in 1..Len(s) : s[i].name = w[s[i].uuid].name
  BY DEF IsTrueTable, IsTrueRow
<1>4. q \in 1..Len(e) /\ e[q].uuid = s[p].uuid
  BY <1>2
<1>5. s[p].name = n /\ \A j \in Of(s, n) : j <= p
  BY DEF IsHead, Of
<1> HIDE DEF q, e
<1>6. q \in Of(e, n)
  <2>1. e[q].name = w[e[q].uuid].name /\ s[p].name = w[s[p].uuid].name
    BY <1>3, <1>4 DEF e
  <2>2. e[q].name = n
    BY <1>4, <1>5, <2>1
  <2> QED BY <1>4, <2>2 DEF Of
<1>7. ASSUME NEW j \in Of(e, n) PROVE j <= q
  <2>1. j \in 1..Len(e) /\ e[j].name = n
    BY DEF Of
  <2>2. CASE j \in 1..Len(d)
    BY <1>1, <1>4, <2>2 DEF q
  <2>3. CASE j \in Len(d) + 1 .. Len(e)
    <3>0. \A i \in Len(d) + 1 .. Len(e) : \E l \in 1..Len(t.ids) : t.ids[l] = i
      BY DEF IsReading, e
    <3>1. PICK l \in 1..Len(s) : t.ids[l] = j
      BY <2>3, <3>0
    <3>2. e[j].uuid = s[l].uuid
      BY <1>2, <3>1
    <3>3. l \in Of(s, n)
      <4>1. e[j].name = w[e[j].uuid].name
        BY <1>3, <2>1 DEF e
      <4>2. s[l].name = w[s[l].uuid].name
        BY <1>3
      <4>3. s[l].name = n
        BY <2>1, <3>2, <4>1, <4>2
      <4> QED BY <4>3 DEF Of
    <3>4. CASE l = p
      BY <1>4, <3>1, <3>4 DEF q
    <3>5. CASE l # p
      <4>1. l < p
        BY <1>5, <3>3, <3>5
      <4>2. t.ids[l] > Len(d)
        BY <1>1, <2>3, <3>1
      <4>3. t.ids[l] < t.ids[p]
        BY <4>1, <4>2 DEF IsReading
      <4> QED BY <1>4, <2>1, <3>1, <4>3 DEF q
    <3> QED BY <3>4, <3>5
  <2> QED BY <1>1, <2>1, <2>2, <2>3
<1>8. IsHead(e, n, q)
  BY <1>6, <1>7 DEF IsHead
<1>9. q \in 0..Len(e) /\ UuidAt(e, q) = s[p].uuid
  BY <1>4 DEF UuidAt
<1> QED BY <1>8, <1>9, HeadsAre DEF e

\* A body that comes with a copy was accounted for in its source.
LEMMA BroughtSeen ==
  ASSUME NEW t \in Copying, NEW d \in Seq(Revision), NEW s \in Seq(Revision),
         NEW w \in Seq(Minted), NEW tl,
         t.rows \in Seq(Revision), t.ids \in Seq(Nat), MintedInOrder(w),
         IsReading(t, d), Extended(d, t.rows),
         IsTrueTable(d, w), IsTrueTable(t.rows, w), IsTrueTable(s, w),
         Len(t.ids) = Len(s),
         \A k \in 1..Len(s) : Holds(t.rows, s[k].uuid, t.ids[k]),
         Lossless(s, w, tl),
         NEW n \in Names, NEW k \in Len(d) + 1 .. Len(t.rows),
         ~ w[t.rows[k].uuid].deleted, w[t.rows[k].uuid].name = n
  PROVE  Seen(t.rows, n, w, tl, t.rows[k].uuid)
<1> DEFINE e == t.rows
           u == e[k].uuid
<1>1. Len(d) \in Nat /\ Len(e) \in Nat /\ Len(s) \in Nat /\ Len(d) <= Len(e) /\ k \in 1..Len(e)
      /\ \A i \in 1..Len(d) : e[i] = d[i]
  BY DEF Extended
<1>2. \A l \in 1..Len(s) : t.ids[l] \in 1..Len(e) /\ e[t.ids[l]].uuid = s[l].uuid
  BY DEF Holds
<1>3. \A i, j \in 1..Len(e) : e[i].uuid = e[j].uuid => i = j
  BY DEF IsTrueTable
<1>4. u \in UuidsOf(s)
  <2>1. PICK l \in 1..Len(s) : t.ids[l] = k
    BY DEF IsReading
  <2> QED BY <1>2, <2>1 DEF UuidsOf
<1>5. Seen(s, n, w, tl, u)
  BY <1>4 DEF Lossless
<1>6. UuidsOf(s) \subseteq UuidsOf(e)
  <2> HIDE DEF e
  <2> QED BY <1>2 DEF UuidsOf
<1>7. ASSUME NEW h \in Heads(s, n), u \in AncestorsIn(w, h) PROVE h \in Heads(e, n)
  <2>1. h # 0
    BY <1>7, AncestorsAre
  <2>2. PICK p \in 1..Len(s) : IsHead(s, n, p) /\ h = s[p].uuid
    <3>1. h \in Heads(s, n) \ {0}
      BY <2>1
    <3> QED BY <3>1, HeadId
  <2>3. t.ids[p] > Len(d)
    <3> DEFINE q == t.ids[p]
    <3>1. q \in 1..Len(e) /\ e[q].uuid = h
      BY <1>2, <2>2
    <3> HIDE DEF q
    <3> SUFFICES ASSUME q \in 1..Len(d) PROVE FALSE
      BY <1>1, <3>1 DEF q
    <3>2. d[q].uuid = h
      BY <1>1, <3>1
    <3>3. /\ Chain(d, q) \subseteq 1..q
          /\ \A j \in Chain(d, q) : d[j].uuid \in AncestorsIn(w, d[q].uuid)
          /\ \A v \in AncestorsIn(w, d[q].uuid) : \E j \in Chain(d, q) : d[j].uuid = v
      <4> HIDE DEF e, u
      <4> QED BY ChainIsAncestry
    <3>4. PICK j \in Chain(d, q) : d[j].uuid = u
      BY <1>7, <3>2, <3>3
    <3>5. j \in 1..Len(d)
      <4>1. j \in 1..q
        BY <3>3, <3>4
      <4> QED BY <1>1, <4>1
    <3>6. j \in 1..Len(e) /\ e[j].uuid = e[k].uuid
      <4> HIDE DEF e
      <4>1. j \in 1..Len(e) /\ e[j] = d[j]
        BY <1>1, <3>5
      <4> QED BY <3>4, <4>1
    <3>7. j = k
      BY <1>1, <1>3, <3>6
    <3> QED BY <1>1, <3>5, <3>7
  <2> HIDE DEF e, u
  <2> QED BY <2>2, <2>3, NewestCopied DEF e
<1> HIDE DEF e, u
<1>8. ASSUME \E h \in Heads(s, n) : u \in AncestorsIn(w, h) PROVE Seen(e, n, w, tl, u)
  BY <1>7, <1>8 DEF Seen
<1>9. ASSUME \E x \in UuidsOf(s) : w[x].deleted /\ u \in AncestorsIn(w, x)
      PROVE  Seen(e, n, w, tl, u)
  BY <1>6, <1>9 DEF Seen
<1>10. ASSUME \E x \in tl : u \in AncestorsIn(w, x[2]) PROVE Seen(e, n, w, tl, u)
  BY <1>10 DEF Seen
<1>11. Seen(e, n, w, tl, u)
  BY <1>5, <1>8, <1>9, <1>10 DEF Seen
<1> QED BY <1>11 DEF e, u

LEMMA ToldIsMinted ==
  ASSUME Inv, Forked
  PROVE  \A t \in told : t[2] \in 0..Len(written)
<1> SUFFICES ASSUME NEW t \in told PROVE t[2] \in 0..Len(written)
  OBVIOUS
<1>1. PICK f \in Files, u \in Nat : t = <<f, u>>
  BY DEF Inv, TypeOK
<1>2. PICK i \in 1..Len(rows[f]) : rows[f][i].uuid = u
  BY <1>1 DEF Forked, IsPast
<1>3. u \in 1..Len(written)
  BY <1>2, TrueGoesDown DEF Inv, TypeOK, HistoryIsTrue
<1> QED BY <1>1, <1>3

\* What a file holds when a copy into it commits is accounted for: of its own
\* rows a fork was reported, of the copied ones see above.
LEMMA LosslessCommitted ==
  ASSUME Inv, Forked, NothingLost, NEW dst \in Files, CommitCopy(dst)
  PROVE  Lossless(rows'[dst], written', told')
<1> DEFINE t == tx[dst]
           d == rows[dst]
           e == t.rows
           w == written
<1>1. /\ t \in Copying /\ t.from \in Files /\ d \in Seq(Revision) /\ e \in Seq(Revision)
      /\ rows[t.from] \in Seq(Revision)
      /\ IsSound(t, d, rows[t.from], w) /\ IsReading(t, d)
      /\ Len(t.ids) = t.upto
      /\ rows'[dst] = e
      /\ written' = w
  BY Committed
<1>2. /\ w \in Seq(Minted) /\ MintedInOrder(w) /\ IsTrueTable(d, w) /\ Lossless(d, w, told)
  BY DEF Inv, TypeOK, HistoryIsTrue, Forked, NothingLost
<1>3. /\ IsTrueTable(e, w) /\ Extended(d, e) /\ Len(d) \in Nat /\ Len(e) \in Nat
      /\ Len(d) <= Len(e) /\ \A i \in 1..Len(d) : e[i] = d[i]
  <2>1. IsTrueTable(e, w) /\ Extended(d, e)
    BY <1>1 DEF IsSound
  <2> HIDE DEF d, e
  <2> QED BY <1>1, <2>1 DEF Extended
<1>4. PICK s \in Seq(Revision) :
        /\ Len(s) = t.upto /\ Extended(s, rows[t.from]) /\ IsTrueTable(s, w)
        /\ Lossless(s, w, told)
  <2>1. WasLossless(t, rows[t.from], w, told)
    <3>1. t.from # NoFile
      BY DEF CommitCopy
    <3> QED BY <3>1 DEF NothingLost
  <2> QED BY <2>1 DEF WasLossless
<1>5. Len(t.ids) = Len(s) /\ \A k \in 1..Len(s) : Holds(e, s[k].uuid, t.ids[k])
  <2>1. \A k \in 1..Len(t.ids) : Holds(e, rows[t.from][k].uuid, t.ids[k])
    BY <1>1 DEF IsSound
  <2>2. \A k \in 1..Len(s) : rows[t.from][k] = s[k]
    BY <1>4 DEF Extended
  <2> QED BY <1>1, <1>4, <2>1, <2>2
<1>6. told \subseteq told'
  BY DEF CommitCopy
<1>7. t.ids \in Seq(Nat)
  BY <1>1 DEF Copying
<1>8. \A g, n, b, c : g = dst /\ n \in Names /\ b \in Heads(d, n) \ {0} /\ c \in Heads(e, n)
                        /\ c # b => IsTrueFork(dst, b, c)
  <2> SUFFICES ASSUME NEW n \in Names, NEW b \in Heads(d, n) \ {0}, NEW c \in Heads(e, n), c # b
               PROVE  IsTrueFork(dst, b, c)
    OBVIOUS
  <2>1. rows'[dst] # rows[dst]
    <3> SUFFICES ASSUME e = d PROVE FALSE
      BY <1>1
    <3>1. PICK i \in 0..Len(d), j \in 0..Len(d) :
            IsHead(d, n, i) /\ b = UuidAt(d, i) /\ IsHead(d, n, j) /\ c = UuidAt(d, j)
      BY <1>1, HeadsAre
    <3> HIDE DEF d, e
    <3>2. i = j
      BY <1>1, <3>1, HeadIsOne
    <3> QED BY <3>1, <3>2
  <2> QED BY <1>1, <2>1, CommitForks
<1>9. \A c : Ancestors(c)' = AncestorsIn(w, c)
  BY <1>1, AncestorsHere
<1>10. \A h, n : h \in Heads(d, n) \ {0} => h \in UuidsOf(d)
  <2> HIDE DEF d
  <2> QED BY <1>1, HeadId DEF UuidsOf
<1>11. \A u \in UuidsOf(d) : u \in UuidsOf(e) /\ u \in 1..Len(w) /\ u \in 0..Len(w)
  <2>1. \A i \in 1..Len(d) : d[i].uuid \in 1..Len(w) /\ i \in 1..Len(e)
    <3> HIDE DEF d, e
    <3> QED BY <1>1, <1>2, <1>3, TrueGoesDown
  <2> HIDE DEF d, e
  <2> QED BY <1>3, <2>1 DEF UuidsOf
<1>12. /\ AncestorsIn(w, 0) = {}
       /\ \A u \in 0..Len(w) : \A v \in AncestorsIn(w, u) :
            v \in 1..Len(w) /\ AncestorsIn(w, v) \subseteq AncestorsIn(w, u)
  BY <1>2, AncestorsAre
<1> HIDE DEF t, d, e, w
<1>13. ASSUME NEW n \in Names, NEW k \in 1..Len(e), ~ w[e[k].uuid].deleted,
              w[e[k].uuid].name = n
       PROVE  Seen(e, n, w, told', e[k].uuid)
  <2>1. CASE k \in Len(d) + 1 .. Len(e)
    <3>1. Lossless(s, w, told')
      BY <1>4, <1>6, LosslessTold
    <3> QED BY <1>1, <1>2, <1>3, <1>4, <1>5, <1>7, <1>13, <2>1, <3>1, BroughtSeen DEF e
  <2>2. CASE k \in 1..Len(d)
    <3> DEFINE u == e[k].uuid
    <3>1. u \in UuidsOf(d)
      BY <1>3, <2>2 DEF UuidsOf
    <3> HIDE DEF u
    <3>2. Seen(d, n, w, told, u)
      BY <1>2, <1>13, <3>1 DEF Lossless, u
    <3>3. ASSUME NEW b \in Heads(d, n), u \in AncestorsIn(w, b) PROVE Seen(e, n, w, told', u)
      <4>1. b \in Heads(d, n) \ {0}
        BY <1>12, <3>3
      <4>2. b \in UuidsOf(d) /\ b \in UuidsOf(e) /\ b \in 0..Len(w)
        BY <1>10, <1>11, <4>1
      <4>3. PICK c : c \in Heads(e, n) /\ c \in 0..Len(w)
        <5>1. PICK last \in 0..Len(e) : IsHead(e, n, last)
          BY <1>1, HeadExists
        <5>2. UuidAt(e, last) \in Heads(e, n)
          BY <1>1, <5>1, HeadsAre
        <5>3. UuidAt(e, last) \in 0..Len(w)
          <6>1. CASE last = 0
            BY <1>2, <6>1 DEF UuidAt
          <6>2. CASE last \in 1..Len(e)
            <7>1. e[last].uuid \in 1..Len(w)
              BY <1>1, <1>3, <6>2, TrueGoesDown
            <7> QED BY <6>2, <7>1 DEF UuidAt
          <6> QED BY <6>1, <6>2
        <5> QED BY <5>2, <5>3
      <4>4. CASE c = b
        BY <3>3, <4>3, <4>4 DEF Seen
      <4>5. CASE c # b
        <5>1. (<<dst, b>> \in told') <=>
                (/\ b \notin AncestorsIn(w, c)
                 /\ ~ w[b].deleted \/ AncestorsIn(w, c) \cap Uuids(dst) # {})
          BY <1>8, <1>9, <4>1, <4>3, <4>5 DEF IsTrueFork, w
        <5>2. CASE b \in AncestorsIn(w, c)
          <6>1. u \in AncestorsIn(w, c)
            BY <1>12, <3>3, <4>3, <5>2
          <6> QED BY <4>3, <6>1 DEF Seen
        <5>3. CASE <<dst, b>> \in told'
          <6>1. <<dst, b>>[2] = b
            OBVIOUS
          <6> QED BY <3>3, <5>3, <6>1 DEF Seen
        <5>4. CASE w[b].deleted
          BY <3>3, <4>2, <5>4 DEF Seen
        <5> QED BY <5>1, <5>2, <5>3, <5>4
      <4> QED BY <4>4, <4>5
    <3>4. ASSUME \E x \in UuidsOf(d) : w[x].deleted /\ u \in AncestorsIn(w, x)
          PROVE  Seen(e, n, w, told', u)
      BY <1>11, <3>4 DEF Seen
    <3>5. ASSUME \E x \in told : u \in AncestorsIn(w, x[2]) PROVE Seen(e, n, w, told', u)
      BY <1>6, <3>5 DEF Seen
    <3>6. Seen(e, n, w, told', u)
      BY <3>2, <3>3, <3>4, <3>5 DEF Seen
    <3> QED BY <3>6 DEF u
  <2> QED BY <1>3, <2>1, <2>2
<1>14. Lossless(e, w, told')
  BY <1>13 DEF Lossless, UuidsOf
<1> QED BY <1>1, <1>14

LEMMA ExtendedIsTransitive ==
  ASSUME NEW d \in Seq(Revision), NEW e \in Seq(Revision), NEW g \in Seq(Revision),
         Extended(d, e), Extended(e, g)
  PROVE  Extended(d, g)
<1>1. Len(d) \in Nat /\ Len(e) \in Nat /\ Len(g) \in Nat
  OBVIOUS
<1>2. Len(d) <= Len(g) /\ \A i \in 1..Len(d) : i \in 1..Len(e) /\ e[i] = d[i]
  BY <1>1 DEF Extended
<1> QED BY <1>2 DEF Extended

\* A step that only adds to tables, and mints one revision at most, leaves every
\* copy the source it began with.
LEMMA WasStays ==
  ASSUME NEW t, NEW e \in Seq(Revision), NEW g \in Seq(Revision), Extended(e, g),
         NEW w \in Seq(Minted), NEW tl, NEW tm, tl \subseteq tm,
         WasLossless(t, e, w, tl)
  PROVE  WasLossless(t, g, w, tm)
<1>1. PICK s \in Seq(Revision) :
        Len(s) = t.upto /\ Extended(s, e) /\ IsTrueTable(s, w) /\ Lossless(s, w, tl)
  BY DEF WasLossless
<1>2. Extended(s, g)
  BY <1>1, ExtendedIsTransitive
<1>3. Lossless(s, w, tm)
  BY <1>1, LosslessTold
<1> QED BY <1>1, <1>2, <1>3 DEF WasLossless

LEMMA WasMinted ==
  ASSUME NEW t, NEW e \in Seq(Revision), NEW w \in Seq(Minted), NEW m \in Minted, NEW tl,
         MintedInOrder(w), m.onto \in 0..Len(w), \A x \in tl : x[2] \in 0..Len(w),
         WasLossless(t, e, w, tl)
  PROVE  WasLossless(t, e, Append(w, m), tl)
<1>1. PICK s \in Seq(Revision) :
        Len(s) = t.upto /\ Extended(s, e) /\ IsTrueTable(s, w) /\ Lossless(s, w, tl)
  BY DEF WasLossless
<1>2. IsTrueTable(s, Append(w, m))
  BY <1>1, GrownHistory
<1>3. Lossless(s, Append(w, m), tl)
  BY <1>1, LosslessMinted
<1> QED BY <1>1, <1>2, <1>3 DEF WasLossless

LEMMA InitLost == Init => NothingLost
<1> SUFFICES ASSUME Init PROVE NothingLost
  OBVIOUS
<1>1. \A f \in Files : UuidsOf(rows[f]) = {}
  BY DEF Init, UuidsOf
<1> QED BY <1>1 DEF Init, NothingLost, Lossless, Idle, Draft

LEMMA InsertLost ==
  ASSUME Inv, Forked, NothingLost, NEW f \in Files, NEW n \in Names, NEW deleted \in BOOLEAN,
         NEW head \in 0..Len(rows[f]), IsHead(rows[f], n, head), Insert(f, n, deleted, head)
  PROVE  NothingLost'
<1>1. PICK m \in Minted, r \in Revision :
        /\ m = [name |-> n, deleted |-> deleted, onto |-> UuidAt(rows[f], head)]
        /\ r.uuid = Len(written) + 1 /\ r.name = n
        /\ m.onto \in 0..Len(written)
        /\ written' = Append(written, m)
        /\ rows'[f] = Append(rows[f], r)
        /\ \A g \in Files : g # f => rows'[g] = rows[g]
        /\ tx' = tx /\ told' = told
  BY Inserted
<1>2. /\ written \in Seq(Minted) /\ MintedInOrder(written)
      /\ \A g \in Files : /\ rows[g] \in Seq(Revision) /\ IsTrueTable(rows[g], written)
                          /\ Lossless(rows[g], written, told)
  BY DEF Inv, TypeOK, HistoryIsTrue, Forked, NothingLost
<1>3. \A t \in told : t[2] \in 0..Len(written)
  BY ToldIsMinted
<1>4. m.name = n /\ m.onto = UuidAt(rows[f], head)
  BY <1>1
<1>5. ASSUME NEW g \in Files PROVE Lossless(rows'[g], written', told')
  <2>1. CASE g = f
    <3>1. Lossless(Append(rows[f], r), Append(written, m), told)
      BY <1>1, <1>2, <1>3, <1>4, LosslessInserted
    <3> QED BY <1>1, <2>1, <3>1
  <2>2. CASE g # f
    <3>1. Lossless(rows[g], Append(written, m), told)
      BY <1>1, <1>2, <1>3, LosslessMinted
    <3> QED BY <1>1, <2>2, <3>1
  <2> QED BY <2>1, <2>2
<1>6. ASSUME NEW g \in Files, tx[g].from # NoFile
      PROVE  WasLossless(tx[g], rows'[tx[g].from], written', told')
  <2>1. tx[g].from \in Files
    BY <1>6 DEF Inv, TypeOK, Copying
  <2>2. PICK src \in Files : src = tx[g].from
    BY <2>1
  <2>3. WasLossless(tx[g], rows[src], written, told)
    BY <1>6, <2>2 DEF NothingLost
  <2>4. WasLossless(tx[g], rows[src], Append(written, m), told)
    BY <1>1, <1>2, <1>3, <2>3, WasMinted
  <2>5. rows'[src] \in Seq(Revision) /\ Extended(rows[src], rows'[src])
    <3>1. /\ Append(rows[src], r) \in Seq(Revision) /\ Extended(rows[src], Append(rows[src], r))
          /\ Extended(rows[src], rows[src])
      BY <1>2, AppendExtends
    <3> QED BY <1>1, <1>2, <3>1
  <2>6. /\ written' \in Seq(Minted) /\ told \subseteq told'
        /\ WasLossless(tx[g], rows[src], written', told)
    BY <1>1, <1>2, <2>4
  <2> QED BY <1>2, <2>2, <2>5, <2>6, WasStays
<1> QED BY <1>1, <1>5, <1>6 DEF NothingLost

LEMMA BeginLost ==
  ASSUME Inv, Forked, NothingLost, NEW src \in Files, NEW dst \in Files, BeginCopy(src, dst)
  PROVE  NothingLost'
<1> DEFINE t == Draft(src, Len(rows[src]), rows[dst])
<1>1. rows' = rows /\ written' = written /\ told' = told /\ tx' = [tx EXCEPT ![dst] = t]
  BY DEF BeginCopy
<1>2. t.from = src /\ t.upto = Len(rows[src])
  BY DEF Draft
<1> HIDE DEF t
<1>3. tx'[dst] = t /\ \A f \in Files : f # dst => tx'[f] = tx[f]
  BY <1>1 DEF Inv, TypeOK
<1>4. /\ rows[src] \in Seq(Revision) /\ IsTrueTable(rows[src], written)
      /\ Lossless(rows[src], written, told)
  BY DEF Inv, TypeOK, HistoryIsTrue, NothingLost
<1>5. Extended(rows[src], rows[src])
  BY <1>4 DEF Extended
<1>6. WasLossless(t, rows[src], written, told)
  BY <1>2, <1>4, <1>5 DEF WasLossless
<1> QED BY <1>1, <1>2, <1>3, <1>6 DEF NothingLost

\* A row of a copy: its source stays what it was when the copy began.
LEMMA RowLost ==
  ASSUME Inv, NothingLost, NEW dst \in Files, CopyHeld(dst) \/ CopyRow(dst) \/ AbandonCopy(dst)
  PROVE  NothingLost'
<1>1. rows' = rows /\ written' = written /\ told' = told
      /\ \A f \in Files : f # dst => tx'[f] = tx[f]
  <2>1. rows' = rows /\ written' = written /\ told' = told
    BY DEF CopyHeld, CopyRow, AbandonCopy
  <2>2. \E t : tx' = [tx EXCEPT ![dst] = t]
    BY DEF CopyHeld, CopyRow, AbandonCopy
  <2> QED BY <2>1, <2>2 DEF Inv, TypeOK
<1>2. tx'[dst].from # NoFile =>
        /\ tx[dst].from # NoFile /\ tx'[dst].from = tx[dst].from
        /\ tx'[dst].upto = tx[dst].upto
  <2>1. CASE AbandonCopy(dst)
    BY <2>1 DEF AbandonCopy, Idle, Draft, Inv, TypeOK
  <2>2. CASE CopyHeld(dst)
    <3>1. tx[dst].from # NoFile
      BY <2>2 DEF CopyHeld, Reading
    <3>2. tx[dst] \in Copying /\ tx \in [Files -> Copying]
      BY DEF Inv, TypeOK
    <3>3. PICK ids : tx' = [tx EXCEPT ![dst].ids = ids]
      BY <2>2 DEF CopyHeld
    <3>4. tx'[dst] = [tx[dst] EXCEPT !.ids = ids]
      BY <3>2, <3>3
    <3> QED BY <3>1, <3>2, <3>4 DEF Copying
  <2>3. CASE CopyRow(dst)
    <3>1. tx[dst].from # NoFile
      BY <2>3 DEF CopyRow, Reading
    <3>2. tx[dst] \in Copying /\ tx \in [Files -> Copying]
      BY DEF Inv, TypeOK
    <3>3. \E u : /\ tx' = [tx EXCEPT ![dst] = u]
                  /\ u.from = tx[dst].from /\ u.upto = tx[dst].upto
      <4> DEFINE r == NextRow(dst)
      <4>1. PICK t : t = tx[dst] /\ t \in Copying
        BY <3>2
      <4>2. PICK head \in 0..Len(t.rows) :
              tx' = [tx EXCEPT ![dst] =
                [t EXCEPT
                   !.rows = Append(@, [r EXCEPT !.supersedes = IF @ = 0 THEN 0 ELSE t.ids[@]]),
                   !.ids = Append(@, Len(t.rows) + 1),
                   !.before = [@ EXCEPT ![r.name] = Baseline(t, r.name, head)],
                   !.touched = @ \cup {r.name}]]
        BY <2>3, <4>1 DEF CopyRow
      <4> HIDE DEF r
      <4>3. PICK u :
              u = [t EXCEPT
                     !.rows = Append(@, [r EXCEPT !.supersedes = IF @ = 0 THEN 0 ELSE t.ids[@]]),
                     !.ids = Append(@, Len(t.rows) + 1),
                     !.before = [@ EXCEPT ![r.name] = Baseline(t, r.name, head)],
                     !.touched = @ \cup {r.name}]
        OBVIOUS
      <4>4. u.from = t.from /\ u.upto = t.upto
        BY <4>1, <4>3 DEF Copying
      <4>5. tx' = [tx EXCEPT ![dst] = u]
        BY <4>2, <4>3
      <4> QED BY <4>1, <4>4, <4>5
    <3> QED BY <3>1, <3>2, <3>3
  <2> QED BY <2>1, <2>2, <2>3
<1>3. ASSUME NEW f \in Files, tx'[f].from # NoFile
      PROVE  WasLossless(tx'[f], rows'[tx'[f].from], written', told')
  <2>1. tx[f].from # NoFile /\ tx'[f].from = tx[f].from /\ tx'[f].upto = tx[f].upto
    BY <1>1, <1>2, <1>3
  <2>2. WasLossless(tx[f], rows[tx[f].from], written, told)
    BY <2>1 DEF NothingLost
  <2> QED BY <1>1, <2>1, <2>2 DEF WasLossless
<1> QED BY <1>1, <1>3 DEF NothingLost

LEMMA CommitLost ==
  ASSUME Inv, Forked, NothingLost, NEW dst \in Files, CommitCopy(dst)
  PROVE  NothingLost'
<1>1. /\ rows[dst] \in Seq(Revision) /\ tx[dst].rows \in Seq(Revision)
      /\ IsSound(tx[dst], rows[dst], rows[tx[dst].from], written)
      /\ rows'[dst] = tx[dst].rows
      /\ \A g \in Files : g # dst => rows'[g] = rows[g]
      /\ written' = written /\ tx'[dst] = Idle
      /\ \A g \in Files : g # dst => tx'[g] = tx[g]
  BY Committed
<1>2. told \subseteq told' /\ Idle.from = NoFile
  BY DEF CommitCopy, Idle, Draft
<1>3. /\ written \in Seq(Minted)
      /\ \A g \in Files : rows[g] \in Seq(Revision) /\ Lossless(rows[g], written, told)
  BY DEF Inv, TypeOK, NothingLost
<1>4. ASSUME NEW g \in Files PROVE Lossless(rows'[g], written', told')
  <2>1. CASE g = dst
    BY <2>1, LosslessCommitted
  <2>2. CASE g # dst
    <3>1. Lossless(rows[g], written, told')
      BY <1>2, <1>3, LosslessTold
    <3> QED BY <1>1, <2>2, <3>1
  <2> QED BY <2>1, <2>2
<1>5. ASSUME NEW g \in Files
      PROVE  rows'[g] \in Seq(Revision) /\ Extended(rows[g], rows'[g])
  <2>1. CASE g = dst
    BY <1>1, <2>1 DEF IsSound
  <2>2. CASE g # dst
    <3>1. rows'[g] = rows[g] /\ Len(rows[g]) \in Nat
      BY <1>1, <1>3, <2>2
    <3> QED BY <1>3, <3>1 DEF Extended
  <2> QED BY <2>1, <2>2
<1>6. ASSUME NEW g \in Files, tx'[g].from # NoFile
      PROVE  WasLossless(tx'[g], rows'[tx'[g].from], written', told')
  <2>1. tx'[g] = tx[g] /\ tx[g].from # NoFile
    BY <1>1, <1>2, <1>6
  <2>2. tx[g].from \in Files
    BY <2>1 DEF Inv, TypeOK, Copying
  <2>3. PICK src \in Files : src = tx[g].from
    BY <2>2
  <2>4. WasLossless(tx[g], rows[src], written, told)
    BY <2>1, <2>3 DEF NothingLost
  <2>5. WasLossless(tx[g], rows'[src], written, told')
    BY <1>2, <1>3, <1>5, <2>4, WasStays
  <2> QED BY <1>1, <2>1, <2>3, <2>5
<1> QED BY <1>4, <1>6 DEF NothingLost

LEMMA NextLost == Inv /\ Forked /\ NothingLost /\ [Next]_vars => NothingLost'
<1> SUFFICES ASSUME Inv, Forked, NothingLost, [Next]_vars PROVE NothingLost'
  OBVIOUS
<1>1. ASSUME NEW f \in Files, NEW n \in Names,
             PutDocument(f, n) \/ DeleteDocument(f, n)
      PROVE  NothingLost'
  BY <1>1, InsertLost DEF PutDocument, DeleteDocument
<1>2. ASSUME NEW f \in Files, NEW n \in Names, NEW u \in 0..Len(written),
             PutDocumentIfCurrent(f, n, u)
      PROVE  NothingLost'
  BY <1>2, InsertLost DEF PutDocumentIfCurrent
<1>3. ASSUME NEW src \in Files, NEW dst \in Files, BeginCopy(src, dst)
      PROVE  NothingLost'
  BY <1>3, BeginLost
<1>4. ASSUME NEW dst \in Files, CopyHeld(dst) \/ CopyRow(dst) \/ AbandonCopy(dst)
      PROVE  NothingLost'
  BY <1>4, RowLost
<1>5. ASSUME NEW dst \in Files, CommitCopy(dst)
      PROVE  NothingLost'
  BY <1>5, CommitLost
<1>6. CASE UNCHANGED vars
  BY <1>6 DEF vars, NothingLost
<1> QED BY <1>1, <1>2, <1>3, <1>4, <1>5, <1>6 DEF Next

(***************************************************************************)
(* NothingLostSilently for any number of files, documents, revisions and   *)
(* copies under way: a body a file holds is in the history of its newest   *)
(* revision, or was deleted there, or somebody was told that it, or what   *)
(* was made of it, was displaced - in whatever order files are copied into *)
(* each other.  (CopiedDocuments.forked)                                   *)
(***************************************************************************)
THEOREM NothingIsLostSilently == Spec => []NothingLostSilently
<1>1. NothingLost => NothingLostSilently
  <2>1. \A f \in Files : Uuids(f) = UuidsOf(rows[f])
    BY DEF Uuids, UuidsOf
  <2>2. \A u : Ancestors(u) = AncestorsIn(written, u)
    BY AncestorsHere
  <2> QED BY <2>1, <2>2 DEF NothingLost, Lossless, Seen, NothingLostSilently
<1> QED BY <1>1, InitSound, NextSound, InitForked, NextForked, InitLost, NextLost, PTL DEF Spec

=============================================================================
