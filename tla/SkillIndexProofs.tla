-------------------------- MODULE SkillIndexProofs --------------------------
(***************************************************************************)
(* Theorems about SkillIndex, for any directory, any number of edits and   *)
(* starts, and whatever fails.                                             *)
(*                                                                         *)
(* That the search tables agree rests on row numbers: the largest row of   *)
(* embeddings is replaced only by a larger one, so no vector, not even one *)
(* whose deletion failed, has a number that is still to be given (Rows).   *)
(*                                                                         *)
(* That the agent finds what the files say rests on FoundInv: what an      *)
(* undisturbed sync has made of the files it has visited so far.           *)
(***************************************************************************)
EXTENDS SkillIndex, TLAPS

SkillRows ==
  /\ fts = {[id |-> s.id, name |-> s.name, text |-> s.file.text] : s \in skills}
  /\ \A s, t \in skills : s.name = t.name \/ s.id = t.id => s = t

VectorRows ==
  \A v \in vectors, e \in embeddings :
    v.id = e.id => v.name = e.name /\ v.text = e.text

Rows ==
  /\ embeddings # {} => \E top \in embeddings : \A e \in embeddings : e.id <= top.id
  /\ \A v \in vectors : \E e \in embeddings : v.id <= e.id

Held ==
  phase = "embed" => current \in [id : 1..nextId-1, name : Names, text : Texts]

IInv == TypeOK /\ SkillRows /\ VectorRows /\ Rows /\ Held

\* The number of a new row is larger than all others.
LEMMA NewRowIsLargest ==
  ASSUME TypeOK, Rows
  PROVE  /\ NextRow(embeddings) \in Nat \ {0}
         /\ \A e \in embeddings : e.id < NextRow(embeddings)
<1>1. CASE embeddings = {}
  BY <1>1 DEF NextRow
<1>2. CASE embeddings # {}
  <2> DEFINE ids == {r.id : r \in embeddings}
             max == CHOOSE i \in ids : \A r \in embeddings : r.id <= i
  <2>1. \E i \in ids : \A r \in embeddings : r.id <= i
    BY <1>2 DEF Rows
  <2>2. max \in ids /\ \A r \in embeddings : r.id <= max
    BY <2>1
  <2>3. ids \subseteq Nat \ {0}
    BY DEF TypeOK
  <2>4. NextRow(embeddings) = 1 + max
    BY <1>2 DEF NextRow
  <2> HIDE DEF max
  <2>5. \A e \in embeddings : e.id \in Nat
    BY DEF TypeOK
  <2> QED
    BY <2>2, <2>3, <2>4, <2>5
<1> QED
  BY <1>1, <1>2

\* The full-text rows of one skill more.
LEMMA RowsOfOneMore ==
  ASSUME NEW A, NEW x
  PROVE  {[id |-> s.id, name |-> s.name, text |-> s.file.text] : s \in A \cup {x}}
           = {[id |-> s.id, name |-> s.name, text |-> s.file.text] : s \in A}
               \cup {[id |-> x.id, name |-> x.name, text |-> x.file.text]}
OBVIOUS

\* upsert_skill keeps one full-text row for each skill, and names unique.
LEMMA UpsertKeepsRows ==
  ASSUME TypeOK, SkillRows,
         NEW p \in Paths, NEW f \in Files, NEW n \in Names, Upsert(p, f, n)
  PROVE  /\ SkillRows'
         /\ nextId' \in Nat \ {0} /\ nextId <= nextId'
         /\ skills' \subseteq [id : 1..nextId'-1, name : Names, path : Paths,
                               file : Files]
         /\ fts' \subseteq [id : 1..nextId'-1, name : Names, text : Texts]
         /\ current' \in [id : 1..nextId'-1, name : Names, text : Texts]
<1> DEFINE found == {s \in skills : s.name = n}
<1>1. nextId \in Nat \ {0}
  BY DEF TypeOK
<1>2. f.text \in Texts
  BY DEF Files
<1>3. \A s \in skills : /\ s.id \in 1..nextId-1 /\ s.name \in Names
                        /\ s.file \in Files /\ s.file.text \in Texts
  BY DEF TypeOK, Files
<1>4. CASE found = {}
  <2> DEFINE new == [id |-> nextId, name |-> n, path |-> p, file |-> f]
  <2>1. /\ skills' = skills \cup {new}
        /\ nextId' = nextId + 1
        /\ fts' = {r \in fts : r.id # nextId}
                    \cup {[id |-> nextId, name |-> n, text |-> f.text]}
        /\ current' = [id |-> nextId, name |-> n, text |-> f.text]
    BY <1>4 DEF Upsert, Reindex
  <2>2. \A s \in skills : s.name # n /\ s.id # nextId
    BY <1>1, <1>3, <1>4
  <2>3. \A r \in fts : r.id # nextId
    BY <2>2 DEF SkillRows
  <2>4. fts' = {[id |-> s.id, name |-> s.name, text |-> s.file.text] : s \in skills'}
    <3>1. [id |-> new.id, name |-> new.name, text |-> new.file.text]
            = [id |-> nextId, name |-> n, text |-> f.text]
      OBVIOUS
    <3>2. {r \in fts : r.id # nextId} = fts
      BY <2>3
    <3> HIDE DEF new
    <3> QED
      BY <2>1, <3>1, <3>2, RowsOfOneMore DEF SkillRows
  <2>5. \A s, t \in skills' : s.name = t.name \/ s.id = t.id => s = t
    BY <2>1, <2>2 DEF SkillRows
  <2>6. /\ skills' \subseteq [id : 1..nextId'-1, name : Names, path : Paths,
                              file : Files]
        /\ fts' \subseteq [id : 1..nextId'-1, name : Names, text : Texts]
    BY <1>1, <1>2, <2>1 DEF TypeOK
  <2> QED
    BY <1>1, <1>2, <2>1, <2>4, <2>5, <2>6 DEF SkillRows
<1>5. CASE found # {}
  <2>1. PICK old \in skills : old.name = n
    BY <1>5
  <2>2. found = {old}
    BY <2>1 DEF SkillRows
  <2> DEFINE new == [id |-> old.id, name |-> n, path |-> p, file |-> f]
             row == [id |-> old.id, name |-> n, text |-> f.text]
  <2>3. /\ skills' = IF old.file = f THEN skills ELSE (skills \ {old}) \cup {new}
        /\ nextId' = nextId
        /\ fts' = {r \in fts : r.id # old.id} \cup {row}
        /\ current' = row
    <3>1. {s.id : s \in found} = {old.id}
      BY <2>2
    <3>2. (\E s \in found : s.file = f) <=> old.file = f
      BY <2>2
    <3> QED
      BY <1>5, <2>2, <3>1, <3>2 DEF Upsert, Reindex
  <2>4. \A s \in skills : s # old => s.name # n /\ s.id # old.id
    BY <2>1 DEF SkillRows
  <2>5. \A s, t \in skills' : s.name = t.name \/ s.id = t.id => s = t
    BY <2>3, <2>4 DEF SkillRows
  <2>6. {r \in fts : r.id # old.id}
          = {[id |-> s.id, name |-> s.name, text |-> s.file.text] : s \in skills \ {old}}
    BY <2>4 DEF SkillRows
  <2>7. fts' = {[id |-> s.id, name |-> s.name, text |-> s.file.text] : s \in skills'}
    <3>1. CASE old.file = f
      <4>1. [id |-> old.id, name |-> old.name, text |-> old.file.text] = row
        BY <2>1, <3>1
      <4>2. skills' = (skills \ {old}) \cup {old}
        BY <2>3, <3>1
      <4> HIDE DEF row
      <4> QED
        BY <2>3, <2>6, <4>1, <4>2, RowsOfOneMore
    <3>2. CASE old.file # f
      <4>1. [id |-> new.id, name |-> new.name, text |-> new.file.text] = row
        OBVIOUS
      <4>2. skills' = (skills \ {old}) \cup {new}
        BY <2>3, <3>2
      <4> HIDE DEF new, row
      <4> QED
        BY <2>3, <2>6, <4>1, <4>2, RowsOfOneMore
    <3> QED
      BY <3>1, <3>2
  <2>8. new \in [id : 1..nextId-1, name : Names, path : Paths, file : Files]
    BY <1>3
  <2>9. row \in [id : 1..nextId-1, name : Names, text : Texts]
    BY <1>2, <1>3
  <2>10. /\ skills' \subseteq [id : 1..nextId'-1, name : Names, path : Paths,
                               file : Files]
         /\ fts' \subseteq [id : 1..nextId'-1, name : Names, text : Texts]
    BY <2>3, <2>8, <2>9 DEF TypeOK
  <2> QED
    BY <1>1, <2>3, <2>5, <2>7, <2>9, <2>10 DEF SkillRows
<1> QED
  BY <1>4, <1>5

\* put_embedding keeps every vector apart from the embeddings of others.
LEMMA PutKeepsRows ==
  ASSUME TypeOK, VectorRows, Rows,
         NEW skill \in [id : 1..nextId-1, name : Names, text : Texts],
         PutEmbedding(skill)
  PROVE  /\ VectorRows' /\ Rows'
         /\ embeddings' \subseteq [id : Nat \ {0}, skill : 1..nextId-1,
                                   name : Names, text : Texts]
         /\ vectors' \subseteq [id : Nat \ {0}, name : Names, text : Texts]
<1> DEFINE old  == {e \in embeddings : e.skill = skill.id}
           row  == NextRow(embeddings)
           new  == [id |-> row, skill |-> skill.id, name |-> skill.name,
                    text |-> skill.text]
           vec  == [id |-> row, name |-> skill.name, text |-> skill.text]
<1>1. CASE UNCHANGED <<embeddings, vectors>>
  BY <1>1 DEF TypeOK, VectorRows, Rows
<1>2. CASE ~UNCHANGED <<embeddings, vectors>>
  <2>1. /\ embeddings' = (embeddings \ old) \cup {new}
        /\ vectors' \subseteq vectors \cup {vec}
    BY <1>2 DEF PutEmbedding, RowFor
  <2>2. row \in Nat \ {0} /\ \A e \in embeddings : e.id \in Nat /\ e.id < row
    BY NewRowIsLargest DEF TypeOK
  <2>3. \A v \in vectors : v.id \in Nat /\ v.id < row
    <3>1. \A v \in vectors : v.id \in Nat
      BY DEF TypeOK
    <3> QED
      BY <2>2, <3>1 DEF Rows
  <2> HIDE DEF row
  <2>4. VectorRows'
    <3> SUFFICES ASSUME NEW v \in vectors', NEW e \in embeddings', v.id = e.id
                 PROVE  v.name = e.name /\ v.text = e.text
      BY DEF VectorRows
    <3>1. CASE v \in vectors /\ e \in embeddings
      BY <3>1 DEF VectorRows
    <3>2. CASE v \in vectors /\ e = new
      BY <2>3, <3>2
    <3>3. CASE v = vec /\ e \in embeddings
      BY <2>2, <3>3
    <3>4. CASE v = vec /\ e = new
      BY <3>4
    <3> QED
      BY <2>1, <3>1, <3>2, <3>3, <3>4
  <2>5. Rows'
    <3>1. new \in embeddings' /\ \A e \in embeddings' : e.id <= new.id
      BY <2>1, <2>2
    <3>2. \A v \in vectors' : v.id <= new.id
      BY <2>1, <2>2, <2>3
    <3> QED
      BY <3>1, <3>2 DEF Rows
  <2>6. new \in [id : Nat \ {0}, skill : 1..nextId-1, name : Names, text : Texts]
    BY <2>2
  <2>7. vec \in [id : Nat \ {0}, name : Names, text : Texts]
    BY <2>2
  <2> QED
    BY <2>1, <2>4, <2>5, <2>6, <2>7 DEF TypeOK
<1> QED
  BY <1>1, <1>2

-----------------------------------------------------------------------------
(* The invariant. *)

LEMMA InitInv == Init => IInv
<1> SUFFICES ASSUME Init PROVE IInv
  OBVIOUS
<1>1. /\ edits \in 0..MaxEdits /\ starts \in 0..MaxStarts
      /\ nextId \in Nat \ {0} /\ settled \in 0..2
  BY SkillsAssumption DEF Init
<1>2. TypeOK
  BY <1>1 DEF Init, TypeOK
<1>3. SkillRows /\ VectorRows /\ Rows
  BY DEF Init, SkillRows, VectorRows, Rows
<1>4. Held
  BY DEF Init, Held
<1> QED
  BY <1>3, <1>4, <1>2 DEF IInv

\* What the steps that leave the tables alone preserve.
LEMMA SameTables ==
  ASSUME SkillRows, VectorRows, Rows, UNCHANGED db
  PROVE  SkillRows' /\ VectorRows' /\ Rows'
BY DEF db, SkillRows, VectorRows, Rows

LEMMA FileAt ==
  ASSUME TypeOK, NEW p \in Paths, Readable(p)
  PROVE  dir[p] \in Files /\ NameAt(p) \in Names
<1>1. dir[p] \in Files
  BY DEF TypeOK, Readable
<1> QED
  BY <1>1, SkillsAssumption DEF NameAt, Files

\* A skill that is pruned takes its full-text row along, and only that.
LEMMA PruneKeepsRows ==
  ASSUME SkillRows, Prune
  PROVE  SkillRows'
<1> DEFINE gone == {s \in skills : s.path \notin seen}
<1>1. /\ skills' = skills \ gone
      /\ fts' = {r \in fts : \A s \in gone : r.id # s.id}
  BY DEF Prune
<1>2. \A s \in skills, t \in gone : s \notin gone => s.id # t.id
  BY DEF SkillRows
<1> HIDE DEF gone
<1>3. fts' = {[id |-> s.id, name |-> s.name, text |-> s.file.text] : s \in skills'}
  <2>1. \A r \in fts' : \E s \in skills' :
           r = [id |-> s.id, name |-> s.name, text |-> s.file.text]
    <3> TAKE r \in fts'
    <3>1. PICK s \in skills :
             r = [id |-> s.id, name |-> s.name, text |-> s.file.text]
      BY <1>1 DEF SkillRows
    <3>2. s \notin gone
      BY <1>1, <3>1
    <3> QED
      BY <1>1, <3>1, <3>2
  <2>2. \A s \in skills' :
           [id |-> s.id, name |-> s.name, text |-> s.file.text] \in fts'
    BY <1>1, <1>2 DEF SkillRows
  <2> QED
    BY <2>1, <2>2
<1>4. \A s, t \in skills' : s.name = t.name \/ s.id = t.id => s = t
  BY <1>1 DEF SkillRows
<1> QED
  BY <1>3, <1>4 DEF SkillRows

LEMMA IdsGrow ==
  ASSUME NEW a \in Nat, NEW b \in Nat, a <= b
  PROVE  1..a-1 \subseteq 1..b-1
OBVIOUS

LEMMA StepInv == IInv /\ [Next]_vars => IInv'
<1> SUFFICES ASSUME IInv, [Next]_vars PROVE IInv'
  OBVIOUS
<1> USE DEF IInv
<1>1. CASE Edit
  <2>1. dir' \in [Paths -> Files \cup {Absent, Unreadable}]
    BY <1>1 DEF Edit, TypeOK
  <2>2. edits' \in 0..MaxEdits
    BY <1>1, SkillsAssumption DEF Edit, TypeOK
  <2>3. settled' = 0 /\ disturbed' = TRUE
    BY <1>1 DEF Edit
  <2>4. TypeOK'
    BY <1>1, <2>1, <2>2, <2>3 DEF Edit, TypeOK, db
  <2> QED
    BY <1>1, <2>4, SameTables DEF Edit, Held, db
<1>2. CASE Start
  <2>1. starts' \in 0..MaxStarts
    BY <1>2, SkillsAssumption DEF Start, TypeOK
  <2>2. /\ vecLoaded' \in BOOLEAN /\ disturbed' = FALSE
        /\ todo' \subseteq Paths /\ seen' \subseteq Paths
        /\ misses' \subseteq {"server", "extension"}
    <3>1. vecLoaded' \in BOOLEAN /\ disturbed' = FALSE
      BY <1>2 DEF Start
    <3>2. todo' \subseteq Paths /\ seen' \subseteq Paths
      BY <1>2 DEF Start
    <3>3. misses' \subseteq misses \cup {"extension"}
      BY <1>2 DEF Start
    <3> QED
      BY <3>1, <3>2, <3>3 DEF TypeOK
  <2>3. TypeOK'
    BY <1>2, <2>1, <2>2 DEF Start, TypeOK, db
  <2> QED
    BY <1>2, <2>3, SameTables DEF Start, Held, db
<1>3. CASE Index
  <2>1. PICK p \in Paths : /\ Readable(p) /\ Upsert(p, dir[p], NameAt(p))
                           /\ seen' = Seen(p) /\ todo' = todo \ {p}
    BY <1>3 DEF Index
  <2>2. dir[p] \in Files /\ NameAt(p) \in Names
    BY <2>1, FileAt
  <2>3. /\ SkillRows'
        /\ nextId' \in Nat \ {0} /\ nextId <= nextId'
        /\ skills' \subseteq [id : 1..nextId'-1, name : Names, path : Paths,
                              file : Files]
        /\ fts' \subseteq [id : 1..nextId'-1, name : Names, text : Texts]
        /\ current' \in [id : 1..nextId'-1, name : Names, text : Texts]
    BY <2>1, <2>2, UpsertKeepsRows
  <2>4. UNCHANGED <<embeddings, vectors>>
    BY <1>3 DEF Index
  <2>5. embeddings \subseteq [id : Nat \ {0}, skill : 1..nextId'-1,
                             name : Names, text : Texts]
    BY <2>3, <2>4, IdsGrow DEF TypeOK
  <2>6. seen' \subseteq Paths /\ todo' \subseteq Paths
    BY <2>1 DEF TypeOK, Seen
  <2>7. TypeOK'
    BY <1>3, <2>3, <2>4, <2>5, <2>6 DEF Index, TypeOK, hist
  <2> QED
    BY <2>3, <2>4, <2>7 DEF VectorRows, Rows, Held
<1>4. CASE SkipFile
  <2>1. TypeOK'
    BY <1>4 DEF SkipFile, TypeOK, db, hist
  <2> QED
    BY <1>4, <2>1, SameTables DEF SkipFile, Held, db
<1>5. CASE IndexFails
  <2>1. TypeOK'
    BY <1>5 DEF IndexFails, TypeOK, db
  <2> QED
    BY <1>5, <2>1, SameTables DEF IndexFails, Held, db
<1>6. CASE Embed
  <2>1. current \in [id : 1..nextId-1, name : Names, text : Texts]
    BY <1>6 DEF Embed, Held
  <2>2. /\ VectorRows' /\ Rows'
        /\ embeddings' \subseteq [id : Nat \ {0}, skill : 1..nextId-1,
                                  name : Names, text : Texts]
        /\ vectors' \subseteq [id : Nat \ {0}, name : Names, text : Texts]
    BY <1>6, <2>1, PutKeepsRows DEF Embed
  <2>3. TypeOK'
    BY <1>6, <2>2 DEF Embed, TypeOK, hist
  <2> QED
    BY <1>6, <2>2, <2>3 DEF Embed, SkillRows, Held
<1>7. CASE EmbedFails
  <2>1. TypeOK'
    BY <1>7 DEF EmbedFails, TypeOK, db
  <2> QED
    BY <1>7, <2>1, SameTables DEF EmbedFails, Held
<1>8. CASE Prune
  <2>1. TypeOK'
    BY <1>8 DEF Prune, TypeOK
  <2> QED
    BY <1>8, <2>1, PruneKeepsRows DEF Prune, VectorRows, Rows, Held
<1>9. CASE Stop
  <2>1. TypeOK'
    BY <1>9 DEF Stop, TypeOK, db, hist
  <2> QED
    BY <1>9, <2>1, SameTables DEF Stop, Held
<1>10. CASE UNCHANGED vars
  <2>1. TypeOK'
    BY <1>10 DEF vars, TypeOK, db, hist
  <2> QED
    BY <1>10, <2>1, SameTables DEF vars, Held, db
<1> QED
  BY <1>1, <1>2, <1>3, <1>4, <1>5, <1>6, <1>7, <1>8, <1>9, <1>10 DEF Next

LEMMA Invariance == Spec => []IInv
<1> QED
  BY InitInv, StepInv, PTL DEF Spec

-----------------------------------------------------------------------------

\* TypeOK holds in every behaviour (the whole of sync).
THEOREM TypeCorrect == Spec => []TypeOK
<1>1. IInv => TypeOK
  BY DEF IInv
<1> QED
  BY <1>1, Invariance, PTL

\* SearchTablesAgree holds in every behaviour: whatever is edited, fails or
\* dies, full-text rows are those of the skills and no vector stands under
\* the number of another embedding (upsert_skill, remove_missing_skills,
\* put_embedding).
THEOREM SearchTablesAlwaysAgree == Spec => []SearchTablesAgree
<1>1. IInv => SearchTablesAgree
  BY DEF IInv, SkillRows, VectorRows, SearchTablesAgree
<1> QED
  BY <1>1, Invariance, PTL

-----------------------------------------------------------------------------
(* What a sync that nobody disturbs makes of the directory. *)

Syncing == phase \in {"visit", "embed"}

Visited(p) == Readable(p) /\ p \notin todo

\* The last file visited so far of those with its name.
LastVisited(p) ==
  Visited(p) /\ \A q \in Paths : q > p /\ Visited(q) => NameAt(q) # NameAt(p)

Embedded(s) == \E e \in embeddings : e.skill = s.id /\ e.text = s.file.text

BeingEmbedded(s) == phase = "embed" /\ s.id = current.id

\* The skill says what file p says, and has its embedding or is about to.
Stands(p) ==
  \E s \in skills : /\ s.name = NameAt(p) /\ s.file = dir[p]
                    /\ "server" \notin misses => Embedded(s) \/ BeingEmbedded(s)

\* In an undisturbed sync the files visited come before those to visit, and
\* the last one of each name stands.
SyncInv ==
  Syncing /\ ~disturbed =>
    /\ \A p \in todo : dir[p] # Absent
    /\ \A p \in Paths, q \in todo : Visited(p) => p < q
    /\ seen = {p \in Paths : Visited(p)}
    /\ \A p \in Paths : LastVisited(p) => Stands(p)

\* One undisturbed sync leaves no skill without its file, the next removes
\* none.
ServeInv ==
  /\ settled > 0 => ~disturbed /\ \A s \in skills : Readable(s.path)
  /\ phase = "serving" /\ settled = 2 =>
       \A p \in Paths : Decides(p) => Stands(p)

\* While every process had the extension, vectors and embeddings are paired.
PairInv ==
  "extension" \notin misses =>
    /\ phase # "down" => vecLoaded
    /\ \A e \in embeddings : \E v \in vectors : v.id = e.id
    /\ \A v \in vectors : \E e \in embeddings : v.id = e.id

NumberInv == \A e, f \in embeddings : e.id = f.id => e = f

\* The skill whose embedding is being made is the one stored last.
CurrentInv ==
  phase = "embed" =>
    \E s \in skills : /\ s.id = current.id /\ s.name = current.name
                      /\ s.file.text = current.text

FoundInv == SyncInv /\ ServeInv /\ PairInv /\ NumberInv /\ CurrentInv

\* upsert_skill leaves the skills of other names alone, and stores the file.
LEMMA UpsertEffect ==
  ASSUME TypeOK, SkillRows,
         NEW p \in Paths, NEW f \in Files, NEW n \in Names, Upsert(p, f, n)
  PROVE  /\ \E s \in skills' : /\ s.name = n /\ s.file = f /\ s.id = current'.id
                               /\ current'.name = n /\ current'.text = f.text
         /\ \A s \in skills : s.name # n => s \in skills' /\ s.id # current'.id
         /\ \A s \in skills' : s \in skills \/ s.path = p
<1> DEFINE found == {s \in skills : s.name = n}
<1>1. CASE found = {}
  <2> DEFINE new == [id |-> nextId, name |-> n, path |-> p, file |-> f]
  <2>1. /\ skills' = skills \cup {new}
        /\ current' = [id |-> nextId, name |-> n, text |-> f.text]
    BY <1>1 DEF Upsert
  <2>2. \A s \in skills : s.id # nextId
    BY DEF TypeOK
  <2>3. /\ new \in skills' /\ new.name = n /\ new.file = f /\ new.path = p
        /\ new.id = nextId
    BY <2>1
  <2>4. current'.id = nextId /\ current'.name = n /\ current'.text = f.text
    BY <2>1
  <2>5. skills' = skills \cup {new}
    BY <2>1
  <2> HIDE DEF new
  <2> QED
    BY <2>2, <2>3, <2>4, <2>5
<1>2. CASE found # {}
  <2>1. PICK old \in skills : old.name = n
    BY <1>2
  <2>2. found = {old}
    BY <2>1 DEF SkillRows
  <2> DEFINE new == [id |-> old.id, name |-> n, path |-> p, file |-> f]
  <2>3. /\ skills' = IF old.file = f THEN skills ELSE (skills \ {old}) \cup {new}
        /\ current' = [id |-> old.id, name |-> n, text |-> f.text]
    <3>1. {s.id : s \in found} = {old.id}
      BY <2>2
    <3>2. (\E s \in found : s.file = f) <=> old.file = f
      BY <2>2
    <3> QED
      BY <1>2, <2>2, <3>1, <3>2 DEF Upsert
  <2>4. \A s \in skills : s.name # n => s # old /\ s.id # old.id
    BY <2>1 DEF SkillRows
  <2>5. CASE old.file = f
    BY <2>1, <2>3, <2>4, <2>5
  <2>6. CASE old.file # f
    <3>1. skills' = (skills \ {old}) \cup {new}
      BY <2>3, <2>6
    <3>2. new \in skills' /\ new.name = n /\ new.file = f /\ new.id = old.id /\ new.path = p
      BY <3>1
    <3> HIDE DEF new
    <3> QED
      BY <2>3, <2>4, <3>1, <3>2
  <2> QED
    BY <2>5, <2>6
<1> QED
  BY <1>1, <1>2

\* put_embedding gives the skill its embedding, leaves those of others alone,
\* and with the extension keeps vectors and embeddings paired.
LEMMA PutEffect ==
  ASSUME TypeOK, Rows, NumberInv,
         NEW skill \in [id : 1..nextId-1, name : Names, text : Texts],
         PutEmbedding(skill)
  PROVE  /\ NumberInv'
         /\ \E e \in embeddings' : e.skill = skill.id /\ e.text = skill.text
         /\ \A e \in embeddings : e.skill # skill.id => e \in embeddings'
         /\ /\ vecLoaded
            /\ \A e \in embeddings : \E v \in vectors : v.id = e.id
            /\ \A v \in vectors : \E e \in embeddings : v.id = e.id
            => /\ \A e \in embeddings' : \E v \in vectors' : v.id = e.id
               /\ \A v \in vectors' : \E e \in embeddings' : v.id = e.id
<1> DEFINE old  == {e \in embeddings : e.skill = skill.id}
           row  == NextRow(embeddings)
           new  == [id |-> row, skill |-> skill.id, name |-> skill.name,
                    text |-> skill.text]
           vec  == [id |-> row, name |-> skill.name, text |-> skill.text]
           left == {v \in vectors : \A e \in old : v.id # e.id}
<1>1. CASE \E e \in old : e.name = skill.name /\ e.text = skill.text
  <2>1. UNCHANGED <<embeddings, vectors>>
    BY <1>1 DEF PutEmbedding
  <2> QED
    BY <1>1, <2>1 DEF NumberInv
<1>2. CASE ~ \E e \in old : e.name = skill.name /\ e.text = skill.text
  <2>1. /\ embeddings' = (embeddings \ old) \cup {new}
        /\ vectors' = IF ~vecLoaded \/ \E v \in left : v.id = row
                      THEN vectors ELSE left \cup {vec}
    BY <1>2 DEF PutEmbedding, RowFor
  <2>2. \A e \in embeddings : e.id \in Nat /\ e.id < row
    BY NewRowIsLargest DEF TypeOK
  <2>3. row \in Nat
    BY NewRowIsLargest
  <2> HIDE DEF row
  <2>4. NumberInv'
    BY <2>1, <2>2, <2>3 DEF NumberInv
  <2>5. new \in embeddings' /\ new.skill = skill.id /\ new.text = skill.text /\ new.id = row
    BY <2>1
  <2>6. ASSUME vecLoaded,
               \A e \in embeddings : \E v \in vectors : v.id = e.id,
               \A v \in vectors : \E e \in embeddings : v.id = e.id
        PROVE  /\ \A e \in embeddings' : \E v \in vectors' : v.id = e.id
               /\ \A v \in vectors' : \E e \in embeddings' : v.id = e.id
    <3>1. \A v \in left : v.id # row
      BY <2>2, <2>3, <2>6
    <3>2. vectors' = left \cup {vec} /\ vec.id = row
      BY <2>1, <2>6, <3>1
    <3> HIDE DEF new, vec
    <3>3. ASSUME NEW e \in embeddings' PROVE \E v \in vectors' : v.id = e.id
      <4>1. CASE e = new
        BY <2>5, <3>2, <4>1
      <4>2. CASE e \in embeddings /\ e \notin old
        <5>1. PICK v \in vectors : v.id = e.id
          BY <2>6, <4>2
        <5>2. v \in left
          BY <4>2, <5>1 DEF NumberInv
        <5> QED
          BY <3>2, <5>1, <5>2
      <4> QED
        BY <2>1, <4>1, <4>2
    <3>4. ASSUME NEW v \in vectors' PROVE \E e \in embeddings' : v.id = e.id
      <4>1. CASE v = vec
        BY <2>5, <3>2, <4>1
      <4>2. CASE v \in left
        BY <2>1, <2>6, <4>2
      <4> QED
        BY <3>2, <4>1, <4>2
    <3> QED
      BY <3>3, <3>4
  <2>7. \A e \in embeddings : e.skill # skill.id => e \in embeddings'
    BY <2>1
  <2> HIDE DEF new, vec, left, old
  <2> QED
    BY <2>4, <2>5, <2>6, <2>7
<1> QED
  BY <1>1, <1>2

LEMMA FoundInit == Init => FoundInv
<1> SUFFICES ASSUME Init PROVE FoundInv
  OBVIOUS
<1>1. SyncInv /\ CurrentInv
  BY DEF Init, SyncInv, Syncing, CurrentInv
<1>2. ServeInv /\ PairInv /\ NumberInv
  BY DEF Init, ServeInv, PairInv, NumberInv
<1> QED
  BY <1>1, <1>2 DEF FoundInv

\* Steps that leave the directory and the tables alone, and the two facts they
\* leave alone with them.
LEMMA SamePairs ==
  ASSUME PairInv, NumberInv, UNCHANGED <<embeddings, vectors, vecLoaded>>,
         misses \subseteq misses', phase # "down" \/ phase' = "down"
  PROVE  PairInv' /\ NumberInv'
BY DEF PairInv, NumberInv

LEMMA EditFound == FoundInv /\ Edit => FoundInv'
<1> SUFFICES ASSUME FoundInv, Edit PROVE FoundInv'
  OBVIOUS
<1>1. /\ UNCHANGED <<skills, embeddings, vectors, vecLoaded, phase, current, misses>>
      /\ settled' = 0 /\ disturbed' = TRUE
  BY DEF Edit, db
<1>2. SyncInv' /\ ServeInv'
  BY <1>1 DEF SyncInv, ServeInv
<1>3. PairInv' /\ NumberInv' /\ CurrentInv'
  BY <1>1 DEF FoundInv, PairInv, NumberInv, CurrentInv
<1> QED
  BY <1>2, <1>3 DEF FoundInv

\* A sync begins with nothing visited.
LEMMA StartFound == FoundInv /\ Start => FoundInv'
<1> SUFFICES ASSUME FoundInv, Start PROVE FoundInv'
  OBVIOUS
<1>1. /\ UNCHANGED <<dir, skills, embeddings, vectors, settled>>
      /\ phase' = "visit" /\ disturbed' = FALSE
      /\ todo' = {p \in Paths : dir[p] # Absent} /\ seen' = {}
  BY DEF Start, db
<1>2. \A p \in Paths : ~ Visited(p)'
  BY <1>1 DEF Visited, Readable
<1>3. SyncInv'
  BY <1>1, <1>2 DEF SyncInv, LastVisited
<1>4. ServeInv'
  <2>1. \A s \in skills : Readable(s.path)' <=> Readable(s.path)
    BY <1>1 DEF Readable
  <2> QED
    BY <1>1, <2>1 DEF FoundInv, ServeInv
<1>5. PairInv'
  <2>1. ASSUME "extension" \notin misses' PROVE vecLoaded' /\ "extension" \notin misses
    BY <2>1 DEF Start
  <2> QED
    BY <1>1, <2>1 DEF FoundInv, PairInv
<1>6. NumberInv' /\ CurrentInv'
  BY <1>1 DEF FoundInv, NumberInv, CurrentInv
<1> QED
  BY <1>3, <1>4, <1>5, <1>6 DEF FoundInv

\* The file stored stands; the earlier files of its name no longer count, and
\* those of other names stand as before.
LEMMA IndexFound == IInv /\ FoundInv /\ Index => FoundInv'
<1> SUFFICES ASSUME IInv, FoundInv, Index PROVE FoundInv'
  OBVIOUS
<1>1. PICK p0 \in Paths : /\ First(p0) /\ Readable(p0)
                          /\ Upsert(p0, dir[p0], NameAt(p0))
                          /\ seen' = seen \cup {p0} /\ todo' = todo \ {p0}
  BY DEF Index, Seen
<1>2. /\ UNCHANGED <<dir, embeddings, vectors, vecLoaded, settled, disturbed, misses>>
      /\ phase = "visit" /\ phase' = "embed"
  BY DEF Index, hist
<1>3. dir[p0] \in Files /\ NameAt(p0) \in Names
  BY <1>1, FileAt DEF IInv
<1>4. /\ \E s \in skills' : /\ s.name = NameAt(p0) /\ s.file = dir[p0]
                            /\ s.id = current'.id /\ current'.name = NameAt(p0)
                            /\ current'.text = dir[p0].text
      /\ \A s \in skills : s.name # NameAt(p0) => s \in skills' /\ s.id # current'.id
      /\ \A s \in skills' : s \in skills \/ s.path = p0
  BY <1>1, <1>3, UpsertEffect DEF IInv
<1>5. \A p \in Paths : /\ Readable(p)' <=> Readable(p)
                       /\ NameAt(p)' = NameAt(p)
                       /\ Visited(p)' <=> Visited(p) \/ p = p0
  BY <1>1, <1>2 DEF Readable, NameAt, Visited
<1>6. SyncInv'
  <2> SUFFICES ASSUME ~disturbed PROVE SyncInv'
    BY <1>2 DEF SyncInv
  <2>1. /\ \A p \in todo : dir[p] # Absent
        /\ \A p \in Paths, q \in todo : Visited(p) => p < q
        /\ seen = {p \in Paths : Visited(p)}
        /\ \A p \in Paths : LastVisited(p) => Stands(p)
    BY <1>2 DEF FoundInv, SyncInv, Syncing
  <2>2. \A p \in todo' : dir'[p] # Absent
    BY <1>1, <1>2, <2>1
  <2>3. \A p \in Paths, q \in todo' : Visited(p)' => p < q
    <3>1. todo \subseteq Paths /\ Paths \subseteq Int
      BY SkillsAssumption DEF IInv, TypeOK
    <3>2. \A q \in todo' : p0 < q
      BY <1>1, <3>1 DEF First
    <3> QED
      BY <1>1, <1>5, <2>1, <3>2
  <2>4. seen' = {p \in Paths : Visited(p)'}
    BY <1>1, <1>5, <2>1
  <2>5. ASSUME NEW p \in Paths, LastVisited(p)' PROVE Stands(p)'
    <3>1. CASE p = p0
      BY <1>2, <1>4, <1>5, <3>1 DEF Stands, BeingEmbedded
    <3>2. CASE p # p0
      <4>1. Visited(p) /\ \A q \in Paths : q > p /\ Visited(q)' => NameAt(q)' # NameAt(p)'
        BY <1>5, <2>5, <3>2 DEF LastVisited
      <4>2. LastVisited(p)
        BY <1>5, <4>1 DEF LastVisited
      <4>3. NameAt(p) # NameAt(p0)
        <5>1. p < p0
          BY <1>1, <2>1, <4>1 DEF First
        <5>2. p0 > p
          BY <5>1, SkillsAssumption
        <5> QED
          BY <1>5, <4>1, <5>2
      <4>4. PICK s \in skills : /\ s.name = NameAt(p) /\ s.file = dir[p]
                                /\ "server" \notin misses => Embedded(s) \/ BeingEmbedded(s)
        BY <2>1, <4>2 DEF Stands
      <4>5. s \in skills'
        BY <1>4, <4>3, <4>4
      <4>6. "server" \notin misses' => Embedded(s)'
        BY <1>2, <4>4 DEF Embedded, BeingEmbedded
      <4> QED
        BY <1>2, <1>5, <4>4, <4>5, <4>6 DEF Stands
    <3> QED
      BY <3>1, <3>2
  <2> QED
    BY <2>2, <2>3, <2>4, <2>5 DEF SyncInv
<1>7. ServeInv'
  <2>1. settled > 0 => ~disturbed /\ \A s \in skills : Readable(s.path)
    BY DEF FoundInv, ServeInv
  <2>2. \A s \in skills' : s.path \in Paths /\ (settled > 0 => Readable(s.path))
    BY <1>1, <1>4, <2>1 DEF IInv, TypeOK
  <2> QED
    BY <1>2, <1>5, <2>1, <2>2 DEF ServeInv
<1>8. PairInv' /\ NumberInv'
  BY <1>2, SamePairs DEF FoundInv
<1>9. CurrentInv'
  BY <1>4 DEF CurrentInv
<1> QED
  BY <1>6, <1>7, <1>8, <1>9 DEF FoundInv

\* A file that cannot be read is no longer to visit, and was not visited.
LEMMA SkipFound == IInv /\ FoundInv /\ SkipFile => FoundInv'
<1> SUFFICES ASSUME IInv, FoundInv, SkipFile PROVE FoundInv'
  OBVIOUS
<1>1. PICK p0 \in Paths : First(p0) /\ ~Readable(p0) /\ todo' = todo \ {p0}
  BY DEF SkipFile
<1>2. /\ UNCHANGED <<dir, skills, embeddings, vectors, phase, vecLoaded, seen,
                     current, settled, disturbed, misses>>
      /\ phase = "visit"
  BY DEF SkipFile, db, hist
<1>3. \A p \in Paths : /\ Visited(p)' <=> Visited(p)
                       /\ LastVisited(p)' <=> LastVisited(p)
                       /\ Stands(p)' <=> Stands(p)
  BY <1>1, <1>2 DEF Readable, NameAt, Visited, LastVisited, Stands, Embedded,
                    BeingEmbedded
<1>4. SyncInv'
  BY <1>1, <1>2, <1>3 DEF FoundInv, SyncInv, Syncing
<1>5. ServeInv'
  BY <1>2 DEF FoundInv, ServeInv, Readable
<1>6. PairInv' /\ NumberInv' /\ CurrentInv'
  BY <1>2, SamePairs DEF FoundInv, CurrentInv
<1> QED
  BY <1>4, <1>5, <1>6 DEF FoundInv

LEMMA IndexFailsFound == FoundInv /\ IndexFails => FoundInv'
<1> SUFFICES ASSUME FoundInv, IndexFails PROVE FoundInv'
  OBVIOUS
<1>1. /\ UNCHANGED <<skills, embeddings, vectors, vecLoaded, phase, current, misses>>
      /\ settled' = 0 /\ disturbed' = TRUE
  BY DEF IndexFails, db
<1>2. SyncInv' /\ ServeInv'
  BY <1>1 DEF SyncInv, ServeInv
<1>3. PairInv' /\ NumberInv' /\ CurrentInv'
  BY <1>1 DEF FoundInv, PairInv, NumberInv, CurrentInv
<1> QED
  BY <1>2, <1>3 DEF FoundInv

\* The skill stored last gets its embedding, and the others keep theirs.
LEMMA EmbedFound == IInv /\ FoundInv /\ Embed => FoundInv'
<1> SUFFICES ASSUME IInv, FoundInv, Embed PROVE FoundInv'
  OBVIOUS
<1>1. /\ UNCHANGED <<dir, skills, vecLoaded, todo, seen, settled, disturbed, misses>>
      /\ phase = "embed" /\ phase' = "visit"
      /\ PutEmbedding(current)
  BY DEF Embed, hist
<1>2. current \in [id : 1..nextId-1, name : Names, text : Texts]
  BY <1>1 DEF IInv, Held
<1>3. /\ NumberInv'
      /\ \E e \in embeddings' : e.skill = current.id /\ e.text = current.text
      /\ \A e \in embeddings : e.skill # current.id => e \in embeddings'
      /\ /\ vecLoaded
         /\ \A e \in embeddings : \E v \in vectors : v.id = e.id
         /\ \A v \in vectors : \E e \in embeddings : v.id = e.id
         => /\ \A e \in embeddings' : \E v \in vectors' : v.id = e.id
            /\ \A v \in vectors' : \E e \in embeddings' : v.id = e.id
  BY <1>1, <1>2, PutEffect DEF IInv, FoundInv
<1>4. PICK c \in skills : c.id = current.id /\ c.file.text = current.text
  BY <1>1 DEF FoundInv, CurrentInv
<1>5. ASSUME NEW s \in skills, Embedded(s) \/ BeingEmbedded(s) PROVE Embedded(s)'
  <2>1. CASE s.id = current.id
    <3>1. s = c
      BY <1>4, <2>1 DEF IInv, SkillRows
    <3> QED
      BY <1>3, <1>4, <3>1 DEF Embedded
  <2>2. CASE s.id # current.id
    BY <1>3, <1>5, <2>2 DEF Embedded, BeingEmbedded
  <2> QED
    BY <2>1, <2>2
<1>6. \A p \in Paths : /\ Visited(p)' <=> Visited(p)
                       /\ LastVisited(p)' <=> LastVisited(p)
  BY <1>1 DEF Readable, NameAt, Visited, LastVisited
<1>7. \A p \in Paths : Stands(p) => Stands(p)'
  <2> SUFFICES ASSUME NEW p \in Paths, Stands(p) PROVE Stands(p)'
    OBVIOUS
  <2>1. PICK s \in skills : /\ s.name = NameAt(p) /\ s.file = dir[p]
                            /\ "server" \notin misses => Embedded(s) \/ BeingEmbedded(s)
    BY DEF Stands
  <2>2. NameAt(p)' = NameAt(p)
    BY <1>1 DEF NameAt
  <2>3. "server" \notin misses' => Embedded(s)'
    BY <1>1, <1>5, <2>1
  <2> QED
    BY <1>1, <2>1, <2>2, <2>3 DEF Stands
<1>8. SyncInv'
  BY <1>1, <1>6, <1>7 DEF FoundInv, SyncInv, Syncing
<1>9. ServeInv'
  BY <1>1 DEF FoundInv, ServeInv, Readable
<1>10. PairInv'
  BY <1>1, <1>3 DEF FoundInv, PairInv
<1>11. CurrentInv'
  BY <1>1 DEF CurrentInv
<1> QED
  BY <1>3, <1>8, <1>9, <1>10, <1>11 DEF FoundInv

LEMMA EmbedFailsFound == FoundInv /\ EmbedFails => FoundInv'
<1> SUFFICES ASSUME FoundInv, EmbedFails PROVE FoundInv'
  OBVIOUS
<1>1. /\ UNCHANGED <<dir, skills, embeddings, vectors, vecLoaded, todo, seen,
                     settled, disturbed>>
      /\ phase = "embed" /\ phase' = "visit"
      /\ misses \subseteq misses' /\ "server" \in misses'
  BY DEF EmbedFails, db
<1>2. \A p \in Paths : /\ Visited(p)' <=> Visited(p)
                       /\ LastVisited(p)' <=> LastVisited(p)
                       /\ Stands(p) => Stands(p)'
  BY <1>1 DEF Readable, NameAt, Visited, LastVisited, Stands
<1>3. SyncInv'
  BY <1>1, <1>2 DEF FoundInv, SyncInv, Syncing
<1>4. ServeInv'
  BY <1>1 DEF FoundInv, ServeInv, Readable
<1>5. PairInv' /\ NumberInv' /\ CurrentInv'
  BY <1>1, SamePairs DEF FoundInv, CurrentInv
<1> QED
  BY <1>3, <1>4, <1>5 DEF FoundInv

\* When everything has been visited, the last file visited is the last there
\* is; what is pruned are skills without a file.
LEMMA PruneFound == IInv /\ FoundInv /\ Prune => FoundInv'
<1> SUFFICES ASSUME IInv, FoundInv, Prune PROVE FoundInv'
  OBVIOUS
<1>1. /\ UNCHANGED <<dir, embeddings, vectors, vecLoaded, disturbed, misses>>
      /\ phase = "visit" /\ phase' = "serving" /\ todo = {}
      /\ skills' = {s \in skills : s.path \in seen}
      /\ settled' = IF disturbed \/ settled = 2 THEN settled ELSE settled + 1
  BY DEF Prune
<1>2. settled \in 0..2 /\ \A s \in skills : s.path \in Paths
  BY DEF IInv, TypeOK
<1>3. settled > 0 => ~disturbed /\ \A s \in skills : Readable(s.path)
  BY DEF FoundInv, ServeInv
<1>4. ASSUME ~disturbed
      PROVE  /\ seen = {p \in Paths : Readable(p)}
             /\ \A p \in Paths : Decides(p) => Stands(p)
  <2>1. /\ seen = {p \in Paths : Visited(p)}
        /\ \A p \in Paths : LastVisited(p) => Stands(p)
    BY <1>1, <1>4 DEF FoundInv, SyncInv, Syncing
  <2>2. \A p \in Paths : /\ Visited(p) <=> Readable(p)
                         /\ LastVisited(p) <=> Decides(p)
    BY <1>1 DEF Visited, LastVisited, Decides
  <2> QED
    BY <2>1, <2>2
<1>5. settled' > 0 => ~disturbed' /\ \A s \in skills' : Readable(s.path)'
  <2>1. settled' > 0 => ~disturbed
    BY <1>1, <1>2, <1>3
  <2>2. ~disturbed => \A s \in skills' : Readable(s.path)
    BY <1>1, <1>4
  <2> QED
    BY <1>1, <2>1, <2>2 DEF Readable
<1>6. ASSUME settled' = 2, NEW p \in Paths, Decides(p)' PROVE Stands(p)'
  <2>1. settled > 0 /\ ~disturbed
    BY <1>1, <1>2, <1>3, <1>6
  <2>2. skills' = skills
    BY <1>1, <1>2, <1>3, <1>4, <2>1
  <2>3. Decides(p)
    BY <1>1, <1>6 DEF Decides, Readable, NameAt
  <2>4. Stands(p)
    BY <1>4, <2>1, <2>3
  <2> QED
    BY <1>1, <2>2, <2>4 DEF Stands, Embedded, BeingEmbedded, NameAt
<1>7. ServeInv'
  BY <1>5, <1>6 DEF ServeInv
<1>8. SyncInv' /\ CurrentInv'
  BY <1>1 DEF SyncInv, Syncing, CurrentInv
<1>9. PairInv' /\ NumberInv'
  BY <1>1, SamePairs DEF FoundInv
<1> QED
  BY <1>7, <1>8, <1>9 DEF FoundInv

LEMMA StopFound == FoundInv /\ Stop => FoundInv'
<1> SUFFICES ASSUME FoundInv, Stop PROVE FoundInv'
  OBVIOUS
<1>1. /\ UNCHANGED <<dir, skills, embeddings, vectors, vecLoaded, settled,
                     disturbed, misses>>
      /\ phase' = "down"
  BY DEF Stop, db, hist
<1>2. SyncInv' /\ CurrentInv'
  BY <1>1 DEF SyncInv, Syncing, CurrentInv
<1>3. ServeInv'
  BY <1>1 DEF FoundInv, ServeInv, Readable
<1>4. PairInv' /\ NumberInv'
  BY <1>1, SamePairs DEF FoundInv
<1> QED
  BY <1>2, <1>3, <1>4 DEF FoundInv

LEMMA FoundStep == IInv /\ FoundInv /\ [Next]_vars => FoundInv'
<1> SUFFICES ASSUME IInv, FoundInv, [Next]_vars PROVE FoundInv'
  OBVIOUS
<1>1. CASE UNCHANGED vars
  <2>1. UNCHANGED <<dir, skills, embeddings, vectors, phase, vecLoaded, todo,
                    seen, current, settled, disturbed, misses>>
    BY <1>1 DEF vars, db, hist
  <2>2. \A p \in Paths : /\ Visited(p)' <=> Visited(p)
                         /\ LastVisited(p)' <=> LastVisited(p)
                         /\ Decides(p)' <=> Decides(p)
                         /\ Stands(p)' <=> Stands(p)
    BY <2>1 DEF Readable, NameAt, Visited, LastVisited, Decides, Stands,
                Embedded, BeingEmbedded
  <2>3. SyncInv'
    BY <2>1, <2>2 DEF FoundInv, SyncInv, Syncing
  <2>4. ServeInv'
    BY <2>1, <2>2 DEF FoundInv, ServeInv, Readable
  <2>5. PairInv' /\ NumberInv' /\ CurrentInv'
    BY <2>1 DEF FoundInv, PairInv, NumberInv, CurrentInv
  <2> QED
    BY <2>3, <2>4, <2>5 DEF FoundInv
<1> QED
  BY <1>1, EditFound, StartFound, IndexFound, SkipFound, IndexFailsFound,
     EmbedFound, EmbedFailsFound, PruneFound, StopFound DEF Next

LEMMA FoundInvariance == Spec => []FoundInv
<1>1. Init => FoundInv
  BY FoundInit
<1>2. IInv /\ FoundInv /\ [Next]_vars => FoundInv'
  BY FoundStep
<1> QED
  BY <1>1, <1>2, Invariance, PTL DEF Spec

\* A skill that stands is what the searches return for its file.
LEMMA StandingIsFound ==
  ASSUME IInv, FoundInv, phase = "serving",
         NEW p \in Paths, Readable(p), Stands(p)
  PROVE  \E s \in skills :
           /\ s.name = NameAt(p) /\ s.file = dir[p]
           /\ s \in Retrieve(dir[p].text, FALSE)
           /\ misses = {} => s \in VectorHits(dir[p].text)
<1>1. PICK s \in skills : /\ s.name = NameAt(p) /\ s.file = dir[p]
                          /\ "server" \notin misses => Embedded(s) \/ BeingEmbedded(s)
  BY DEF Stands
<1>2. s \in Retrieve(dir[p].text, FALSE)
  <2> DEFINE row == [id |-> s.id, name |-> s.name, text |-> s.file.text]
  <2>1. row \in fts
    BY DEF IInv, SkillRows
  <2>2. row.id = s.id /\ row.text = dir[p].text
    BY <1>1
  <2> HIDE DEF row
  <2> QED
    BY <2>1, <2>2 DEF Retrieve, LexicalHits
<1>3. ASSUME misses = {} PROVE s \in VectorHits(dir[p].text)
  <2>1. PICK e \in embeddings : e.skill = s.id /\ e.text = dir[p].text
    BY <1>1, <1>3 DEF Embedded, BeingEmbedded
  <2>2. vecLoaded /\ \E v \in vectors : v.id = e.id
    BY <1>3 DEF FoundInv, PairInv
  <2>3. PICK v \in vectors : v.id = e.id
    BY <2>2
  <2>4. v.text = dir[p].text
    BY <2>1, <2>3 DEF IInv, VectorRows
  <2>5. e.id \in Nearest(dir[p].text)
    BY <2>2, <2>3, <2>4 DEF Nearest
  <2> QED
    BY <2>1, <2>5 DEF VectorHits
<1> QED
  BY <1>1, <1>2, <1>3

\* FoundOnceSettled holds in every behaviour: after two starts over a directory
\* that nobody edited, retrieval finds what the files say and no skill is left
\* without its file, for any directory and whatever happened before (sync and
\* everything it calls, the searches).
THEOREM AlwaysFoundOnceSettled == Spec => []FoundOnceSettled
<1>1. IInv /\ FoundInv => FoundOnceSettled
  <2> SUFFICES ASSUME IInv, FoundInv, phase = "serving" PROVE FoundOnceSettled
    BY DEF FoundOnceSettled
  <2>1. ServeInv
    BY DEF FoundInv
  <2>2. settled > 0 => \A s \in skills : Readable(s.path)
    BY <2>1 DEF ServeInv
  <2>3. ASSUME settled = 2, NEW p \in Paths, Decides(p)
        PROVE  \E s \in skills :
                 /\ s.name = NameAt(p) /\ s.file = dir[p]
                 /\ s \in Retrieve(dir[p].text, FALSE)
                 /\ misses = {} => s \in VectorHits(dir[p].text)
    <3>1. Readable(p) /\ Stands(p)
      BY <2>1, <2>3 DEF ServeInv, Decides
    <3> QED
      BY <3>1, StandingIsFound
  <2> QED
    BY <2>2, <2>3 DEF FoundOnceSettled
<1> QED
  BY <1>1, Invariance, FoundInvariance, PTL
=============================================================================
