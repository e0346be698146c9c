----------------------------- MODULE SkillIndex -----------------------------
(***************************************************************************)
(* The skills of a directory and the tables made from them: sync           *)
(* (memory/skills.py), upsert_skill, put_embedding, remove_missing_skills  *)
(* and the searches (memory/repository.py, memory/retrieval.py).           *)
(*                                                                         *)
(* sync runs once, before the process serves.  Each repository call is a   *)
(* transaction, between two of them the process can die, the embedding     *)
(* server can fail, and somebody can edit the directory at any time.       *)
(***************************************************************************)
EXTENDS Integers, FiniteSets

CONSTANTS
  Paths,       \* skills/<folder>/SKILL.md, in sorted order; a set of integers
  Names,       \* names of skills; the folder of path p has the name p
  Texts,       \* what the description, triggers and body say
  ToolLists,   \* the tools of a skill: hashed, but neither indexed nor embedded
  NoName,      \* a file that names none
  Absent, Unreadable,
  MaxEdits, MaxStarts   \* bounds

Files == [name : Names \cup {NoName}, text : Texts, tools : ToolLists]

ASSUME SkillsAssumption ==
  /\ Paths \subseteq Int /\ Paths \subseteq Names /\ NoName \notin Names
  /\ Absent \notin Files /\ Unreadable \notin Files
  /\ MaxEdits \in Nat /\ MaxStarts \in Nat

VARIABLES
  dir,         \* what is at each path
  skills,      \* table skills
  fts,         \* table skills_fts
  embeddings,  \* table embeddings: id, the skill, what was embedded
  vectors,     \* table memory_vectors: rowid, what was embedded
  phase,       \* where the process is
  vecLoaded,   \* it has the sqlite-vec extension
  todo,        \* paths the loop has still to visit
  seen,        \* the set of that name
  current,     \* the skill whose embedding is being made
  nextId,      \* ids of skills are never used twice
  edits, starts,
  settled,     \* history: undisturbed syncs since the last edit or failure, 0..2
  disturbed,   \* history: this sync saw an edit or a failure
  misses       \* history: why a vector may be missing

db   == <<skills, fts, embeddings, vectors, nextId>>
hist == <<settled, disturbed, misses>>
vars == <<dir, db, phase, vecLoaded, todo, seen, current, edits, starts, hist>>

Readable(p) == dir[p] \notin {Absent, Unreadable}

\* parse_skill: the name in the metadata, else that of the folder.
NameAt(p) == IF dir[p].name = NoName THEN p ELSE dir[p].name

\* The loop visits the paths in sorted order.
First(p) == p \in todo /\ \A q \in todo : p <= q

NoSkill == [id |-> 0, name |-> NoName, text |-> NoName]

Init ==
  /\ dir \in [Paths -> Files \cup {Absent, Unreadable}]
  /\ skills = {} /\ fts = {} /\ embeddings = {} /\ vectors = {}
  /\ nextId = 1
  /\ phase = "down" /\ vecLoaded = FALSE
  /\ todo = {} /\ seen = {} /\ current = NoSkill
  /\ edits = 0 /\ starts = 0
  /\ settled = 0 /\ disturbed = FALSE /\ misses = {}

-----------------------------------------------------------------------------
(***************************************************************************)
(* The directory: written, spoilt, deleted, moved.                         *)
(***************************************************************************)

Edit ==
  /\ edits < MaxEdits /\ edits' = edits + 1
  /\ \/ \E p \in Paths, c \in Files \cup {Absent, Unreadable} :
          /\ c # dir[p]
          /\ dir' = [dir EXCEPT ![p] = c]
     \/ \E p, q \in Paths :
          /\ dir[p] # Absent /\ dir[q] = Absent
          /\ dir' = [dir EXCEPT ![p] = Absent, ![q] = dir[p]]
  /\ settled' = 0 /\ disturbed' = TRUE
  /\ UNCHANGED <<db, phase, vecLoaded, todo, seen, current, starts, misses>>

-----------------------------------------------------------------------------
(***************************************************************************)
(* One repository call each.                                               *)
(***************************************************************************)

\* Mutant: the full-text row is written only for a new skill.
Reindex_NewOnly(id, n, text) ==
  fts' = IF \E r \in fts : r.id = id THEN fts
         ELSE fts \cup {[id |-> id, name |-> n, text |-> text]}

\* The last statements of upsert_skill, which run whether or not the row
\* changed.
Reindex(id, n, text) ==
  fts' = {r \in fts : r.id # id} \cup {[id |-> id, name |-> n, text |-> text]}

\* upsert_skill.  An unchanged file leaves the row, and its path, as it is.
Upsert(p, f, n) ==
  LET found == {s \in skills : s.name = n}
  IN  \E id \in IF found = {} THEN {nextId} ELSE {s.id : s \in found} :
        /\ skills' = IF \E s \in found : s.file = f THEN skills
                     ELSE (skills \ found)
                            \cup {[id |-> id, name |-> n, path |-> p, file |-> f]}
        /\ nextId' = IF found = {} THEN nextId + 1 ELSE nextId
        /\ Reindex(id, n, f.text)
        /\ current' = [id |-> id, name |-> n, text |-> f.text]

\* SQLite gives a row the number after the largest one.
NextRow(rows) ==
  IF rows = {} THEN 1
  ELSE 1 + CHOOSE i \in {r.id : r \in rows} : \A r \in rows : r.id <= i

\* Mutant: the row number is taken after the old rows were deleted, and a
\* vector whose deletion failed is still there under it.
RowFor_AfterDelete(old) == NextRow(embeddings \ old)

\* The flush inserts the new row before it deletes the old ones.
RowFor(old) == NextRow(embeddings)

\* put_embedding.  Without the extension each statement on memory_vectors
\* fails, and so does the insertion of a row number in use; both failures are
\* ignored.
PutEmbedding(skill) ==
  LET old   == {e \in embeddings : e.skill = skill.id}
      known == \E e \in old : e.name = skill.name /\ e.text = skill.text
      row   == RowFor(old)
      new   == [id |-> row, skill |-> skill.id, name |-> skill.name,
                text |-> skill.text]
      left  == {v \in vectors : \A e \in old : v.id # e.id}
  IN  IF known THEN UNCHANGED <<embeddings, vectors>>
      ELSE /\ embeddings' = (embeddings \ old) \cup {new}
           /\ vectors' = IF ~vecLoaded \/ \E v \in left : v.id = row
                         THEN vectors
                         ELSE left \cup {[id |-> row, name |-> skill.name,
                                          text |-> skill.text]}

-----------------------------------------------------------------------------
(***************************************************************************)
(* sync.                                                                   *)
(***************************************************************************)

\* The process starts, with or without the extension, and lists the files.
Start ==
  /\ phase = "down" /\ starts < MaxStarts
  /\ starts' = starts + 1
  /\ vecLoaded' \in BOOLEAN
  /\ phase' = "visit"
  /\ todo' = {p \in Paths : dir[p] # Absent} /\ seen' = {}
  /\ disturbed' = FALSE
  /\ misses' = (misses \ {"server"})
                 \cup (IF vecLoaded' THEN {} ELSE {"extension"})
  /\ UNCHANGED <<dir, db, current, edits, settled>>

\* Mutant: a skill counts as seen only when its embedding was made.
Seen_WhenEmbedded(p) == seen

\* The path is noted before the embedding is asked for.
Seen(p) == seen \cup {p}

Index ==
  /\ phase = "visit"
  /\ \E p \in Paths :
       /\ First(p) /\ Readable(p)
       /\ Upsert(p, dir[p], NameAt(p))
       /\ seen' = Seen(p)
       /\ todo' = todo \ {p}
  /\ phase' = "embed"
  /\ UNCHANGED <<dir, embeddings, vectors, vecLoaded, edits, starts, hist>>

\* The file cannot be read, or vanished after it was listed.
SkipFile ==
  /\ phase = "visit"
  /\ \E p \in Paths : First(p) /\ ~Readable(p) /\ todo' = todo \ {p}
  /\ UNCHANGED <<dir, db, phase, vecLoaded, seen, current, edits, starts, hist>>

\* upsert_skill raises and is rolled back.
IndexFails ==
  /\ phase = "visit"
  /\ \E p \in Paths : First(p) /\ Readable(p) /\ todo' = todo \ {p}
  /\ settled' = 0 /\ disturbed' = TRUE
  /\ UNCHANGED <<dir, db, phase, vecLoaded, seen, current, edits, starts,
                 misses>>

Embed ==
  /\ phase = "embed"
  /\ PutEmbedding(current)
  /\ phase' = "visit" /\ current' = NoSkill
  /\ UNCHANGED <<dir, skills, fts, nextId, vecLoaded, todo, seen, edits,
                 starts, hist>>

\* The server fails, or put_embedding does; the loop goes on.
EmbedFails ==
  /\ phase = "embed"
  /\ phase' = "visit" /\ current' = NoSkill
  /\ misses' = misses \cup {"server"}
  /\ UNCHANGED <<dir, db, vecLoaded, todo, seen, edits, starts, settled,
                 disturbed>>

\* remove_missing_skills.  Embeddings of the skills removed stay behind.
Prune ==
  /\ phase = "visit" /\ todo = {}
  /\ LET gone == {s \in skills : s.path \notin seen}
     IN  /\ skills' = skills \ gone
         /\ fts' = {r \in fts : \A s \in gone : r.id # s.id}
  /\ phase' = "serving" /\ seen' = {}
  /\ settled' = IF disturbed \/ settled = 2 THEN settled ELSE settled + 1
  /\ UNCHANGED <<dir, embeddings, vectors, nextId, vecLoaded, todo, current,
                 edits, starts, disturbed, misses>>

\* The process stops, wherever it is; a remove_missing_skills that raises
\* stops it too.
Stop ==
  /\ phase # "down"
  /\ phase' = "down" /\ todo' = {} /\ seen' = {} /\ current' = NoSkill
  /\ UNCHANGED <<dir, db, vecLoaded, edits, starts, hist>>

Next ==
  \/ Edit
  \/ Start \/ Index \/ SkipFile \/ IndexFails \/ Embed \/ EmbedFails
  \/ Prune \/ Stop

Spec == Init /\ [][Next]_vars

-----------------------------------------------------------------------------
(***************************************************************************)
(* The searches.  Ranks and limits are left out: a query is the text it is *)
(* closest to, and finds whatever was stored with that text.               *)
(***************************************************************************)

\* search_skills_fts
LexicalHits(query) ==
  {s \in skills : \E r \in fts : r.id = s.id /\ r.text = query}

\* _nearest_embedding_distances: row numbers, or every embedding for want of
\* the extension; a row whose vector is missing is passed over.
Nearest(query) ==
  IF vecLoaded THEN {v.id : v \in {w \in vectors : w.text = query}}
  ELSE {e.id : e \in {x \in embeddings : x.text = query}}

\* vector_skill_candidates
VectorHits(query) ==
  {s \in skills : \E e \in embeddings : e.skill = s.id /\ e.id \in Nearest(query)}

\* retrieve: without the embedding server the lexical hits alone.
Retrieve(query, server) ==
  LexicalHits(query) \cup (IF server THEN VectorHits(query) ELSE {})

-----------------------------------------------------------------------------
(***************************************************************************)
(* Properties.                                                             *)
(***************************************************************************)

TypeOK ==
  /\ dir \in [Paths -> Files \cup {Absent, Unreadable}]
  /\ skills \subseteq [id : 1..nextId-1, name : Names, path : Paths,
                       file : Files]
  /\ fts \subseteq [id : 1..nextId-1, name : Names, text : Texts]
  /\ embeddings \subseteq [id : Nat \ {0}, skill : 1..nextId-1, name : Names,
                           text : Texts]
  /\ vectors \subseteq [id : Nat \ {0}, name : Names, text : Texts]
  /\ phase \in {"down", "visit", "embed", "serving"}
  /\ vecLoaded \in BOOLEAN /\ todo \subseteq Paths /\ seen \subseteq Paths
  /\ current \in [id : 1..nextId-1, name : Names, text : Texts] \cup {NoSkill}
  /\ nextId \in Nat \ {0} /\ edits \in 0..MaxEdits /\ starts \in 0..MaxStarts
  /\ settled \in 0..2 /\ disturbed \in BOOLEAN
  /\ misses \subseteq {"server", "extension"}

\* The search tables say what the tables they were made from say, whenever
\* the process dies: there is one row of skills_fts for each skill, with what
\* the skill says, and a vector under the number of an embedding is that
\* embedding's (upsert_skill, remove_missing_skills, put_embedding).
SearchTablesAgree ==
  /\ fts = {[id |-> s.id, name |-> s.name, text |-> s.file.text] : s \in skills}
  /\ \A s, t \in skills : s.name = t.name \/ s.id = t.id => s = t
  /\ \A v \in vectors, e \in embeddings :
       v.id = e.id => v.name = e.name /\ v.text = e.text

\* The file whose skill stands: the last in order among those of its name.
Decides(p) ==
  Readable(p) /\ \A q \in Paths : q > p /\ Readable(q) => NameAt(q) # NameAt(p)

\* Two starts over a directory that nobody edits are enough, one is not: what
\* the agent then retrieves is what the files say, lexically whatever happened
\* to the embeddings, and by vector unless the embedding server failed or a
\* process ran without the extension; and no skill is kept whose file is gone
\* (sync, and everything it calls).
FoundOnceSettled ==
  phase = "serving" =>
    /\ settled = 2 =>
         \A p \in Paths : Decides(p) =>
           \E s \in skills :
             /\ s.name = NameAt(p) /\ s.file = dir[p]
             /\ s \in Retrieve(dir[p].text, FALSE)
             /\ misses = {} => s \in VectorHits(dir[p].text)
    /\ settled > 0 => \A s \in skills : Readable(s.path)
=============================================================================
