------------------------------- MODULE Recall -------------------------------
(***************************************************************************)
(* What a turn is told of long-term memory: HybridRetriever.retrieve       *)
(* (memory/retrieval.py) over the tables of memories, summaries and        *)
(* embeddings (memory/repository.py), while other threads change them.     *)
(*                                                                         *)
(* A retrieval is up to four read transactions and, between the lexical    *)
(* and the vector searches, a call to the embedding server.  A write is a  *)
(* transaction, a call to that server, and a second transaction that       *)
(* stores the embedding.  The process may be one that has the sqlite-vec   *)
(* extension or one that has not.                                          *)
(*                                                                         *)
(* Scores, weights and confidences are percentages.  What a text has to do *)
(* with the query is given by three functions: its lexical strength (the   *)
(* absolute bm25 rank, 0 for no match), its cosine, and its distance in    *)
(* memory_vectors.                                                         *)
(***************************************************************************)
EXTENDS Integers, Sequences, FiniteSets

CONSTANTS
  Owners, Asker,       \* principals, and the one whose turn retrieves
  Keys, Texts,         \* keys and values of memories
  Bodies,              \* ... and what a summary may say
  Strength, Cosine, Distance,
  Confidences,         \* of memories
  LexicalWeight, VectorWeight, MinimumVectorScore,
  Limit,               \* memory_limit
  Nearest,             \* for each kind, k of its search in memory_vectors
  MaxEntries,          \* bound: rows of both tables
  MaxWriters           \* bound: threads that write at a time

ASSUME RelevanceAssumption ==
  /\ Bodies \subseteq Texts
  /\ Strength \in [Texts -> Nat]
  /\ Cosine \in [Texts -> Int] /\ Distance \in [Texts -> Nat]
ASSUME RecallAssumption ==
  /\ Asker \in Owners /\ Confidences \subseteq Nat
  /\ LexicalWeight \in Nat /\ VectorWeight \in Nat /\ MinimumVectorScore \in Nat
  /\ Limit \in Nat \ {0} /\ Nearest \in [{"memory", "summary"} -> Nat \ {0}]
  /\ MaxEntries \in Nat /\ MaxWriters \in Nat

VARIABLES
  entries,     \* memories and conversation_summaries, in order of insertion
  embedded,    \* entries that have a row in embeddings
  vectors,     \* ... and in memory_vectors
  vecLoaded,   \* the process has the sqlite-vec extension
  embedding,   \* entries whose embedding some thread is computing
  stage,       \* where the retrieval is
  query,       \* "words" | "blank"
  lexical, semantic,   \* hits so far
  shown,       \* what retrieve returned
               \* history, of the retrieval under way:
  alive,       \*   entries active at some time since it began
  steady,      \*   entries active all that time
  reachable,   \*   entries its vector searches could see when it began;
               \*   none if they are skipped or fail
  touched      \*   keys of Asker written since it began

store   == <<entries, embedded, vectors, vecLoaded, embedding>>
search  == <<stage, query, lexical, semantic, shown>>
history == <<alive, steady, reachable, touched>>
vars    == <<store, search, history>>

Kinds == {"memory", "summary"}
Entry == [kind : Kinds, owner : Owners, key : Keys, text : Texts,
          confidence : Nat, state : {"active", "superseded", "forgotten"}]
Hit == [id : Nat \ {0}, score : Nat, confidence : Nat]
Shown == [id : Nat \ {0}, score : Nat]

\* The confidence of a summary's hit.
SummaryConfidence == 85

Ids == DOMAIN entries
Active == {i \in Ids : entries[i].state = "active"}
ActiveRow(o, k) ==
  {i \in Active : entries[i].kind = "memory" /\ entries[i].owner = o
                  /\ entries[i].key = k}

\* What a search of one kind of entry may return to Asker.
Eligible(kind) ==
  {i \in Active : entries[i].kind = kind /\ entries[i].owner = Asker}

\* The possible answers of ORDER BY ... LIMIT n: n members of S such that no
\* other has more weight.  Ties are broken either way.
Best(S, n, weight) ==
  {T \in SUBSET S :
     /\ Cardinality(T) <= n
     /\ T = S \/ Cardinality(T) = n
     /\ \A i \in T, j \in S \ T : weight[j] <= weight[i]}

TextOf(i) == entries[i].text
IdsOf(hits) == {h.id : h \in hits}

-----------------------------------------------------------------------------

Init ==
  /\ entries = <<>> /\ embedded = {} /\ vectors = {} /\ embedding = {}
  /\ vecLoaded \in BOOLEAN
  /\ stage = "idle" /\ query = "blank"
  /\ lexical = {} /\ semantic = {} /\ shown = {}
  /\ alive = {} /\ steady = {} /\ reachable = {} /\ touched = {}

(***************************************************************************)
(* Writers: a turn's tool, the consolidator.                               *)
(***************************************************************************)

\* upsert_memory finds the value it is given: it raises the confidence.
Confirm(i, c) ==
  /\ Cardinality(embedding) < MaxWriters
  /\ entries' = [entries EXCEPT ![i].confidence = IF @ < c THEN c ELSE @]
  /\ embedding' = embedding \cup {i}
  /\ UNCHANGED <<embedded, vectors, vecLoaded, search, history>>

\* Mutant: the old row is not retired.
Retired_None(old, state) == entries

Retired(old, state) ==
  [i \in Ids |-> IF i \in old THEN [entries[i] EXCEPT !.state = state]
                 ELSE entries[i]]

\* A write of key k of owner o while a retrieval is under way.
Noticed(retired, added, o, k) ==
  IF stage = "idle" THEN UNCHANGED history
  ELSE /\ alive' = alive \cup added
       /\ steady' = steady \ retired
       /\ touched' = touched \cup {key \in {k} : o = Asker}
       /\ UNCHANGED reachable

Added(old, e) ==
  /\ Len(entries) < MaxEntries /\ Cardinality(embedding) < MaxWriters
  /\ entries' = Append(Retired(old, "superseded"), e)
  /\ embedding' = embedding \cup {Len(entries) + 1}
  /\ Noticed(old, {Len(entries) + 1}, e.owner, e.key)
  /\ UNCHANGED <<embedded, vectors, vecLoaded, search>>

Remember(o, k, x, c) ==
  \/ \E i \in ActiveRow(o, k) : TextOf(i) = x /\ Confirm(i, c)
  \/ /\ \A i \in ActiveRow(o, k) : TextOf(i) # x
     /\ Added(ActiveRow(o, k),
              [kind |-> "memory", owner |-> o, key |-> k, text |-> x,
               confidence |-> c, state |-> "active"])

\* put_summary; a summary is never retired.  Its key is the range it covers.
Summarise(o, k, x) ==
  /\ \A i \in Ids : entries[i].kind = "summary" =>
       entries[i].owner # o \/ entries[i].key # k
  /\ Added({}, [kind |-> "summary", owner |-> o, key |-> k, text |-> x,
                confidence |-> SummaryConfidence, state |-> "active"])

Forget(o, k) ==
  /\ ActiveRow(o, k) # {}
  /\ entries' = Retired(ActiveRow(o, k), "forgotten")
  /\ Noticed(ActiveRow(o, k), {}, o, k)
  /\ UNCHANGED <<embedded, vectors, vecLoaded, embedding, search>>

\* put_embedding: what is already embedded is left alone, also when it has
\* no vector because another process without the extension embedded it.
PutEmbedding(i) ==
  /\ i \in embedding
  /\ embedding' = embedding \ {i}
  /\ embedded' = embedded \cup {i}
  /\ vectors' = IF vecLoaded /\ i \notin embedded THEN vectors \cup {i}
                ELSE vectors
  /\ UNCHANGED <<entries, vecLoaded, search, history>>

\* The embedding server is down or its answer is no vector: the entry stays
\* without an embedding.
EmbeddingFails(i) ==
  /\ i \in embedding
  /\ embedding' = embedding \ {i}
  /\ UNCHANGED <<entries, embedded, vectors, vecLoaded, search, history>>

(***************************************************************************)
(* The retrieval.                                                          *)
(***************************************************************************)

Begin ==
  /\ stage = "idle"
  /\ stage' = "memories"
  /\ query' \in {"words", "blank"}
  /\ alive' = Active /\ steady' = Active
  /\ reachable' = IF query' = "blank" THEN {}
                  ELSE IF vecLoaded THEN vectors ELSE embedded
  /\ UNCHANGED <<store, lexical, semantic, shown, touched>>

ConfidenceOf(i) == entries[i].confidence

Matching(kind) ==
  {i \in Eligible(kind) : query = "words" /\ Strength[TextOf(i)] > 0}

\* 1 / (1 + |bm25|)
LexicalScore(i) == 100 \div (1 + Strength[TextOf(i)])

LexicalHits(T) ==
  {[id |-> i, score |-> LexicalScore(i), confidence |-> ConfidenceOf(i)] : i \in T}

\* search_memories_fts, search_summaries_fts: the strongest matches.
SearchLexical(kind, n, next) ==
  /\ \E T \in Best(Matching(kind), n,
                   [i \in Matching(kind) |-> Strength[TextOf(i)]]) :
       lexical' = lexical \cup LexicalHits(T)
  /\ stage' = next
  /\ UNCHANGED <<store, query, semantic, shown, history>>

LexicalMemories ==
  stage = "memories" /\ SearchLexical("memory", 2 * Limit, "summaries")
LexicalSummaries ==
  stage = "summaries" /\ SearchLexical("summary", Limit, "embedding")

\* No embedding is asked for a blank query.
SkipVectors ==
  /\ stage = "embedding" /\ query = "blank"
  /\ stage' = "merging"
  /\ UNCHANGED <<store, query, lexical, semantic, shown, history>>

\* Mutant: what the lexical search found is dropped as well.
VectorsFail_DropsAll ==
  /\ stage \in {"embedding", "vectors"} /\ query # "blank"
  /\ stage' = "merging" /\ reachable' = {}
  /\ lexical' = {}
  /\ UNCHANGED <<store, query, semantic, shown, alive, steady, touched>>

\* An exception of the embedding server or of a vector search is logged;
\* what was found so far is kept.
VectorsFail ==
  /\ stage \in {"embedding", "vectors"} /\ query # "blank"
  /\ stage' = "merging" /\ reachable' = {}
  /\ UNCHANGED <<store, query, lexical, semantic, shown,
                 alive, steady, touched>>

\* Mutant: the extension is asked for one vector less.
NearestSets_OneLess(kind) ==
  IF vecLoaded THEN Best(vectors, Nearest[kind] - 1,
                         [j \in vectors |-> -Distance[TextOf(j)]])
  ELSE {embedded}

\* _nearest_embedding_distances: the k nearest vectors, whoever's they are
\* and whatever became of their entries; without the extension every
\* embedding is compared.
NearestSets(kind) ==
  IF vecLoaded THEN Best(vectors, Nearest[kind],
                         [j \in vectors |-> -Distance[TextOf(j)]])
  ELSE {embedded}

\* One minus the distance that sqlite-vec reports, or the cosine.
VectorScore(i) ==
  LET s == IF vecLoaded THEN 100 - Distance[TextOf(i)] ELSE Cosine[TextOf(i)]
  IN  IF s > 0 THEN s ELSE 0

\* Mutant: the state of the row is not looked at.
Candidates_AnyState(kind, near) ==
  {i \in near \cap embedded : entries[i].kind = kind /\ entries[i].owner = Asker}

Candidates(kind, near) == Eligible(kind) \cap embedded \cap near

VectorHits(T) ==
  {[id |-> i, score |-> VectorScore(i), confidence |-> ConfidenceOf(i)] : i \in T}

\* vector_memory_candidates, vector_summary_candidates.
SearchVectors(kind, n, next) ==
  /\ \E near \in NearestSets(kind) :
       \E T \in Best(Candidates(kind, near), n,
                     [i \in Candidates(kind, near) |-> VectorScore(i)]) :
         semantic' = semantic \cup VectorHits(T)
  /\ stage' = next
  /\ UNCHANGED <<store, query, lexical, shown, history>>

\* The embedding call returns and the first search follows.
VectorMemories ==
  /\ stage = "embedding" /\ query # "blank"
  /\ SearchVectors("memory", 2 * Limit, "vectors")
VectorSummaries ==
  stage = "vectors" /\ SearchVectors("summary", Limit, "merging")

\* Hits of the vector search below the minimum do not count.
Near == {h \in semantic : h.score >= MinimumVectorScore}

Found == IdsOf(lexical) \cup IdsOf(Near)

\* The confidence of an entry found twice is the one read last.
Weight(i) ==
  LET l == {h \in lexical : h.id = i}
      v == {h \in Near : h.id = i}
      part(hits, w) == IF hits = {} THEN 0 ELSE w * (CHOOSE h \in hits : TRUE).score
      last == CHOOSE h \in IF v = {} THEN l ELSE v : TRUE
  IN  (part(l, LexicalWeight) + part(v, VectorWeight)) * last.confidence

\* _merge_memories and the cut to memory_limit; what is shown goes to the
\* prompt in the order of these scores.
Merge ==
  /\ stage = "merging"
  /\ \E T \in Best(Found, Limit, [i \in Found |-> Weight(i)]) :
       shown' = {[id |-> i, score |-> Weight(i)] : i \in T}
  /\ stage' = "done"
  /\ UNCHANGED <<store, query, lexical, semantic, history>>

\* The retrieval is over and its hits are forgotten.
Quiet ==
  /\ stage' = "idle" /\ query' = "blank"
  /\ lexical' = {} /\ semantic' = {} /\ shown' = {}
  /\ alive' = {} /\ steady' = {} /\ reachable' = {} /\ touched' = {}

\* render puts the hits into the prompt.
Render == stage = "done" /\ Quiet /\ UNCHANGED store

\* The process dies and another starts, with the extension or without; the
\* table memory_vectors is there if the first one had it.
Restart ==
  /\ embedding' = {} /\ vecLoaded' \in BOOLEAN
  /\ Quiet
  /\ UNCHANGED <<entries, embedded, vectors>>

-----------------------------------------------------------------------------

Write ==
  \/ \E o \in Owners, k \in Keys :
       \/ Forget(o, k)
       \/ \E x \in Bodies : Summarise(o, k, x)
       \/ \E x \in Texts, c \in Confidences : Remember(o, k, x, c)
  \/ \E i \in embedding : PutEmbedding(i) \/ EmbeddingFails(i)

Retrieve == \/ Begin \/ LexicalMemories \/ LexicalSummaries \/ SkipVectors
            \/ VectorsFail \/ VectorMemories \/ VectorSummaries
            \/ Merge \/ Render

\* Merge and Render read and write nothing that others do: no one else takes a
\* step between the last search and the end of the retrieval.
Local == stage \in {"merging", "done"}

Next == \/ Retrieve
        \/ ~Local /\ Write
        \/ ~Local /\ Restart

Spec == Init /\ [][Next]_vars

-----------------------------------------------------------------------------
(***************************************************************************)
(* Properties.                                                             *)
(***************************************************************************)

TypeOK ==
  /\ entries \in Seq(Entry)
  /\ vectors \subseteq embedded /\ embedded \subseteq Ids /\ embedding \subseteq Ids
  /\ vecLoaded \in BOOLEAN
  /\ stage \in {"idle", "memories", "summaries", "embedding", "vectors",
                "merging", "done"}
  /\ query \in {"words", "blank"}
  /\ lexical \subseteq Hit /\ semantic \subseteq Hit /\ shown \subseteq Shown
  /\ IdsOf(lexical) \cup IdsOf(semantic) \subseteq Ids /\ IdsOf(shown) \subseteq Ids
  /\ alive \subseteq Ids /\ steady \subseteq alive /\ reachable \subseteq embedded
  /\ touched \subseteq Keys

\* The model is told only what was in force: every entry it is shown was the
\* asker's own and active at some moment of this very retrieval, however old
\* the hits of the first searches are when the last one is done (retrieve;
\* the embedding call between them can take its whole time limit).
RecalledWasActive ==
  \A i \in IdsOf(shown) : i \in alive /\ entries[i].owner = Asker

\* Two values of one key are shown together only if that key was written
\* while the retrieval was under way: the lexical search saw the old one,
\* the vector search the new one (retrieve, upsert_memory).
ContradictionNeedsOvertaking ==
  \A i, j \in IdsOf(shown) :
    /\ i # j
    /\ entries[i].kind = "memory" /\ entries[j].kind = "memory"
    /\ entries[i].key = entries[j].key
    => entries[i].key \in touched

Full == Cardinality(shown) = Limit

\* What matches the words of the query and stays active is shown, unless
\* the result is full: no failure of the embedding server, of the extension
\* or of a vector search loses a lexical hit, nor does a vector score below
\* the minimum (retrieve's fallback to FTS5).
LexicalIsNeverLost ==
  stage = "done" /\ query = "words" =>
    \A i \in steady :
      entries[i].owner = Asker /\ Strength[TextOf(i)] > 0
        => i \in IdsOf(shown) \/ Full

\* What is near enough, was embedded before and stays active is shown unless
\* the result is full or the nearest vectors are others: dead memories and
\* those of other people count in the search of the extension, so enough of
\* them hide it (_nearest_embedding_distances, vector_memory_candidates).
NearIsFoundUnlessCrowded ==
  stage = "done" =>
    \A i \in steady \cap reachable :
      /\ entries[i].owner = Asker
      /\ VectorScore(i) >= MinimumVectorScore
      /\ vecLoaded => Cardinality({j \in vectors \ {i} :
                                     Distance[TextOf(j)] <= Distance[TextOf(i)]})
                      < Nearest[entries[i].kind]
      => i \in IdsOf(shown) \/ Full

-----------------------------------------------------------------------------
(* A statement of the documentation that the code does not keep. *)

\* "If the embedding server ... is unavailable, retrieval falls back to FTS5
\* ... ranking": without vector hits a stronger match is not ranked below a
\* weaker one of the same confidence.
FallbackKeepsLexicalRanking ==
  stage = "done" /\ semantic = {} =>
    \A s, r \in shown :
      /\ ConfidenceOf(s.id) = ConfidenceOf(r.id)
      /\ Strength[TextOf(s.id)] > Strength[TextOf(r.id)]
      => s.score >= r.score
=============================================================================
