----------------------------- MODULE RecallProofs -----------------------------
(***************************************************************************)
(* Proofs about Recall for any number of people, entries and writers, any  *)
(* texts and limits.                                                       *)
(***************************************************************************)
EXTENDS Recall, FiniteSetTheorems, SequenceTheorems, TLAPS

States == {"active", "superseded", "forgotten"}
Stages == {"idle", "memories", "summaries", "embedding", "vectors", "merging",
           "done"}

\* What no writer changes of an entry.
Fixed(i) ==
  /\ entries'[i].kind = entries[i].kind /\ entries'[i].owner = entries[i].owner
  /\ entries'[i].key = entries[i].key /\ entries'[i].text = entries[i].text

\* A write of the rows: some go out of force, at most one is added, which is
\* the only active memory of its key.
Rewrites(gone, new) ==
  /\ Ids \subseteq Ids' /\ \A i \in Ids : Fixed(i)
  /\ Active' = (Active \ gone) \cup new
  /\ new \subseteq Ids' \ Ids /\ gone \subseteq Active

-----------------------------------------------------------------------------
(* Rows of the tables. *)

LEMMA IdsType == TypeOK => Len(entries) \in Nat /\ Ids = 1..Len(entries)
BY DEF TypeOK, Ids

LEMMA RetiredType ==
  ASSUME TypeOK, NEW old, NEW state \in States
  PROVE  /\ Retired(old, state) \in Seq(Entry)
         /\ Len(Retired(old, state)) = Len(entries)
         /\ DOMAIN Retired(old, state) = Ids
         /\ \A i \in Ids :
              Retired(old, state)[i] = IF i \in old THEN [entries[i] EXCEPT !.state = state]
                                       ELSE entries[i]
<1> DEFINE f(i) == IF i \in old THEN [entries[i] EXCEPT !.state = state] ELSE entries[i]
<1>1. Retired(old, state) = [i \in 1..Len(entries) |-> f(i)]
  BY IdsType DEF Retired
<1>2. \A i \in 1..Len(entries) : entries[i] \in Entry
  BY IdsType DEF TypeOK
<1>3. \A i \in 1..Len(entries) : f(i) \in Entry
  BY <1>2 DEF Entry, States
<1>4. [i \in 1..Len(entries) |-> f(i)] \in Seq(Entry)
  BY <1>3, IdsType, IsASeq
<1>5. /\ Len([i \in 1..Len(entries) |-> f(i)]) = Len(entries)
      /\ DOMAIN [i \in 1..Len(entries) |-> f(i)] = Ids
      /\ \A i \in Ids : [j \in 1..Len(entries) |-> f(j)][i] = f(i)
  BY <1>4, IdsType
<1> QED
  BY <1>1, <1>4, <1>5

LEMMA AddedRows ==
  ASSUME TypeOK, NEW old \in SUBSET Active, NEW e \in Entry, e.state = "active",
         Added(old, e)
  PROVE  /\ entries' \in Seq(Entry)
         /\ Ids' = 1..(Len(entries) + 1) /\ Len(entries') = Len(entries) + 1
         /\ entries'[Len(entries) + 1] = e
         /\ Rewrites(old, {Len(entries) + 1})
<1> DEFINE r == Retired(old, "superseded")
           n == Len(entries)
<1>1. entries' = Append(r, e) /\ n \in Nat /\ Ids = 1..n
  BY IdsType DEF Added
<1>2. /\ r \in Seq(Entry) /\ Len(r) = n
      /\ \A i \in Ids : r[i] = IF i \in old THEN [entries[i] EXCEPT !.state = "superseded"]
                               ELSE entries[i]
  BY RetiredType DEF States
<1> HIDE DEF r
<1>3. /\ entries' \in Seq(Entry) /\ Len(entries') = n + 1 /\ Ids' = 1..(n + 1)
      /\ entries'[n + 1] = e /\ \A i \in 1..n : entries'[i] = r[i]
  BY <1>1, <1>2 DEF Ids
<1>4. \A i \in Ids : entries[i] \in Entry
  BY <1>1 DEF TypeOK
<1>5. \A i \in Ids : Fixed(i)
  <2>1. \A i \in Ids : /\ r[i].kind = entries[i].kind /\ r[i].owner = entries[i].owner
                       /\ r[i].key = entries[i].key /\ r[i].text = entries[i].text
    BY <1>2, <1>4 DEF Entry
  <2> QED
    BY <1>1, <1>3, <2>1 DEF Fixed
<1>6. \A i \in Ids : entries'[i].state = "active" <=> i \in Active \ old
  BY <1>1, <1>2, <1>3, <1>4 DEF Active, Entry
<1>7. Active' = (Active \ old) \cup {n + 1}
  BY <1>1, <1>3, <1>6 DEF Active
<1>8. {n + 1} \subseteq Ids' \ Ids /\ Ids \subseteq Ids'
  BY <1>1, <1>3
<1> QED
  BY <1>3, <1>5, <1>7, <1>8 DEF Rewrites

LEMMA ForgottenRows ==
  ASSUME TypeOK, NEW o, NEW k, Forget(o, k)
  PROVE  entries' \in Seq(Entry) /\ Ids' = Ids /\ Rewrites(ActiveRow(o, k), {})
<1> DEFINE old == ActiveRow(o, k)
           r == Retired(old, "forgotten")
<1>1. entries' = r
  BY DEF Forget
<1>2. /\ r \in Seq(Entry) /\ DOMAIN r = Ids
      /\ \A i \in Ids : r[i] = IF i \in old THEN [entries[i] EXCEPT !.state = "forgotten"]
                               ELSE entries[i]
  BY RetiredType DEF States
<1> HIDE DEF r
<1>3. Ids' = Ids
  BY <1>1, <1>2 DEF Ids
<1>4. \A i \in Ids : entries[i] \in Entry
  BY IdsType DEF TypeOK
<1>5. old \subseteq Active
  BY DEF ActiveRow
<1> HIDE DEF old
<1>6. \A i \in Ids : Fixed(i)
  BY <1>1, <1>2, <1>4 DEF Fixed, Entry
<1>7. Active' = (Active \ old) \cup {}
  BY <1>1, <1>2, <1>3, <1>4 DEF Active, Entry
<1> QED
  BY <1>1, <1>2, <1>3, <1>5, <1>6, <1>7 DEF Rewrites, old

LEMMA ConfirmedRows ==
  ASSUME TypeOK, NEW i \in Ids, NEW c \in Nat, Confirm(i, c)
  PROVE  entries' \in Seq(Entry) /\ Ids' = Ids /\ Rewrites({}, {})
<1>1. \A j \in Ids : entries[j] \in Entry
  BY IdsType DEF TypeOK
<1> DEFINE d == IF entries[i].confidence < c THEN c ELSE entries[i].confidence
<1>2. entries' = [entries EXCEPT ![i] = [entries[i] EXCEPT !.confidence = d]]
  BY DEF Confirm
<1>3. d \in Nat
  BY <1>1 DEF Entry
<1> HIDE DEF d
<1>4. [entries[i] EXCEPT !.confidence = d] \in Entry
  BY <1>1, <1>3 DEF Entry
<1>5. entries' \in Seq(Entry) /\ Ids' = Ids
  BY <1>2, <1>4 DEF TypeOK, Ids
<1>6. \A j \in Ids : Fixed(j) /\ entries'[j].state = entries[j].state
  BY <1>1, <1>2 DEF Fixed, Entry
<1>7. Active' = Active
  BY <1>5, <1>6 DEF Active
<1> QED
  BY <1>5, <1>6, <1>7 DEF Rewrites

-----------------------------------------------------------------------------
(* What a step of a writer may do to all of the state. *)

WriteEffect(gone, new) ==
  /\ Rewrites(gone, new) /\ entries' \in Seq(Entry)
  /\ embedding' \subseteq Ids' /\ embedded' \subseteq Ids' /\ vectors' \subseteq embedded'
  /\ embedded \subseteq embedded' /\ vectors \subseteq vectors'
  /\ UNCHANGED <<vecLoaded, search>>
  /\ \A i, j \in new : i = j
  /\ \A i \in new, j \in Active \ gone :
       /\ entries'[i].kind = "memory" /\ entries[j].kind = "memory"
       /\ entries'[i].owner = entries[j].owner
       => entries'[i].key # entries[j].key
  /\ stage = "idle" => UNCHANGED history
  /\ stage # "idle" =>
       /\ alive' = alive \cup new /\ steady' = steady \ gone
       /\ reachable' = reachable
       /\ touched \subseteq touched' /\ touched' \subseteq Keys
       /\ \A i \in gone : entries[i].owner = Asker => entries[i].key \in touched'

LEMMA AddedEffect ==
  ASSUME TypeOK, NEW old \in SUBSET Active, NEW e \in Entry, e.state = "active",
         Added(old, e),
         \A i \in old : entries[i].key = e.key /\ entries[i].owner = e.owner,
         e.kind = "memory" =>
           \A j \in Active \ old : entries[j].kind = "memory" =>
             entries[j].owner # e.owner \/ entries[j].key # e.key
  PROVE  WriteEffect(old, {Len(entries) + 1})
<1> DEFINE n == Len(entries)
           new == {n + 1}
<1>1. /\ entries' \in Seq(Entry) /\ Ids' = 1..(n + 1) /\ Ids = 1..n /\ n \in Nat
      /\ entries'[n + 1] = e /\ Rewrites(old, new)
  BY AddedRows, IdsType
<1>2. /\ embedding' = embedding \cup new
      /\ UNCHANGED <<embedded, vectors, vecLoaded, search>>
      /\ Noticed(old, new, e.owner, e.key)
  BY DEF Added
<1>3. embedding' \subseteq Ids' /\ embedded' \subseteq Ids' /\ vectors' \subseteq embedded'
  <2>1. Ids \subseteq Ids' /\ new \subseteq Ids'
    BY <1>1
  <2>2. embedding \subseteq Ids /\ embedded \subseteq Ids /\ vectors \subseteq embedded
    BY DEF TypeOK
  <2> HIDE DEF new
  <2> QED
    BY <1>2, <2>1, <2>2
<1>4. \A i \in new, j \in Active \ old :
        /\ entries'[i].kind = "memory" /\ entries[j].kind = "memory"
        /\ entries'[i].owner = entries[j].owner
        => entries'[i].key # entries[j].key
  BY <1>1
<1>5. stage = "idle" => UNCHANGED history
  BY <1>2 DEF Noticed
<1>6. ASSUME stage # "idle"
      PROVE  /\ alive' = alive \cup new /\ steady' = steady \ old
             /\ reachable' = reachable
             /\ touched \subseteq touched' /\ touched' \subseteq Keys
             /\ \A i \in old : entries[i].owner = Asker => entries[i].key \in touched'
  <2>1. /\ alive' = alive \cup new /\ steady' = steady \ old /\ reachable' = reachable
        /\ touched' = touched \cup {key \in {e.key} : e.owner = Asker}
    BY <1>2, <1>6 DEF Noticed
  <2>2. e.key \in Keys /\ touched \subseteq Keys
    BY DEF Entry, TypeOK
  <2> QED
    BY <2>1, <2>2
<1> QED
  BY <1>1, <1>2, <1>3, <1>4, <1>5, <1>6 DEF WriteEffect

LEMMA ForgetEffect ==
  ASSUME TypeOK, NEW o \in Owners, NEW k \in Keys, Forget(o, k)
  PROVE  WriteEffect(ActiveRow(o, k), {})
<1> DEFINE old == ActiveRow(o, k)
<1>1. entries' \in Seq(Entry) /\ Ids' = Ids /\ Rewrites(old, {})
  BY ForgottenRows
<1>2. UNCHANGED <<embedded, vectors, vecLoaded, embedding, search>> /\ Noticed(old, {}, o, k)
  BY DEF Forget
<1>3. \A i \in old : entries[i].key = k /\ entries[i].owner = o
  BY DEF ActiveRow
<1> HIDE DEF old
<1>4. embedding' \subseteq Ids' /\ embedded' \subseteq Ids' /\ vectors' \subseteq embedded'
  BY <1>1, <1>2 DEF TypeOK
<1>5. stage = "idle" => UNCHANGED history
  BY <1>2 DEF Noticed
<1>6. ASSUME stage # "idle"
      PROVE  /\ alive' = alive \cup {} /\ steady' = steady \ old
             /\ reachable' = reachable
             /\ touched \subseteq touched' /\ touched' \subseteq Keys
             /\ \A i \in old : entries[i].owner = Asker => entries[i].key \in touched'
  BY <1>2, <1>3, <1>6 DEF Noticed, TypeOK
<1>7. WriteEffect(old, {})
  BY <1>1, <1>2, <1>4, <1>5, <1>6 DEF WriteEffect
<1> QED
  BY <1>7 DEF old

LEMMA ConfirmEffect ==
  ASSUME TypeOK, NEW i \in Ids, NEW c \in Nat, Confirm(i, c)
  PROVE  WriteEffect({}, {})
<1>1. entries' \in Seq(Entry) /\ Ids' = Ids /\ Rewrites({}, {})
  BY ConfirmedRows
<1>2. UNCHANGED <<embedded, vectors, vecLoaded, search, history>> /\ embedding' = embedding \cup {i}
  BY DEF Confirm
<1> QED
  BY <1>1, <1>2 DEF WriteEffect, TypeOK, history

LEMMA RememberEffect ==
  ASSUME TypeOK, NEW o \in Owners, NEW k \in Keys, NEW x \in Texts,
         NEW c \in Confidences, Remember(o, k, x, c)
  PROVE  \E gone, new : WriteEffect(gone, new)
<1>1. c \in Nat
  BY RecallAssumption
<1>2. CASE \E i \in ActiveRow(o, k) : TextOf(i) = x /\ Confirm(i, c)
  BY <1>1, <1>2, ConfirmEffect DEF ActiveRow, Active
<1> DEFINE e == [kind |-> "memory", owner |-> o, key |-> k, text |-> x,
                 confidence |-> c, state |-> "active"]
           old == ActiveRow(o, k)
<1>3. CASE Added(old, e)
  <2>1. e \in Entry /\ e.state = "active" /\ e.key = k /\ e.owner = o
    BY <1>1 DEF Entry, Kinds
  <2>2. /\ old \in SUBSET Active
        /\ \A i \in old : entries[i].key = k /\ entries[i].owner = o
        /\ \A j \in Active \ old : entries[j].kind = "memory" =>
             entries[j].owner # o \/ entries[j].key # k
    BY DEF ActiveRow
  <2> HIDE DEF old, e
  <2>3. WriteEffect(old, {Len(entries) + 1})
    BY <1>3, <2>1, <2>2, AddedEffect
  <2> QED
    BY <2>3
<1> QED
  BY <1>2, <1>3 DEF Remember

LEMMA SummariseEffect ==
  ASSUME TypeOK, NEW o \in Owners, NEW k \in Keys, NEW x \in Bodies, Summarise(o, k, x)
  PROVE  \E gone, new : WriteEffect(gone, new)
<1> DEFINE e == [kind |-> "summary", owner |-> o, key |-> k, text |-> x,
                 confidence |-> SummaryConfidence, state |-> "active"]
<1>1. Added({}, e)
  BY DEF Summarise
<1>2. e \in Entry /\ e.state = "active" /\ e.kind = "summary"
  BY RelevanceAssumption DEF Entry, Kinds, SummaryConfidence
<1> HIDE DEF e
<1>3. WriteEffect({}, {Len(entries) + 1})
  BY <1>1, <1>2, AddedEffect
<1> QED
  BY <1>3

LEMMA StoredEffect ==
  ASSUME TypeOK, NEW i \in embedding, PutEmbedding(i) \/ EmbeddingFails(i)
  PROVE  WriteEffect({}, {})
<1>1. /\ UNCHANGED <<entries, vecLoaded, search, history>>
      /\ embedding' \subseteq embedding
      /\ embedded \subseteq embedded' /\ embedded' \subseteq embedded \cup {i}
      /\ vectors \subseteq vectors' /\ vectors' \subseteq vectors \cup {i}
      /\ i \in vectors' => i \in vectors \/ i \in embedded'
  BY DEF PutEmbedding, EmbeddingFails
<1>2. Ids' = Ids /\ Active' = Active
  BY <1>1 DEF Ids, Active
<1>3. Rewrites({}, {})
  BY <1>1, <1>2 DEF Rewrites, Fixed
<1> QED
  BY <1>1, <1>2, <1>3 DEF WriteEffect, TypeOK, history

LEMMA WriteEffects ==
  ASSUME TypeOK, Write
  PROVE  \E gone, new : WriteEffect(gone, new)
BY ForgetEffect, SummariseEffect, RememberEffect, StoredEffect DEF Write

-----------------------------------------------------------------------------
(* Types. *)

LEMMA TypeInit == Init => TypeOK
<1> SUFFICES ASSUME Init PROVE TypeOK
  OBVIOUS
<1>1. entries \in Seq(Entry) /\ IdsOf(lexical) = {} /\ IdsOf(semantic) = {} /\ IdsOf(shown) = {}
  BY EmptySeq DEF Init, IdsOf
<1>2. stage = "idle" /\ query = "blank"
  BY DEF Init
<1> QED
  BY <1>1, <1>2 DEF Init, TypeOK

LEMMA TypeWrite ==
  ASSUME TypeOK, NEW gone, NEW new, WriteEffect(gone, new)
  PROVE  TypeOK'
<1>1. /\ entries' \in Seq(Entry) /\ vectors' \subseteq embedded' /\ embedded' \subseteq Ids'
      /\ embedding' \subseteq Ids' /\ Ids \subseteq Ids' /\ new \subseteq Ids'
      /\ UNCHANGED <<vecLoaded, stage, query, lexical, semantic, shown>>
      /\ embedded \subseteq embedded'
  BY DEF WriteEffect, Rewrites, search
<1>2. IdsOf(lexical)' = IdsOf(lexical) /\ IdsOf(semantic)' = IdsOf(semantic)
      /\ IdsOf(shown)' = IdsOf(shown)
  BY <1>1 DEF IdsOf
<1>3. alive' \subseteq Ids' /\ steady' \subseteq alive' /\ reachable' \subseteq embedded'
      /\ touched' \subseteq Keys
  BY <1>1 DEF WriteEffect, history, TypeOK
<1> QED
  BY <1>1, <1>2, <1>3 DEF TypeOK

LEMMA TypeQuiet ==
  ASSUME TypeOK, Quiet, UNCHANGED <<entries, embedded, vectors>>,
         embedding' \subseteq embedding, vecLoaded' \in BOOLEAN
  PROVE  TypeOK'
<1>1. IdsOf({}) = {} /\ Ids' = Ids
  BY DEF IdsOf, Ids
<1> QED
  BY <1>1 DEF TypeOK, Quiet, IdsOf

\* The hits made of rows have the rows' numbers.
LEMMA IdsOfHits ==
  ASSUME NEW T, NEW hits, \A h \in hits : h.id \in T,
         \A i \in T : \E h \in hits : h.id = i
  PROVE  IdsOf(hits) = T
BY DEF IdsOf

\* The members of an answer are some of the rows asked for; any other row has
\* no more weight, and is left out only if the answer has as many as allowed.
LEMMA BestFacts ==
  ASSUME NEW S, NEW n, NEW weight, NEW T \in Best(S, n, weight)
  PROVE  /\ T \subseteq S /\ Cardinality(T) <= n
         /\ T = S \/ Cardinality(T) = n
         /\ \A i \in T, j \in S \ T : weight[j] <= weight[i]
BY DEF Best

LEMMA EligibleFacts ==
  ASSUME TypeOK, NEW kind, NEW i \in Eligible(kind)
  PROVE  /\ i \in Ids /\ i \in Nat \ {0} /\ i \in Active /\ entries[i].owner = Asker
         /\ ConfidenceOf(i) \in Nat /\ TextOf(i) \in Texts
<1>1. i \in 1..Len(entries) /\ entries[i] \in Entry
  BY IdsType DEF Eligible, Active, TypeOK
<1>2. Len(entries) \in Nat
  BY IdsType
<1> QED
  BY <1>1, <1>2 DEF Eligible, Active, Entry, ConfidenceOf, TextOf

LEMMA LexicalHitsType ==
  ASSUME TypeOK, NEW kind, NEW T \in SUBSET Eligible(kind)
  PROVE  LexicalHits(T) \subseteq Hit /\ IdsOf(LexicalHits(T)) = T
<1>1. \A i \in T : LexicalScore(i) \in Nat
  <2>1. \A s \in Nat : 100 \div (1 + s) \in Nat
    OBVIOUS
  <2> QED
    BY <2>1, EligibleFacts, RelevanceAssumption DEF LexicalScore
<1> HIDE DEF LexicalScore
<1>2. LexicalHits(T) \subseteq Hit
  BY <1>1, EligibleFacts DEF LexicalHits, Hit
<1>3. \A h \in LexicalHits(T) : h.id \in T
  BY DEF LexicalHits
<1>4. \A i \in T : \E h \in LexicalHits(T) : h.id = i
  <2> TAKE i \in T
  <2> DEFINE h == [id |-> i, score |-> LexicalScore(i), confidence |-> ConfidenceOf(i)]
  <2>1. h \in LexicalHits(T)
    BY DEF LexicalHits
  <2>2. h.id = i
    OBVIOUS
  <2> QED
    BY <2>1, <2>2
<1>5. IdsOf(LexicalHits(T)) = T
  BY <1>3, <1>4, IdsOfHits
<1> QED
  BY <1>2, <1>5

LEMMA VectorHitsType ==
  ASSUME TypeOK, NEW kind, NEW T \in SUBSET Eligible(kind)
  PROVE  VectorHits(T) \subseteq Hit /\ IdsOf(VectorHits(T)) = T
<1>1. \A i \in T : VectorScore(i) \in Nat
  BY EligibleFacts, RelevanceAssumption DEF VectorScore
<1>2. VectorHits(T) \subseteq Hit
  BY <1>1, EligibleFacts DEF VectorHits, Hit
<1>3. \A h \in VectorHits(T) : h.id \in T
  BY DEF VectorHits
<1>4. \A i \in T : \E h \in VectorHits(T) : h.id = i
  <2> TAKE i \in T
  <2> DEFINE h == [id |-> i, score |-> VectorScore(i), confidence |-> ConfidenceOf(i)]
  <2>1. h \in VectorHits(T)
    BY DEF VectorHits
  <2>2. h.id = i
    OBVIOUS
  <2> QED
    BY <2>1, <2>2
<1>5. IdsOf(VectorHits(T)) = T
  BY <1>3, <1>4, IdsOfHits
<1> QED
  BY <1>2, <1>5

LEMMA IdsUnion == ASSUME NEW A, NEW B PROVE IdsOf(A \cup B) = IdsOf(A) \cup IdsOf(B)
BY DEF IdsOf

LEMMA WeightType ==
  ASSUME TypeOK, NEW i \in Found
  PROVE  Weight(i) \in Nat
<1> DEFINE l == {h \in lexical : h.id = i}
           v == {h \in Near : h.id = i}
           w(hits, x) == IF hits = {} THEN 0 ELSE x * (CHOOSE h \in hits : TRUE).score
           last == CHOOSE h \in IF v = {} THEN l ELSE v : TRUE
<1>1. l \subseteq Hit /\ v \subseteq Hit /\ (l # {} \/ v # {})
  BY DEF TypeOK, Near, Found, IdsOf
<1>2. Weight(i) = (w(l, LexicalWeight) + w(v, VectorWeight)) * last.confidence
  BY DEF Weight
<1> HIDE DEF l, v
<1>3. last \in Hit
  BY <1>1
<1>4. w(l, LexicalWeight) \in Nat /\ w(v, VectorWeight) \in Nat
  BY <1>1, RecallAssumption DEF Hit
<1> HIDE DEF w, last
<1> QED
  BY <1>2, <1>3, <1>4 DEF Hit

LEMMA StoreKept == UNCHANGED store => Ids' = Ids /\ Active' = Active
BY DEF store, Ids, Active

\* What a lexical search adds.
LEMMA LexicalAdds ==
  ASSUME TypeOK, NEW kind, NEW n, NEW next, SearchLexical(kind, n, next)
  PROVE  \E T \in SUBSET Matching(kind) :
           /\ T = Matching(kind) \/ Cardinality(T) = n
           /\ lexical' \subseteq Hit /\ lexical \subseteq lexical'
           /\ IdsOf(lexical') = IdsOf(lexical) \cup T
<1>1. PICK T \in Best(Matching(kind), n, [i \in Matching(kind) |-> Strength[TextOf(i)]]) :
        lexical' = lexical \cup LexicalHits(T)
  BY DEF SearchLexical
<1>2. T \in SUBSET Matching(kind) /\ (T = Matching(kind) \/ Cardinality(T) = n)
  BY BestFacts
<1>3. T \in SUBSET Eligible(kind)
  BY <1>2 DEF Matching
<1>4. LexicalHits(T) \subseteq Hit /\ IdsOf(LexicalHits(T)) = T
  BY <1>3, LexicalHitsType
<1> HIDE DEF LexicalHits
<1>5. IdsOf(lexical') = IdsOf(lexical) \cup T
  BY <1>1, <1>4, IdsUnion
<1> QED
  BY <1>1, <1>2, <1>4, <1>5 DEF TypeOK

\* What a vector search adds; one that adds less than it may adds every
\* candidate among the nearest, and what it leaves out scores no more.
LEMMA VectorAdds ==
  ASSUME TypeOK, NEW kind, NEW n, NEW next, SearchVectors(kind, n, next)
  PROVE  \E near \in NearestSets(kind) : \E T \in SUBSET Candidates(kind, near) :
           /\ T = Candidates(kind, near) \/ Cardinality(T) = n
           /\ \A i \in T, j \in Candidates(kind, near) \ T : VectorScore(j) <= VectorScore(i)
           /\ semantic' = semantic \cup VectorHits(T) /\ semantic' \subseteq Hit
           /\ IdsOf(semantic') = IdsOf(semantic) \cup T
<1>1. PICK near \in NearestSets(kind) :
        \E T \in Best(Candidates(kind, near), n,
                      [i \in Candidates(kind, near) |-> VectorScore(i)]) :
          semantic' = semantic \cup VectorHits(T)
  BY DEF SearchVectors
<1> DEFINE C == Candidates(kind, near)
<1>2. PICK T \in Best(C, n, [i \in C |-> VectorScore(i)]) :
        semantic' = semantic \cup VectorHits(T)
  BY <1>1
<1>3. /\ T \in SUBSET C /\ (T = C \/ Cardinality(T) = n)
      /\ \A i \in T, j \in C \ T :
           [k \in C |-> VectorScore(k)][j] <= [k \in C |-> VectorScore(k)][i]
  BY <1>2, BestFacts
<1>4. T \in SUBSET Eligible(kind)
  BY <1>3 DEF Candidates
<1>5. VectorHits(T) \subseteq Hit /\ IdsOf(VectorHits(T)) = T
  BY <1>4, VectorHitsType
<1> HIDE DEF C
<1>6. \A i \in T, j \in C \ T : VectorScore(j) <= VectorScore(i)
  BY <1>3
<1>7. IdsOf(semantic') = IdsOf(semantic) \cup T
  BY <1>2, <1>5, IdsUnion
<1>8. semantic' \subseteq Hit
  BY <1>2, <1>5 DEF TypeOK
<1> QED
  BY <1>2, <1>3, <1>6, <1>7, <1>8 DEF C

\* What the merge shows.
LEMMA MergeShows ==
  ASSUME TypeOK, Merge
  PROVE  \E T \in SUBSET Found :
           /\ T = Found \/ Cardinality(T) = Limit
           /\ Cardinality(T) <= Limit
           /\ shown' \subseteq Shown /\ IdsOf(shown') = T
           /\ shown' = {[id |-> i, score |-> Weight(i)] : i \in T}
<1>1. PICK T \in Best(Found, Limit, [i \in Found |-> Weight(i)]) :
        shown' = {[id |-> i, score |-> Weight(i)] : i \in T}
  BY DEF Merge
<1>2. T \in SUBSET Found /\ (T = Found \/ Cardinality(T) = Limit) /\ Cardinality(T) <= Limit
  BY BestFacts
<1>3. \A i \in T : i \in Nat \ {0} /\ Weight(i) \in Nat
  BY <1>2, WeightType DEF Found, Near, IdsOf, TypeOK, Hit
<1> HIDE DEF Weight
<1>4. shown' \subseteq Shown
  BY <1>1, <1>3 DEF Shown
<1>5. \A h \in shown' : h.id \in T
  BY <1>1
<1>6. \A i \in T : \E h \in shown' : h.id = i
  <2> TAKE i \in T
  <2> DEFINE h == [id |-> i, score |-> Weight(i)]
  <2>1. h \in shown'
    BY <1>1
  <2>2. h.id = i
    OBVIOUS
  <2> QED
    BY <2>1, <2>2
<1>7. IdsOf(shown') = T
  BY <1>5, <1>6, IdsOfHits
<1> QED
  BY <1>1, <1>2, <1>4, <1>7

LEMMA TypeRetrieve == TypeOK /\ Retrieve => TypeOK'
<1> SUFFICES ASSUME TypeOK, Retrieve PROVE TypeOK'
  OBVIOUS
<1>1. CASE Begin
  <2>1. UNCHANGED store /\ Ids' = Ids /\ UNCHANGED <<lexical, semantic, shown, touched>>
    BY <1>1, StoreKept DEF Begin
  <2>2. /\ stage' = "memories" /\ query' \in {"words", "blank"}
        /\ alive' = Active /\ steady' = Active /\ Active \subseteq Ids
        /\ reachable' \subseteq embedded
    BY <1>1 DEF Begin, TypeOK, Active
  <2> QED
    BY <2>1, <2>2 DEF TypeOK, store, IdsOf
<1>2. ASSUME NEW kind \in Kinds, NEW n, NEW next \in Stages, SearchLexical(kind, n, next)
      PROVE  TypeOK'
  <2>1. UNCHANGED <<store, query, semantic, shown, history>> /\ stage' = next /\ Ids' = Ids
    BY <1>2, StoreKept DEF SearchLexical
  <2>2. lexical' \subseteq Hit /\ IdsOf(lexical') \subseteq Ids
    BY <1>2, LexicalAdds, EligibleFacts DEF Matching, TypeOK
  <2> QED
    BY <2>1, <2>2 DEF TypeOK, store, history, Stages, IdsOf
<1>3. ASSUME NEW kind \in Kinds, NEW n, NEW next \in Stages, SearchVectors(kind, n, next)
      PROVE  TypeOK'
  <2>1. UNCHANGED <<store, query, lexical, shown, history>> /\ stage' = next /\ Ids' = Ids
    BY <1>3, StoreKept DEF SearchVectors
  <2>2. semantic' \subseteq Hit /\ IdsOf(semantic') \subseteq Ids
    BY <1>3, VectorAdds, EligibleFacts DEF Candidates, TypeOK
  <2> QED
    BY <2>1, <2>2 DEF TypeOK, store, history, Stages, IdsOf
<1>4. CASE SkipVectors \/ VectorsFail
  <2>1. /\ UNCHANGED <<store, query, lexical, semantic, shown, alive, steady, touched>>
        /\ stage' = "merging" /\ reachable' \subseteq reachable /\ Ids' = Ids
    BY <1>4, StoreKept DEF SkipVectors, VectorsFail, history
  <2> QED
    BY <2>1 DEF TypeOK, store, IdsOf
<1>5. CASE Merge
  <2>1. UNCHANGED <<store, query, lexical, semantic, history>> /\ stage' = "done" /\ Ids' = Ids
    BY <1>5, StoreKept DEF Merge
  <2>2. shown' \subseteq Shown /\ IdsOf(shown') \subseteq Ids
    BY <1>5, MergeShows DEF Found, Near, IdsOf, TypeOK
  <2> QED
    BY <2>1, <2>2 DEF TypeOK, store, history, IdsOf
<1>6. CASE Render
  BY <1>6, TypeQuiet DEF Render, store, TypeOK
<1> QED
  BY <1>1, <1>2, <1>3, <1>4, <1>5, <1>6
  DEF Retrieve, LexicalMemories, LexicalSummaries, VectorMemories, VectorSummaries, Kinds, Stages

LEMMA TypeNext == TypeOK /\ [Next]_vars => TypeOK'
<1> SUFFICES ASSUME TypeOK, [Next]_vars PROVE TypeOK'
  OBVIOUS
<1>1. CASE Restart
  BY <1>1, TypeQuiet DEF Restart
<1>2. CASE UNCHANGED vars
  BY <1>2 DEF vars, store, search, history, TypeOK, Ids, IdsOf
<1> QED
  BY <1>1, <1>2, TypeRetrieve, TypeWrite, WriteEffects DEF Next

\* The tables, the hits and the history variables keep their types.
THEOREM TypeCorrect == Spec => []TypeOK
BY TypeInit, TypeNext, PTL DEF Spec

-----------------------------------------------------------------------------
(* What is found was in force, and is contradicted only when overtaken. *)

HitIds == IdsOf(lexical) \cup IdsOf(semantic) \cup IdsOf(shown)
OwnActive == {i \in Active : entries[i].owner = Asker}
Memory(i) == entries[i].kind = "memory"

RecalledInv ==
  /\ stage = "idle" => alive = {}
  /\ stage # "idle" => Active \subseteq alive
  /\ steady \subseteq Active
  /\ \A i, j \in Active :
       /\ Memory(i) /\ Memory(j) /\ entries[i].owner = entries[j].owner
       /\ entries[i].key = entries[j].key
       => i = j
  /\ \A i \in alive :
       Memory(i) /\ entries[i].owner = Asker => i \in Active \/ entries[i].key \in touched
  /\ \A i \in HitIds : i \in alive /\ entries[i].owner = Asker

\* A retrieval reads the rows and leaves them.
LEMMA RowsKept ==
  UNCHANGED store =>
    /\ entries' = entries /\ Ids' = Ids /\ Active' = Active
    /\ \A i : Memory(i)' = Memory(i) /\ TextOf(i)' = TextOf(i)
BY StoreKept DEF store, Memory, TextOf

LEMMA RecalledInit == Init => RecalledInv
BY DEF Init, RecalledInv, Active, Ids, IdsOf, HitIds

LEMMA RecalledQuiet ==
  ASSUME RecalledInv, Quiet, UNCHANGED entries
  PROVE  RecalledInv'
<1>1. Active' = Active /\ IdsOf({}) = {} /\ \A i : Memory(i)' = Memory(i)
  BY DEF Active, Ids, IdsOf, Memory
<1>2. IdsOf(lexical') = {} /\ IdsOf(semantic') = {} /\ IdsOf(shown') = {}
  BY <1>1 DEF Quiet
<1> QED
  BY <1>1, <1>2 DEF RecalledInv, Quiet, IdsOf, HitIds

LEMMA RecalledWrite ==
  ASSUME TypeOK, RecalledInv, NEW gone, NEW new, WriteEffect(gone, new)
  PROVE  RecalledInv'
<1>1. /\ Active' = (Active \ gone) \cup new /\ gone \subseteq Active /\ new \cap Ids = {}
      /\ Active \subseteq Ids /\ alive \subseteq Ids /\ steady \subseteq Active
      /\ UNCHANGED <<stage, lexical, semantic, shown>>
  BY DEF WriteEffect, Rewrites, search, Active, TypeOK, RecalledInv
<1>2. \A i \in Ids : /\ Memory(i)' = Memory(i) /\ entries'[i].owner = entries[i].owner
                     /\ entries'[i].key = entries[i].key
  BY DEF WriteEffect, Rewrites, Fixed, Memory
<1>3. stage' = "idle" => alive' = {}
  BY <1>1 DEF RecalledInv, WriteEffect, history
<1>4. stage' # "idle" => Active' \subseteq alive'
  BY <1>1 DEF RecalledInv, WriteEffect
<1>5. steady' \subseteq Active'
  <2>1. CASE stage = "idle"
    BY <1>1, <2>1 DEF WriteEffect, history, RecalledInv, TypeOK
  <2>2. CASE stage # "idle"
    BY <1>1, <2>2 DEF WriteEffect
  <2> QED
    BY <2>1, <2>2
<1>6. ASSUME NEW i \in Active', NEW j \in Active',
             Memory(i)', Memory(j)', entries'[i].owner = entries'[j].owner,
             entries'[i].key = entries'[j].key
      PROVE  i = j
  <2>1. CASE i \in new /\ j \in new
    BY <2>1 DEF WriteEffect
  <2>2. CASE i \in Active \ gone /\ j \in Active \ gone
    BY <1>1, <1>2, <1>6, <2>2 DEF RecalledInv
  <2>3. CASE i \in new /\ j \in Active \ gone
    BY <1>1, <1>2, <1>6, <2>3 DEF WriteEffect, Memory
  <2>4. CASE j \in new /\ i \in Active \ gone
    BY <1>1, <1>2, <1>6, <2>4 DEF WriteEffect, Memory
  <2> QED
    BY <1>1, <2>1, <2>2, <2>3, <2>4
<1>7. ASSUME NEW i \in alive', Memory(i)', entries'[i].owner = Asker
      PROVE  i \in Active' \/ entries'[i].key \in touched'
  <2>1. stage # "idle" /\ i \in alive \cup new
    BY <1>1, <1>3, <1>7 DEF WriteEffect
  <2>2. CASE i \in new
    BY <1>1, <2>2
  <2>3. CASE i \in alive
    BY <1>1, <1>2, <1>7, <2>1, <2>3 DEF RecalledInv, WriteEffect
  <2> QED
    BY <2>1, <2>2, <2>3
<1>8. ASSUME NEW i \in HitIds'
      PROVE  i \in alive' /\ entries'[i].owner = Asker
  <2>1. i \in HitIds
    BY <1>1, <1>8 DEF IdsOf, HitIds
  <2>2. i \in alive /\ entries[i].owner = Asker
    BY <2>1 DEF RecalledInv
  <2>3. alive \subseteq alive'
    BY DEF WriteEffect, history
  <2> QED
    BY <1>1, <1>2, <2>2, <2>3
<1> QED
  BY <1>3, <1>4, <1>5, <1>6, <1>7, <1>8 DEF RecalledInv

LEMMA RecalledRetrieve ==
  ASSUME TypeOK, RecalledInv, Retrieve
  PROVE  RecalledInv'
<1>1. CASE Begin
  <2>1. /\ UNCHANGED <<store, lexical, semantic, shown>>
        /\ stage' # "idle" /\ alive' = Active /\ steady' = Active
        /\ IdsOf(lexical) = {} /\ IdsOf(semantic) = {} /\ IdsOf(shown) = {}
    BY <1>1 DEF Begin, RecalledInv, HitIds
  <2> QED
    BY <2>1, RowsKept DEF RecalledInv, IdsOf, HitIds
<1>2. ASSUME UNCHANGED <<store, alive, steady, touched>>, stage # "idle", stage' # "idle",
             HitIds' \subseteq HitIds \cup OwnActive
      PROVE  RecalledInv'
  BY <1>2, RowsKept DEF RecalledInv, OwnActive
<1>3. ASSUME NEW kind, NEW n, NEW next, next # "idle", SearchLexical(kind, n, next),
             stage # "idle"
      PROVE  RecalledInv'
  <2>1. UNCHANGED <<store, semantic, shown, alive, steady, touched>> /\ stage' = next
    BY <1>3 DEF SearchLexical, history
  <2>2. IdsOf(lexical') \subseteq IdsOf(lexical) \cup Eligible(kind)
    BY <1>3, LexicalAdds DEF Matching
  <2>3. Eligible(kind) \subseteq OwnActive
    BY DEF Eligible, OwnActive
  <2>4. IdsOf(semantic)' = IdsOf(semantic) /\ IdsOf(shown)' = IdsOf(shown)
    BY <2>1 DEF IdsOf
  <2>5. HitIds' \subseteq HitIds \cup OwnActive
    BY <2>2, <2>3, <2>4 DEF HitIds, IdsOf
  <2> QED
    BY <1>2, <1>3, <2>1, <2>5
<1>4. ASSUME NEW kind, NEW n, NEW next, next # "idle", SearchVectors(kind, n, next),
             stage # "idle"
      PROVE  RecalledInv'
  <2>1. UNCHANGED <<store, lexical, shown, alive, steady, touched>> /\ stage' = next
    BY <1>4 DEF SearchVectors, history
  <2>2. IdsOf(semantic') \subseteq IdsOf(semantic) \cup Eligible(kind)
    BY <1>4, VectorAdds DEF Candidates
  <2>3. Eligible(kind) \subseteq OwnActive
    BY DEF Eligible, OwnActive
  <2>4. IdsOf(lexical)' = IdsOf(lexical) /\ IdsOf(shown)' = IdsOf(shown)
    BY <2>1 DEF IdsOf
  <2>5. HitIds' \subseteq HitIds \cup OwnActive
    BY <2>2, <2>3, <2>4 DEF HitIds, IdsOf
  <2> QED
    BY <1>2, <1>4, <2>1, <2>5
<1>5. CASE SkipVectors \/ VectorsFail
  <2>1. UNCHANGED <<store, lexical, semantic, shown, alive, steady, touched>>
    BY <1>5 DEF SkipVectors, VectorsFail, history
  <2>2. HitIds' = HitIds
    BY <2>1 DEF HitIds, IdsOf
  <2> QED
    BY <1>2, <1>5, <2>1, <2>2 DEF SkipVectors, VectorsFail
<1>6. CASE Merge
  <2>1. UNCHANGED <<store, lexical, semantic, alive, steady, touched>>
    BY <1>6 DEF Merge, history
  <2>2. IdsOf(shown') \subseteq IdsOf(lexical) \cup IdsOf(semantic)
    BY <1>6, MergeShows DEF Found, Near, IdsOf
  <2>3. HitIds' \subseteq HitIds
    BY <2>1, <2>2 DEF HitIds, IdsOf
  <2> QED
    BY <1>2, <1>6, <2>1, <2>3 DEF Merge
<1>7. CASE Render
  BY <1>7, RecalledQuiet DEF Render, store
<1> QED
  BY <1>1, <1>3, <1>4, <1>5, <1>6, <1>7
  DEF Retrieve, LexicalMemories, LexicalSummaries, VectorMemories, VectorSummaries

LEMMA RecalledNext == TypeOK /\ RecalledInv /\ [Next]_vars => RecalledInv'
<1> SUFFICES ASSUME TypeOK, RecalledInv, [Next]_vars PROVE RecalledInv'
  OBVIOUS
<1>1. CASE Restart
  BY <1>1, RecalledQuiet DEF Restart
<1>2. CASE UNCHANGED vars
  BY <1>2 DEF vars, store, search, history, RecalledInv, Active, Ids, IdsOf, HitIds, Memory
<1> QED
  BY <1>1, <1>2, RecalledRetrieve, RecalledWrite, WriteEffects DEF Next

\* For any number of writers and any pace of the embedding server: a turn is
\* told only what was its user's own and in force during the retrieval.
THEOREM AlwaysWasActive == Spec => []RecalledWasActive
<1>1. RecalledInv => RecalledWasActive
  BY DEF RecalledInv, RecalledWasActive, HitIds
<1> QED
  BY <1>1, TypeInit, TypeNext, RecalledInit, RecalledNext, PTL DEF Spec

\* ... and two values of one key only if that key was written meanwhile.
THEOREM AlwaysConsistent == Spec => []ContradictionNeedsOvertaking
<1>1. RecalledInv => ContradictionNeedsOvertaking
  BY DEF RecalledInv, ContradictionNeedsOvertaking, Memory, HitIds
<1> QED
  BY <1>1, TypeInit, TypeNext, RecalledInit, RecalledNext, PTL DEF Spec

-----------------------------------------------------------------------------
(* What matches the words is shown. *)

\* Active all the time, the asker's, and a match.
Words(kind) ==
  {i \in steady : /\ entries[i].kind = kind /\ entries[i].owner = Asker
                  /\ Strength[TextOf(i)] > 0}

\* Found, or crowded out by as many hits as can be shown.
Held(S, hits) == S \subseteq IdsOf(hits) \/ Cardinality(IdsOf(hits)) >= Limit

LexicalInv ==
  /\ query = "words" /\ stage \in {"summaries", "embedding", "vectors", "merging"} =>
       Held(Words("memory"), lexical)
  /\ query = "words" /\ stage \in {"embedding", "vectors", "merging"} =>
       Held(Words("summary"), lexical)
  /\ LexicalIsNeverLost

LEMMA IdsFinite == TypeOK => IsFiniteSet(Ids)
BY IdsType, FS_Interval

\* A larger set holds as much.
LEMMA HeldGrows ==
  ASSUME NEW S, NEW hits, NEW more, hits \subseteq more, Held(S, hits),
         IsFiniteSet(IdsOf(more))
  PROVE  Held(S, more)
<1>1. IdsOf(hits) \subseteq IdsOf(more)
  BY DEF IdsOf
<1>2. /\ Cardinality(IdsOf(hits)) <= Cardinality(IdsOf(more))
      /\ Cardinality(IdsOf(hits)) \in Nat /\ Cardinality(IdsOf(more)) \in Nat
  BY <1>1, FS_Subset, FS_CardinalityType
<1> QED
  BY <1>1, <1>2, RecallAssumption DEF Held

LEMMA HeldShrinks ==
  ASSUME NEW S, NEW T, NEW hits, T \subseteq S, Held(S, hits)
  PROVE  Held(T, hits)
BY DEF Held

LEMMA HitsFinite ==
  ASSUME TypeOK
  PROVE  IsFiniteSet(IdsOf(lexical)) /\ IsFiniteSet(IdsOf(semantic)) /\ IsFiniteSet(IdsOf(Near))
<1>1. IsFiniteSet(Ids)
  BY IdsFinite
<1>2. IdsOf(lexical) \subseteq Ids /\ IdsOf(semantic) \subseteq Ids /\ IdsOf(Near) \subseteq Ids
  BY DEF TypeOK, Near, IdsOf
<1> QED
  BY <1>1, <1>2, FS_Subset

LEMMA SearchHolds ==
  ASSUME TypeOK, TypeOK', RecalledInv, NEW kind, NEW n \in Nat, n >= Limit, NEW next,
         SearchLexical(kind, n, next), query = "words"
  PROVE  Held(Words(kind), lexical')
<1>1. PICK T \in SUBSET Matching(kind) :
        /\ T = Matching(kind) \/ Cardinality(T) = n
        /\ IdsOf(lexical') = IdsOf(lexical) \cup T
  BY LexicalAdds
<1>2. Words(kind) \subseteq Matching(kind)
  BY DEF Words, Matching, Eligible, RecalledInv
<1>3. CASE T = Matching(kind)
  BY <1>1, <1>2, <1>3 DEF Held
<1>4. CASE Cardinality(T) = n
  <2>1. IsFiniteSet(IdsOf(lexical'))
    <3>1. IdsOf(lexical') \subseteq Ids
      BY <1>1 DEF TypeOK, Matching, Eligible, Active
    <3> QED
      BY <3>1, IdsFinite, FS_Subset
  <2>2. Cardinality(IdsOf(lexical')) \in Nat /\ Cardinality(T) <= Cardinality(IdsOf(lexical'))
    BY <1>1, <2>1, FS_Subset, FS_CardinalityType
  <2> QED
    BY <1>4, <2>2, RecallAssumption DEF Held
<1> QED
  BY <1>1, <1>3, <1>4

\* The merge cuts off nothing before the result is full.
LEMMA MergeHolds ==
  ASSUME TypeOK, Merge, NEW S, NEW hits, Held(S, hits), IdsOf(hits) \subseteq Found, NEW i \in S
  PROVE  i \in IdsOf(shown)' \/ Full'
<1>1. PICK T \in SUBSET Found :
        /\ T = Found \/ Cardinality(T) = Limit
        /\ Cardinality(T) <= Limit /\ IdsOf(shown') = T
        /\ shown' = {[id |-> j, score |-> Weight(j)] : j \in T}
  BY MergeShows
<1>2. IsFiniteSet(Found)
  <2>1. Found \subseteq Ids
    BY DEF Found, Near, IdsOf, TypeOK
  <2> QED
    BY <2>1, IdsFinite, FS_Subset
<1>3. IsFiniteSet(T) /\ Cardinality(T) \in Nat
  BY <1>2, FS_Subset, FS_CardinalityType
<1>4. Cardinality(shown') = Cardinality(T)
  <2> DEFINE f == [j \in T |-> [id |-> j, score |-> Weight(j)]]
  <2>1. f \in [T -> shown'] /\ \A h \in shown' : \E j \in T : f[j] = h
    BY <1>1
  <2>2. \A j, k \in T : f[j] = f[k] => j = k
    <3> HIDE DEF f
    <3> SUFFICES ASSUME NEW j \in T, NEW k \in T, f[j] = f[k] PROVE j = k
      OBVIOUS
    <3>1. f[j].id = j /\ f[k].id = k
      BY DEF f
    <3> QED
      BY <3>1
  <2> HIDE DEF f
  <2>3. f \in Surjection(T, shown') /\ f \in Injection(T, shown')
    BY <2>1, <2>2 DEF Surjection, Injection, IsInjective
  <2> QED
    BY <1>3, <2>3, FS_Surjection
<1>5. CASE Cardinality(T) = Limit
  BY <1>4, <1>5 DEF Full
<1>6. CASE T = Found /\ i \in IdsOf(hits)
  BY <1>1, <1>6 DEF IdsOf
<1>7. CASE T = Found /\ Cardinality(IdsOf(hits)) >= Limit
  <2>1. Cardinality(IdsOf(hits)) <= Cardinality(T) /\ Cardinality(IdsOf(hits)) \in Nat
    BY <1>2, <1>7, FS_Subset, FS_CardinalityType
  <2> QED
    BY <1>1, <1>3, <1>4, <1>7, <2>1, RecallAssumption DEF Full
<1> QED
  BY <1>1, <1>5, <1>6, <1>7 DEF Held

LEMMA LexicalInit == Init => LexicalInv
BY DEF Init, LexicalInv, LexicalIsNeverLost

LEMMA LexicalQuiet == Quiet => LexicalInv'
BY DEF Quiet, LexicalInv, LexicalIsNeverLost

LEMMA WordsShrink ==
  ASSUME TypeOK, NEW gone, NEW new, WriteEffect(gone, new), stage # "idle", NEW kind
  PROVE  Words(kind)' \subseteq Words(kind)
<1>1. steady' \subseteq steady /\ steady \subseteq Ids
  BY DEF WriteEffect, TypeOK
<1>2. \A i \in Ids : Fixed(i)
  BY DEF WriteEffect, Rewrites
<1> QED
  BY <1>1, <1>2 DEF Words, Fixed, TextOf

LEMMA LexicalWrite ==
  ASSUME TypeOK, LexicalInv, ~ Local, NEW gone, NEW new, WriteEffect(gone, new)
  PROVE  LexicalInv'
<1>1. UNCHANGED <<stage, query, lexical>> /\ stage \notin {"merging", "done"}
  BY DEF WriteEffect, search, Local
<1>3. LexicalIsNeverLost'
  BY <1>1 DEF LexicalIsNeverLost
<1>4. ASSUME NEW kind, stage # "idle", Held(Words(kind), lexical)
      PROVE  Held(Words(kind)', lexical')
  BY <1>1, <1>4, WordsShrink, HeldShrinks
<1> QED
  BY <1>1, <1>3, <1>4 DEF LexicalInv, Held

LEMMA LexicalRetrieve ==
  ASSUME TypeOK, TypeOK', RecalledInv, LexicalInv, Retrieve
  PROVE  LexicalInv'
<1>1. ASSUME UNCHANGED <<store, steady>>, NEW kind PROVE Words(kind)' = Words(kind)
  BY <1>1, RowsKept DEF Words
<1>2. CASE Begin
  BY <1>2 DEF Begin, LexicalInv, LexicalIsNeverLost
<1>3. CASE LexicalMemories
  <2>1. /\ SearchLexical("memory", 2 * Limit, "summaries") /\ UNCHANGED <<store, query, steady>>
        /\ stage' = "summaries"
    BY <1>3 DEF LexicalMemories, SearchLexical, history
  <2>2. 2 * Limit \in Nat /\ 2 * Limit >= Limit
    BY RecallAssumption
  <2>3. query = "words" => Held(Words("memory"), lexical')
    BY <2>1, <2>2, SearchHolds
  <2> QED
    BY <1>1, <2>1, <2>3 DEF LexicalInv, LexicalIsNeverLost, Held, IdsOf
<1>4. CASE LexicalSummaries
  <2>1. /\ SearchLexical("summary", Limit, "embedding") /\ UNCHANGED <<store, query, steady>>
        /\ stage = "summaries" /\ stage' = "embedding" /\ lexical \subseteq lexical'
    BY <1>4 DEF LexicalSummaries, SearchLexical, history
  <2>2. Limit \in Nat /\ Limit >= Limit
    BY RecallAssumption
  <2>3. query = "words" => Held(Words("summary"), lexical')
    BY <2>1, <2>2, SearchHolds
  <2>4. IsFiniteSet(IdsOf(lexical'))
    <3>1. IdsOf(lexical') \subseteq Ids
      BY <2>1, RowsKept DEF TypeOK, IdsOf
    <3> QED
      BY <3>1, IdsFinite, FS_Subset
  <2>5. query = "words" => Held(Words("memory"), lexical')
    BY <2>1, <2>4, HeldGrows DEF LexicalInv
  <2> QED
    BY <1>1, <2>1, <2>3, <2>5 DEF LexicalInv, LexicalIsNeverLost, Held, IdsOf
<1>5. CASE SkipVectors \/ VectorsFail \/ VectorMemories \/ VectorSummaries
  <2>1. /\ UNCHANGED <<store, query, steady, lexical>>
        /\ stage \in {"embedding", "vectors"} /\ stage' \in {"vectors", "merging"}
    BY <1>5 DEF SkipVectors, VectorsFail, VectorMemories, VectorSummaries, SearchVectors, history
  <2> QED
    BY <1>1, <2>1 DEF LexicalInv, LexicalIsNeverLost, Held, IdsOf
<1>6. CASE Merge
  <2>1. stage = "merging" /\ stage' = "done" /\ UNCHANGED <<store, query, steady>>
    BY <1>6 DEF Merge, history
  <2>2. IdsOf(lexical) \subseteq Found
    BY DEF Found
  <2>3. ASSUME query = "words", NEW i \in steady', entries'[i].owner = Asker,
               Strength[TextOf(i)'] > 0
        PROVE  i \in IdsOf(shown)' \/ Full'
    <3>1. i \in steady /\ entries[i].owner = Asker /\ Strength[TextOf(i)] > 0
      BY <2>1, <2>3, RowsKept
    <3>2. entries[i].kind \in {"memory", "summary"}
      <4>1. entries[i] \in Entry
        BY <3>1, IdsType DEF TypeOK
      <4> QED
        BY <4>1 DEF Entry, Kinds
    <3>3. i \in Words("memory") \/ i \in Words("summary")
      BY <3>1, <3>2 DEF Words
    <3>4. Held(Words("memory"), lexical) /\ Held(Words("summary"), lexical)
      BY <2>1, <2>3 DEF LexicalInv
    <3> QED
      BY <1>6, <2>2, <3>3, <3>4, MergeHolds
  <2>4. LexicalIsNeverLost'
    BY <2>1, <2>3 DEF LexicalIsNeverLost
  <2> QED
    BY <2>1, <2>4 DEF LexicalInv
<1>7. CASE Render
  BY <1>7, LexicalQuiet DEF Render
<1> QED
  BY <1>2, <1>3, <1>4, <1>5, <1>6, <1>7 DEF Retrieve

LEMMA LexicalNext == TypeOK /\ RecalledInv /\ LexicalInv /\ [Next]_vars => LexicalInv'
<1> SUFFICES ASSUME TypeOK, RecalledInv, LexicalInv, [Next]_vars PROVE LexicalInv'
  OBVIOUS
<1>1. CASE Restart
  BY <1>1, LexicalQuiet DEF Restart
<1>2. CASE UNCHANGED vars
  BY <1>2 DEF vars, store, search, history, LexicalInv, LexicalIsNeverLost, Held, Words,
              Full, IdsOf, TextOf
<1>3. TypeOK'
  BY TypeNext
<1> QED
  BY <1>1, <1>2, <1>3, LexicalRetrieve, LexicalWrite, WriteEffects DEF Next

\* For any limit and any failures: what matches the words and stays active is
\* shown, unless the result is full.
THEOREM AlwaysFound == Spec => []LexicalIsNeverLost
<1>1. LexicalInv => LexicalIsNeverLost
  BY DEF LexicalInv
<1> QED
  BY <1>1, TypeInit, TypeNext, RecalledInit, RecalledNext, LexicalInit, LexicalNext, PTL DEF Spec

-----------------------------------------------------------------------------
(* What is near enough is shown. *)

\* The vectors that stand before i's in an answer of the extension.
Crowd(i) == {j \in vectors \ {i} : Distance[TextOf(j)] <= Distance[TextOf(i)]}

Reached(kind) ==
  {i \in steady \cap reachable :
     /\ entries[i].kind = kind /\ entries[i].owner = Asker
     /\ VectorScore(i) >= MinimumVectorScore
     /\ vecLoaded => Cardinality(Crowd(i)) < Nearest[kind]}

NearInv ==
  /\ query = "blank" => reachable = {}
  /\ vecLoaded => reachable \subseteq vectors
  /\ stage \in {"vectors", "merging"} => Held(Reached("memory"), Near)
  /\ stage = "merging" => Held(Reached("summary"), Near)
  /\ NearIsFoundUnlessCrowded

LEMMA NearInit == Init => NearInv
BY DEF Init, NearInv, NearIsFoundUnlessCrowded

LEMMA NearQuiet == Quiet => NearInv'
BY DEF Quiet, NearInv, NearIsFoundUnlessCrowded

LEMMA CrowdFinite ==
  ASSUME TypeOK, NEW i
  PROVE  IsFiniteSet(vectors) /\ IsFiniteSet(Crowd(i)) /\ Cardinality(Crowd(i)) \in Nat
<1>1. vectors \subseteq Ids /\ Crowd(i) \subseteq Ids
  BY DEF TypeOK, Crowd
<1> QED
  BY <1>1, IdsFinite, FS_Subset, FS_CardinalityType

\* Writers only add vectors, so the crowd grows.
LEMMA ReachedShrinks ==
  ASSUME TypeOK, TypeOK', NEW gone, NEW new, WriteEffect(gone, new), stage # "idle", NEW kind \in Kinds
  PROVE  Reached(kind)' \subseteq Reached(kind)
<1>1. /\ steady' \subseteq steady /\ steady \subseteq Ids /\ reachable' = reachable
      /\ vecLoaded' = vecLoaded /\ vectors \subseteq vectors' /\ vectors \subseteq Ids
  BY DEF WriteEffect, TypeOK
<1>2. \A i \in Ids : Fixed(i) /\ TextOf(i)' = TextOf(i)
  BY DEF WriteEffect, Rewrites, Fixed, TextOf
<1>3. ASSUME NEW i \in Reached(kind)'
      PROVE  i \in Reached(kind)
  <2>1. /\ i \in Ids /\ i \in steady \cap reachable
        /\ entries[i].kind = kind /\ entries[i].owner = Asker
    BY <1>1, <1>2, <1>3 DEF Reached, Fixed
  <2>2. VectorScore(i)' = VectorScore(i)
    BY <1>1, <1>2, <2>1 DEF VectorScore
  <2>3. ASSUME vecLoaded PROVE Cardinality(Crowd(i)) < Nearest[kind]
    <3>1. Cardinality(Crowd(i)') < Nearest[kind]
      BY <1>1, <1>3, <2>3 DEF Reached
    <3>2. Crowd(i) \subseteq Crowd(i)'
      BY <1>1, <1>2, <2>1 DEF Crowd
    <3>3. IsFiniteSet(Crowd(i)')
      <4>1. IsFiniteSet(Ids')
        BY TypeOK', IdsType, FS_Interval DEF TypeOK, Ids
      <4>2. Crowd(i)' \subseteq Ids'
        BY DEF TypeOK, Crowd
      <4> QED
        BY <4>1, <4>2, FS_Subset
    <3>4. /\ Cardinality(Crowd(i)) <= Cardinality(Crowd(i)')
          /\ Cardinality(Crowd(i)) \in Nat /\ Cardinality(Crowd(i)') \in Nat
      BY <3>2, <3>3, FS_Subset, FS_CardinalityType
    <3> QED
      BY <3>1, <3>4, RecallAssumption DEF Kinds
  <2> QED
    BY <1>3, <2>1, <2>2, <2>3 DEF Reached
<1> QED
  BY <1>3

\* Fewer than Nearest[kind] vectors before it: every answer of the extension has it.
LEMMA UncrowdedIsNear ==
  ASSUME TypeOK, vecLoaded, NEW kind \in Kinds, NEW i \in vectors,
         Cardinality(Crowd(i)) < Nearest[kind], NEW near \in NearestSets(kind)
  PROVE  i \in near
<1>1. /\ near \subseteq vectors /\ (near = vectors \/ Cardinality(near) = Nearest[kind])
      /\ \A k \in near, j \in vectors \ near :
           [v \in vectors |-> -Distance[TextOf(v)]][j] <= [v \in vectors |-> -Distance[TextOf(v)]][k]
  BY BestFacts DEF NearestSets
<1>2. SUFFICES ASSUME i \notin near PROVE FALSE
  OBVIOUS
<1>3. Cardinality(near) = Nearest[kind]
  BY <1>1, <1>2
<1>4. \A k \in vectors : Distance[TextOf(k)] \in Nat
  <2>1. \A k \in vectors : entries[k] \in Entry
    BY IdsType DEF TypeOK
  <2> QED
    BY <2>1, RelevanceAssumption DEF TextOf, Entry
<1>5. near \subseteq Crowd(i)
  <2> SUFFICES ASSUME NEW k \in near PROVE k \in Crowd(i)
    OBVIOUS
  <2>1. k \in vectors /\ k # i
    BY <1>1, <1>2
  <2>2. -Distance[TextOf(i)] <= -Distance[TextOf(k)]
    BY <1>1, <1>2, <2>1
  <2>3. Distance[TextOf(k)] <= Distance[TextOf(i)]
    BY <1>4, <2>1, <2>2
  <2> QED
    BY <2>1, <2>3 DEF Crowd
<1>6. Cardinality(near) <= Cardinality(Crowd(i))
  BY <1>5, CrowdFinite, FS_Subset
<1> QED
  BY <1>3, <1>6, CrowdFinite, RecallAssumption DEF Kinds

LEMMA VectorHolds ==
  ASSUME TypeOK, TypeOK', RecalledInv, NearInv, NEW kind \in Kinds, NEW n \in Nat, n >= Limit,
         NEW next,
         SearchVectors(kind, n, next)
  PROVE  Held(Reached(kind), Near')
<1>1. PICK near \in NearestSets(kind) : \E T \in SUBSET Candidates(kind, near) :
        /\ T = Candidates(kind, near) \/ Cardinality(T) = n
        /\ \A i \in T, j \in Candidates(kind, near) \ T : VectorScore(j) <= VectorScore(i)
        /\ semantic' = semantic \cup VectorHits(T) /\ semantic' \subseteq Hit
        /\ IdsOf(semantic') = IdsOf(semantic) \cup T
  BY VectorAdds
<1>2. PICK T \in SUBSET Candidates(kind, near) :
        /\ T = Candidates(kind, near) \/ Cardinality(T) = n
        /\ \A i \in T, j \in Candidates(kind, near) \ T : VectorScore(j) <= VectorScore(i)
        /\ semantic' = semantic \cup VectorHits(T)
  BY <1>1
<1>3. \A i \in T : VectorScore(i) >= MinimumVectorScore => i \in IdsOf(Near')
  <2> SUFFICES ASSUME NEW i \in T, VectorScore(i) >= MinimumVectorScore
               PROVE  i \in IdsOf(Near')
    OBVIOUS
  <2> DEFINE h == [id |-> i, score |-> VectorScore(i), confidence |-> ConfidenceOf(i)]
  <2>1. h \in semantic'
    BY <1>2 DEF VectorHits
  <2>2. h.score >= MinimumVectorScore /\ h.id = i
    OBVIOUS
  <2> HIDE DEF h
  <2>3. h \in Near'
    BY <2>1, <2>2 DEF Near
  <2> QED
    BY <2>2, <2>3 DEF IdsOf
<1>4. Reached(kind) \subseteq Candidates(kind, near)
  <2> SUFFICES ASSUME NEW i \in Reached(kind) PROVE i \in Candidates(kind, near)
    OBVIOUS
  <2>1. i \in Eligible(kind) /\ i \in embedded
    BY DEF Reached, Eligible, RecalledInv, TypeOK
  <2>2. i \in near
    <3>1. CASE vecLoaded
      BY <3>1, UncrowdedIsNear DEF Reached, NearInv
    <3>2. CASE ~ vecLoaded
      BY <2>1, <3>2 DEF NearestSets
    <3> QED
      BY <3>1, <3>2
  <2> QED
    BY <2>1, <2>2 DEF Candidates
<1>5. \A i \in Candidates(kind, near) : VectorScore(i) \in Nat
  BY EligibleFacts, RelevanceAssumption DEF Candidates, VectorScore
<1>6. CASE Reached(kind) \subseteq T
  BY <1>3, <1>6 DEF Held, Reached
<1>7. ASSUME NEW i \in Reached(kind), i \notin T
      PROVE  Held(Reached(kind), Near')
  <2>1. Cardinality(T) = n
    BY <1>2, <1>4, <1>7
  <2>2. VectorScore(i) >= MinimumVectorScore /\ i \in Candidates(kind, near)
    BY <1>4 DEF Reached
  <2>3. \A k \in T : VectorScore(k) >= MinimumVectorScore
    BY <1>2, <1>5, <1>7, <2>2, RecallAssumption
  <2>4. T \subseteq IdsOf(Near')
    BY <1>3, <2>3
  <2>5. IsFiniteSet(IdsOf(Near'))
    <3>1. IdsOf(Near') \subseteq Ids'
      BY DEF Near, IdsOf, TypeOK
    <3>2. Ids' = Ids
      BY RowsKept DEF SearchVectors
    <3> QED
      BY <3>1, <3>2, IdsFinite, FS_Subset
  <2>6. /\ Cardinality(T) <= Cardinality(IdsOf(Near')) /\ Cardinality(IdsOf(Near')) \in Nat
    BY <2>4, <2>5, FS_Subset, FS_CardinalityType
  <2> QED
    BY <2>1, <2>6, RecallAssumption DEF Held
<1> QED
  BY <1>6, <1>7

LEMMA NearWrite ==
  ASSUME TypeOK, TypeOK', NearInv, ~ Local, NEW gone, NEW new, WriteEffect(gone, new)
  PROVE  NearInv'
<1>1. /\ UNCHANGED <<stage, query, semantic, vecLoaded>> /\ stage \notin {"merging", "done"}
      /\ reachable' = reachable /\ vectors \subseteq vectors' /\ Near' = Near
  BY DEF WriteEffect, search, history, Local, Near
<1>2. stage = "vectors" => Held(Reached("memory"), Near)'
  <2> SUFFICES ASSUME stage = "vectors" PROVE Held(Reached("memory"), Near)'
    OBVIOUS
  <2>1. Held(Reached("memory"), Near) /\ Reached("memory")' \subseteq Reached("memory")
    BY ReachedShrinks DEF NearInv, Kinds
  <2> QED
    BY <1>1, <2>1 DEF Held, IdsOf
<1>3. NearIsFoundUnlessCrowded'
  BY <1>1 DEF NearIsFoundUnlessCrowded
<1> QED
  BY <1>1, <1>2, <1>3 DEF NearInv

LEMMA NearRetrieve ==
  ASSUME TypeOK, TypeOK', RecalledInv, NearInv, Retrieve
  PROVE  NearInv'
<1>1. ASSUME UNCHANGED <<store, steady, reachable>>, NEW kind
      PROVE  Reached(kind)' = Reached(kind)
  BY <1>1, RowsKept DEF Reached, VectorScore, Crowd, store
<1>2. CASE Begin
  BY <1>2 DEF Begin, NearInv, NearIsFoundUnlessCrowded, store
<1>3. CASE LexicalMemories \/ LexicalSummaries
  BY <1>3 DEF LexicalMemories, LexicalSummaries, SearchLexical, NearInv,
              NearIsFoundUnlessCrowded, store, history
<1>4. CASE SkipVectors \/ VectorsFail
  <2>1. UNCHANGED store /\ stage' = "merging" /\ reachable' = {}
    BY <1>4 DEF SkipVectors, VectorsFail, history, NearInv
  <2>2. \A kind : Reached(kind)' = {}
    BY <2>1 DEF Reached
  <2> QED
    BY <2>1, <2>2 DEF NearInv, NearIsFoundUnlessCrowded, Held, store
<1>5. CASE VectorMemories
  <2>1. /\ SearchVectors("memory", 2 * Limit, "vectors")
        /\ UNCHANGED <<store, query, steady, reachable>> /\ stage' = "vectors"
    BY <1>5 DEF VectorMemories, SearchVectors, history
  <2>2. 2 * Limit \in Nat /\ 2 * Limit >= Limit
    BY RecallAssumption
  <2>3. Held(Reached("memory"), Near')
    BY <2>1, <2>2, VectorHolds DEF Kinds
  <2>4. Held(Reached("memory"), Near)'
    BY <1>1, <2>1, <2>3 DEF Held, IdsOf
  <2> QED
    BY <2>1, <2>4 DEF NearInv, NearIsFoundUnlessCrowded, store
<1>6. CASE VectorSummaries
  <2>1. /\ SearchVectors("summary", Limit, "merging")
        /\ UNCHANGED <<store, query, steady, reachable>>
        /\ stage = "vectors" /\ stage' = "merging" /\ semantic \subseteq semantic'
    BY <1>6 DEF VectorSummaries, SearchVectors, history
  <2>2. Limit \in Nat /\ Limit >= Limit
    BY RecallAssumption
  <2>3. Held(Reached("summary"), Near')
    BY <2>1, <2>2, VectorHolds DEF Kinds
  <2>4. Near \subseteq Near' /\ IsFiniteSet(IdsOf(Near'))
    <3>1. Near \subseteq Near'
      BY <2>1 DEF Near
    <3>2. IdsOf(Near') \subseteq Ids
      BY <2>1, RowsKept DEF Near, IdsOf, TypeOK
    <3> QED
      BY <3>1, <3>2, IdsFinite, FS_Subset
  <2>5. Held(Reached("memory"), Near')
    BY <2>1, <2>4, HeldGrows DEF NearInv
  <2>6. Held(Reached("memory"), Near)' /\ Held(Reached("summary"), Near)'
    BY <1>1, <2>1, <2>3, <2>5 DEF Held, IdsOf
  <2> QED
    BY <2>1, <2>6 DEF NearInv, NearIsFoundUnlessCrowded, store
<1>7. CASE Merge
  <2>1. /\ stage = "merging" /\ stage' = "done"
        /\ UNCHANGED <<store, query, steady, reachable>>
    BY <1>7 DEF Merge, history
  <2>2. IdsOf(Near) \subseteq Found
    BY DEF Found
  <2>3. Held(Reached("memory"), Near) /\ Held(Reached("summary"), Near)
    BY <2>1 DEF NearInv
  <2>4. ASSUME NEW i, i \in Reached("memory")' \/ i \in Reached("summary")'
        PROVE  i \in IdsOf(shown)' \/ Full'
    BY <1>1, <1>7, <2>1, <2>2, <2>3, <2>4, MergeHolds
  <2>5. ASSUME NEW i \in (steady \cap reachable)'
        PROVE  entries'[i].kind \in {"memory", "summary"}
    <3>1. entries[i] \in Entry
      BY <2>1, <2>5, IdsType DEF TypeOK
    <3> QED
      BY <2>1, <3>1 DEF Entry, Kinds, store
  <2>6. NearIsFoundUnlessCrowded'
    BY <2>4, <2>5 DEF NearIsFoundUnlessCrowded, Reached, Crowd
  <2> QED
    BY <2>1, <2>6 DEF NearInv, store
<1>8. CASE Render
  BY <1>8, NearQuiet DEF Render
<1> QED
  BY <1>2, <1>3, <1>4, <1>5, <1>6, <1>7, <1>8 DEF Retrieve

LEMMA NearNext == TypeOK /\ RecalledInv /\ NearInv /\ [Next]_vars => NearInv'
<1> SUFFICES ASSUME TypeOK, RecalledInv, NearInv, [Next]_vars PROVE NearInv'
  OBVIOUS
<1>1. CASE Restart
  BY <1>1, NearQuiet DEF Restart
<1>2. CASE UNCHANGED vars
  <2>1. UNCHANGED <<store, search, history>> /\ \A i : TextOf(i)' = TextOf(i)
    BY <1>2 DEF vars, store, TextOf
  <2>2. \A kind : Reached(kind)' = Reached(kind)
    BY <2>1 DEF store, history, Reached, VectorScore, Crowd
  <2>3. NearIsFoundUnlessCrowded' <=> NearIsFoundUnlessCrowded
    BY <2>1 DEF store, search, history, NearIsFoundUnlessCrowded, VectorScore, Full, IdsOf
  <2> QED
    BY <2>1, <2>2, <2>3 DEF store, search, history, NearInv, Held, Near, IdsOf
<1>3. TypeOK'
  BY TypeNext
<1> QED
  BY <1>1, <1>2, <1>3, NearRetrieve, NearWrite, WriteEffects DEF Next

\* For any number of vectors and any limits: what is near enough and was
\* embedded before is shown, unless it is crowded out or the result is full.
THEOREM AlwaysNear == Spec => []NearIsFoundUnlessCrowded
<1>1. NearInv => NearIsFoundUnlessCrowded
  BY DEF NearInv
<1> QED
  BY <1>1, TypeInit, TypeNext, RecalledInit, RecalledNext, NearInit, NearNext, PTL DEF Spec
=============================================================================
