---------------------------- MODULE HistoryProofs ----------------------------
(***************************************************************************)
(* Lemmas about the operations on histories, for every history and every   *)
(* limit: what Extract picks, what Trim keeps (always an end of what it is *)
(* given), and where Splice puts the output of a turn.                     *)
(***************************************************************************)
EXTENDS History, FiniteSetTheorems, SequenceTheorems, TLAPS

-----------------------------------------------------------------------------
(* Picking messages out of a history. *)

\* The members of a finite set of integers by rank: every rank has one, every
\* member has one, and ranks and members are ordered alike.
LEMMA NthProperties ==
  ASSUME NEW I, IsFiniteSet(I), I \subseteq Int
  PROVE  /\ Cardinality(I) \in Nat
         /\ \A k \in 1..Cardinality(I) : Nth(I, k) \in I
         /\ \A i \in I : \E k \in 1..Cardinality(I) : Nth(I, k) = i
         /\ \A k, l \in 1..Cardinality(I) : k < l => Nth(I, k) < Nth(I, l)
<1> DEFINE N == Cardinality(I)
           below(i) == {j \in I : j <= i}
           place == [i \in I |-> Cardinality(below(i))]
<1>1. N \in Nat
  BY FS_CardinalityType
<1>2. \A i \in I : IsFiniteSet(below(i)) /\ Cardinality(below(i)) <= N
                     /\ Cardinality(below(i)) \in Nat
  BY FS_Subset, FS_CardinalityType
<1>3. ASSUME NEW i \in I, NEW j \in I, i < j
      PROVE  Cardinality(below(i)) < Cardinality(below(j))
  <2>1. below(i) \in SUBSET below(j) /\ j \in below(j) /\ j \notin below(i)
    <3>1. i \in Int /\ j \in Int
      OBVIOUS
    <3>2. ASSUME NEW k \in I, k <= i PROVE k <= j
      <4>1. k \in Int
        OBVIOUS
      <4> QED
        BY <1>3, <3>1, <3>2, <4>1
    <3>3. j \in below(j) /\ j \notin below(i)
      BY <1>3, <3>1
    <3> QED
      BY <3>2, <3>3
  <2>2. IsFiniteSet(below(j)) /\ Cardinality(below(i)) \in Nat /\ Cardinality(below(j)) \in Nat
    BY <1>2
  <2> HIDE DEF below
  <2>3. Cardinality(below(i)) <= Cardinality(below(j))
        /\ (Cardinality(below(j)) = Cardinality(below(i)) => below(j) = below(i))
    BY <2>1, <2>2, FS_Subset
  <2> QED
    BY <2>1, <2>2, <2>3
<1>4. \A i \in I : Cardinality(below(i)) >= 1
  <2> SUFFICES ASSUME NEW i \in I PROVE Cardinality(below(i)) >= 1
    OBVIOUS
  <2>1. i \in below(i)
    OBVIOUS
  <2>2. IsFiniteSet(below(i)) /\ Cardinality(below(i)) \in Nat
    BY <1>2
  <2> HIDE DEF below
  <2> QED
    BY <2>1, <2>2, FS_EmptySet
<1> HIDE DEF below
<1>5. place \in [I -> 1..N]
  BY <1>1, <1>2, <1>4
<1>6. \A i, j \in I : i < j => place[i] < place[j]
  BY <1>3
<1>7. place \in Injection(I, 1..N)
  <2>1. \A i, j \in I : i # j => place[i] # place[j]
    <3> SUFFICES ASSUME NEW i \in I, NEW j \in I, i # j PROVE place[i] # place[j]
      OBVIOUS
    <3>1. i < j \/ j < i
      OBVIOUS
    <3>2. place[i] \in Int /\ place[j] \in Int
      BY <1>1, <1>5
    <3> HIDE DEF place
    <3> QED
      BY <3>1, <3>2, <1>6
  <2> QED
    BY <2>1, <1>5 DEF Injection, IsInjective
<1>8. place \in Surjection(I, 1..N)
  <2>1. IsFiniteSet(1..N) /\ Cardinality(1..N) = N
    BY <1>1, FS_Interval
  <2> QED
    BY <2>1, <1>7, FS_Injection
<1>9. ASSUME NEW k \in 1..N
      PROVE  Nth(I, k) \in I /\ place[Nth(I, k)] = k
  <2>1. \E i \in I : Cardinality({j \in I : j <= i}) = k
    BY <1>8 DEF Surjection, below
  <2>2. Nth(I, k) \in I /\ Cardinality({j \in I : j <= Nth(I, k)}) = k
    BY <2>1 DEF Nth
  <2> QED
    BY <2>2 DEF below
<1> HIDE DEF place
<1>10. ASSUME NEW i \in I PROVE \E k \in 1..N : Nth(I, k) = i
  <2>1. place[i] \in 1..N
    BY <1>5
  <2>2. Nth(I, place[i]) \in I /\ place[Nth(I, place[i])] = place[i]
    BY <2>1, <1>9
  <2>3. Nth(I, place[i]) = i
    BY <2>2, <1>7 DEF Injection, IsInjective
  <2> QED
    BY <2>1, <2>3
<1>11. ASSUME NEW k \in 1..N, NEW l \in 1..N, k < l
       PROVE  Nth(I, k) < Nth(I, l)
  <2>1. /\ Nth(I, k) \in I /\ place[Nth(I, k)] = k
        /\ Nth(I, l) \in I /\ place[Nth(I, l)] = l
    BY <1>9
  <2>2. Nth(I, k) \in Int /\ Nth(I, l) \in Int
    BY <2>1
  <2>3. ~ Nth(I, l) < Nth(I, k)
    <3>1. Nth(I, l) < Nth(I, k) => l < k
      BY <2>1, <1>6
    <3> QED
      BY <3>1, <1>11, <1>1
  <2>4. Nth(I, l) # Nth(I, k)
    BY <2>1, <1>11
  <2> QED
    BY <2>2, <2>3, <2>4
<1> QED
  BY <1>1, <1>9, <1>10, <1>11

\* The positions of an interval, counted.
LEMMA NthInterval ==
  ASSUME NEW a \in Int, NEW b \in Int, a <= b + 1
  PROVE  /\ Cardinality(a..b) = b - a + 1
         /\ \A k \in 1..(b - a + 1) : Nth(a..b, k) = a + k - 1
<1>1. Cardinality(a..b) = b - a + 1
  BY FS_Interval
<1>2. ASSUME NEW k \in 1..(b - a + 1), NEW i \in a..b
      PROVE  Cardinality({j \in a..b : j <= i}) = i - a + 1
  <2>1. {j \in a..b : j <= i} = a..i
    OBVIOUS
  <2> QED
    <3>1. i \in Int /\ a <= i
      OBVIOUS
    <3>2. Cardinality(a..i) = i - a + 1
      BY <3>1, FS_Interval
    <3> QED
      BY <2>1, <3>2
<1>3. ASSUME NEW k \in 1..(b - a + 1) PROVE Nth(a..b, k) = a + k - 1
  <2>1. a + k - 1 \in a..b /\ Cardinality({j \in a..b : j <= a + k - 1}) = k
    BY <1>2
  <2>2. Nth(a..b, k) \in a..b /\ Cardinality({j \in a..b : j <= Nth(a..b, k)}) = k
    BY <2>1 DEF Nth
  <2>3. Nth(a..b, k) - a + 1 = k
    BY <2>2, <1>2
  <2> QED
    BY <2>2, <2>3
<1> QED
  BY <1>1, <1>3

\* What Extract takes of a sequence.
LEMMA ExtractProperties ==
  ASSUME NEW S, NEW s \in Seq(S), NEW I \in SUBSET (1..Len(s))
  PROVE  /\ Extract(s, I) \in Seq(S)
         /\ \A k \in DOMAIN Extract(s, I) : \E i \in I : Extract(s, I)[k] = s[i]
         /\ \A i \in I : \E k \in DOMAIN Extract(s, I) : Extract(s, I)[k] = s[i]
<1>1. IsFiniteSet(I) /\ I \subseteq Int
  <2>1. Len(s) \in Nat /\ IsFiniteSet(1..Len(s))
    BY FS_Interval, LenProperties
  <2>2. IsFiniteSet(I)
    BY <2>1, FS_Subset
  <2>3. I \subseteq Int
    BY <2>1
  <2> QED
    BY <2>2, <2>3
<1> DEFINE N == Cardinality(I)
<1>2. /\ N \in Nat
      /\ \A k \in 1..N : Nth(I, k) \in I
      /\ \A i \in I : \E k \in 1..N : Nth(I, k) = i
  BY <1>1, NthProperties
<1>3. Extract(s, I) = [k \in 1..N |-> s[Nth(I, k)]]
  BY DEF Extract
<1> HIDE DEF N
<1>4. \A k \in 1..N : s[Nth(I, k)] \in S
  BY <1>2, ElementOfSeq
<1>5. Extract(s, I) \in Seq(S) /\ DOMAIN Extract(s, I) = 1..N
  BY <1>2, <1>3, <1>4, IsASeq
<1> QED
  BY <1>2, <1>3, <1>5

\* The elements at the positions of an interval are a subsequence.
LEMMA ExtractInterval ==
  ASSUME NEW s, NEW a \in Int, NEW b \in Int, a <= b + 1
  PROVE  Extract(s, a..b) = [k \in 1..(b - a + 1) |-> s[a + k - 1]]
<1>1. /\ Cardinality(a..b) = b - a + 1
      /\ \A k \in 1..(b - a + 1) : Nth(a..b, k) = a + k - 1
  BY NthInterval
<1>2. Extract(s, a..b) = [k \in 1..(b - a + 1) |-> s[Nth(a..b, k)]]
  BY <1>1 DEF Extract
<1> QED
  BY <1>1, <1>2

\* How many of n messages _trim_history keeps.
Kept(n) == IF n + 1 <= MaxHistory \/ MaxHistory = 1 THEN n ELSE MaxHistory - 1

LEMMA KeptBounds ==
  ASSUME NEW n \in Nat
  PROVE  /\ Kept(n) \in 0..n
         /\ MaxHistory # 1 => Kept(n) <= MaxHistory - 1
         /\ n >= 1 => Kept(n) >= 1
         /\ \A m \in 0..n : Kept(m) <= Kept(n)
         /\ \A m \in Kept(n)..n : Kept(m) = Kept(n)
         /\ Kept(n + 1) <= Kept(n) + 1
BY MaxHistoryAssumption DEF Kept

LEMMA TrimProperties ==
  ASSUME NEW S, NEW s \in Seq(S)
  PROVE  /\ Trim(s) \in Seq(S)
         /\ Len(Trim(s)) = Kept(Len(s))
         /\ \A i \in 1..Len(Trim(s)) : Trim(s)[i] = s[i + Len(s) - Kept(Len(s))]
<1>1. CASE Len(s) + 1 <= MaxHistory \/ MaxHistory = 1
  BY <1>1 DEF Trim, Kept
<1>2. CASE ~ (Len(s) + 1 <= MaxHistory \/ MaxHistory = 1)
  <2>1. Trim(s) = SubSeq(s, Len(s) - MaxHistory + 2, Len(s))
    BY <1>2, MaxHistoryAssumption DEF Trim, LastN
  <2>2. Len(s) - MaxHistory + 2 \in 1..(Len(s) + 1)
    BY <1>2, MaxHistoryAssumption
  <2> QED
    BY <1>2, <2>1, <2>2, MaxHistoryAssumption, SubSeqProperties DEF Kept
<1> QED
  BY <1>1, <1>2

-----------------------------------------------------------------------------
(* Ends of a history. *)

EndOf(w, s) ==
  /\ Len(w) <= Len(s)
  /\ \A i \in 1..Len(w) : w[i] = s[i + (Len(s) - Len(w))]

LEMMA TrimIsEnd ==
  ASSUME NEW S, NEW s \in Seq(S)
  PROVE  EndOf(Trim(s), s)
<1>1. Len(s) \in Nat /\ Kept(Len(s)) \in 0..Len(s)
  BY LenProperties, KeptBounds
<1>2. /\ Len(Trim(s)) = Kept(Len(s))
      /\ \A i \in 1..Len(Trim(s)) : Trim(s)[i] = s[i + Len(s) - Kept(Len(s))]
  BY TrimProperties
<1>3. \A i \in 1..Len(Trim(s)) : i + Len(s) - Kept(Len(s)) = i + (Len(s) - Len(Trim(s)))
  BY <1>1, <1>2
<1> QED
  BY <1>1, <1>2, <1>3 DEF EndOf

\* Trimming an end gives what trimming the whole gives.
LEMMA TrimOfEnd ==
  ASSUME NEW S, NEW s \in Seq(S), NEW w \in Seq(S), EndOf(w, s), Len(w) >= Kept(Len(s))
  PROVE  Trim(w) = Trim(s)
<1> DEFINE n == Len(s)
           m == Len(w)
           k == Kept(n)
<1>1. n \in Nat /\ m \in Nat /\ m <= n /\ k \in 0..n /\ m >= k
  BY LenProperties, KeptBounds DEF EndOf
<1>2. Kept(m) = k
  <2>1. m \in k..n
    BY <1>1
  <2> HIDE DEF n, m
  <2> QED
    BY <1>1, <2>1, KeptBounds
<1>3. /\ Trim(s) \in Seq(S) /\ Len(Trim(s)) = k
      /\ \A i \in 1..k : Trim(s)[i] = s[i + n - k]
  BY TrimProperties
<1>4. /\ Trim(w) \in Seq(S) /\ Len(Trim(w)) = k
      /\ \A i \in 1..k : Trim(w)[i] = w[i + m - k]
  BY <1>2, TrimProperties
<1>5. \A i \in 1..m : w[i] = s[i + (n - m)]
  BY DEF EndOf
<1> HIDE DEF n, m, k
<1>6. ASSUME NEW i \in 1..k PROVE Trim(w)[i] = Trim(s)[i]
  <2>1. i + m - k \in 1..m /\ (i + m - k) + (n - m) = i + n - k
    BY <1>1
  <2> QED
    BY <1>3, <1>4, <1>5, <2>1
<1> QED
  BY <1>3, <1>4, <1>6, SeqEqual

LEMMA ContiguousEnd ==
  ASSUME NEW S, NEW s \in Seq(S), NEW w \in Seq(S), EndOf(w, s), Contiguous(s)
  PROVE  Contiguous(w)
<1> DEFINE d == Len(s) - Len(w)
<1>1. /\ Len(s) \in Nat /\ Len(w) \in Nat /\ d \in Nat
      /\ DOMAIN w = 1..Len(w) /\ DOMAIN s = 1..Len(s)
  BY LenProperties DEF EndOf
<1>2. \A i \in 1..Len(w) : i + d \in 1..Len(s) /\ w[i] = s[i + d]
  BY <1>1 DEF EndOf
<1> SUFFICES ASSUME NEW i \in 1..Len(w), NEW j \in 1..Len(w), i < j, w[i].turn = w[j].turn,
                    NEW k \in i..j
             PROVE  w[k].turn = w[i].turn
  BY <1>1 DEF Contiguous
<1> HIDE DEF d
<1>3. k \in 1..Len(w) /\ k + d \in (i + d)..(j + d) /\ i + d < j + d
  BY <1>1
<1>4. /\ i + d \in DOMAIN s /\ j + d \in DOMAIN s
      /\ s[i + d].turn = s[j + d].turn
  BY <1>1, <1>2
<1>5. s[k + d].turn = s[i + d].turn
  BY <1>3, <1>4 DEF Contiguous
<1> QED
  BY <1>2, <1>3, <1>5

-----------------------------------------------------------------------------
(* What a turn adds, and where. *)

\* Whatever position is last among those picked is picked last.
LEMMA ExtractLast ==
  ASSUME NEW S, NEW s \in Seq(S), NEW I \in SUBSET (1..Len(s)), Len(s) \in I
  PROVE  /\ Len(Extract(s, I)) >= 1
         /\ Extract(s, I)[Len(Extract(s, I))] = s[Len(s)]
<1> DEFINE N == Cardinality(I)
<1>1. Len(s) \in Nat /\ IsFiniteSet(I) /\ I \subseteq Int
  <2>1. Len(s) \in Nat /\ IsFiniteSet(1..Len(s))
    BY FS_Interval, LenProperties
  <2>2. IsFiniteSet(I)
    BY <2>1, FS_Subset
  <2> QED
    BY <2>1, <2>2
<1>2. /\ N \in Nat
      /\ \A k \in 1..N : Nth(I, k) \in I
      /\ \A i \in I : \E k \in 1..N : Nth(I, k) = i
      /\ \A k, l \in 1..N : k < l => Nth(I, k) < Nth(I, l)
  BY <1>1, NthProperties
<1>3. Extract(s, I) = [k \in 1..N |-> s[Nth(I, k)]]
  BY DEF Extract
<1> HIDE DEF N
<1>4. PICK k \in 1..N : Nth(I, k) = Len(s)
  BY <1>2
<1>5. k = N
  <2> SUFFICES ASSUME k < N PROVE FALSE
    BY <1>2
  <2>1. N \in 1..N
    BY <1>2, <1>4
  <2>2. Len(s) < Nth(I, N) /\ Nth(I, N) \in 1..Len(s)
    BY <1>2, <1>4, <2>1
  <2> QED
    BY <1>1, <2>2
<1>6. Len(Extract(s, I)) = N
  BY <1>2, <1>3
<1> QED
  BY <1>2, <1>3, <1>4, <1>5, <1>6

LEMMA OutputProperties ==
  ASSUME NEW S, NEW s \in Seq(S), NEW t
  PROVE  /\ OutputOf(s, t) \in Seq(S)
         /\ \A k \in 1..Len(OutputOf(s, t)) : OutputOf(s, t)[k].turn = t
         /\ Len(s) >= 1 /\ s[Len(s)].turn = t /\ s[Len(s)].role # "user" =>
              /\ Len(OutputOf(s, t)) >= 1
              /\ OutputOf(s, t)[Len(OutputOf(s, t))] = s[Len(s)]
<1> DEFINE I == {i \in DOMAIN s : s[i].turn = t /\ s[i].role # "user"}
<1>1. OutputOf(s, t) = Extract(s, I)
  BY DEF OutputOf
<1>2. /\ I \in SUBSET (1..Len(s)) /\ \A i \in I : s[i].turn = t
      /\ Len(s) >= 1 /\ s[Len(s)].turn = t /\ s[Len(s)].role # "user" => Len(s) \in I
  BY LenProperties
<1> HIDE DEF I
<1>3. /\ Extract(s, I) \in Seq(S)
      /\ \A k \in DOMAIN Extract(s, I) : \E i \in I : Extract(s, I)[k] = s[i]
  BY <1>2, ExtractProperties
<1>4. DOMAIN Extract(s, I) = 1..Len(Extract(s, I))
  BY <1>3, LenProperties
<1>5. Len(s) \in I => /\ Len(Extract(s, I)) >= 1
                      /\ Extract(s, I)[Len(Extract(s, I))] = s[Len(s)]
  BY <1>2, ExtractLast
<1> QED
  BY <1>1, <1>2, <1>3, <1>4, <1>5

\* Turn t has no call in s without its result.
OwnAnswered(s, t) ==
  \A i \in 1..Len(s) : s[i].turn = t /\ s[i].role = "calls" => Answered(s, i)

LEMMA AnsweredEnd ==
  ASSUME NEW S, NEW s \in Seq(S), NEW w \in Seq(S), EndOf(w, s), NEW t, OwnAnswered(s, t)
  PROVE  OwnAnswered(w, t)
<1> DEFINE d == Len(s) - Len(w)
<1>1. Len(s) \in Nat /\ Len(w) \in Nat /\ d \in Nat
  BY LenProperties DEF EndOf
<1>2. \A i \in 1..Len(w) : i + d \in 1..Len(s) /\ w[i] = s[i + d]
  BY <1>1 DEF EndOf
<1>3. \A j \in 1..Len(s) : j > d => j - d \in 1..Len(w) /\ (j - d) + d = j
  BY <1>1
<1> HIDE DEF d
<1> SUFFICES ASSUME NEW i \in 1..Len(w), w[i].turn = t, w[i].role = "calls",
                    NEW k \in 1..w[i].n
             PROVE  \E j \in i+1..Len(w) : w[j] = ToolMessage(w[i].turn, w[i].group, k)
  BY DEF OwnAnswered, Answered
<1>4. PICK j \in (i + d)+1..Len(s) : s[j] = ToolMessage(w[i].turn, w[i].group, k)
  <2>1. i + d \in 1..Len(s) /\ w[i] = s[i + d]
    BY <1>2
  <2> QED
    BY <2>1 DEF OwnAnswered, Answered
<1>5. j \in 1..Len(s) /\ j > d /\ j - d \in i+1..Len(w)
  BY <1>1, <1>2, <1>3
<1>6. w[j - d] = s[j]
  BY <1>2, <1>3, <1>5
<1> QED
  BY <1>4, <1>5, <1>6

LEMMA AnsweredConcat ==
  ASSUME NEW S, NEW s \in Seq(S), NEW more \in Seq(S), NEW t,
         OwnAnswered(s, t), OwnAnswered(more, t)
  PROVE  OwnAnswered(s \o more, t)
<1> DEFINE w == s \o more
           m == Len(s)
           n == Len(more)
<1>1. m \in Nat /\ n \in Nat
  BY LenProperties
<1>2. /\ w \in Seq(S) /\ Len(w) = m + n
      /\ \A x \in 1..m + n : w[x] = IF x <= m THEN s[x] ELSE more[x - m]
  BY ConcatProperties
<1> HIDE DEF w
<1> SUFFICES ASSUME NEW i \in 1..Len(w), w[i].turn = t, w[i].role = "calls",
                    NEW k \in 1..w[i].n
             PROVE  \E j \in i+1..Len(w) : w[j] = ToolMessage(w[i].turn, w[i].group, k)
  BY DEF OwnAnswered, Answered, w
<1>3. CASE i <= m
  <2>1. i \in 1..m /\ w[i] = s[i]
    BY <1>1, <1>2, <1>3
  <2>2. PICK j \in i+1..m : s[j] = ToolMessage(w[i].turn, w[i].group, k)
    BY <2>1 DEF OwnAnswered, Answered
  <2>3. j \in i+1..Len(w) /\ w[j] = s[j]
    BY <1>1, <1>2, <2>1
  <2> QED
    BY <2>2, <2>3
<1>4. CASE i > m
  <2>1. i - m \in 1..n /\ w[i] = more[i - m]
    BY <1>1, <1>2, <1>4
  <2>2. PICK j \in (i - m)+1..n : more[j] = ToolMessage(w[i].turn, w[i].group, k)
    BY <2>1 DEF OwnAnswered, Answered
  <2>3. j + m \in i+1..Len(w) /\ w[j + m] = more[j]
    <3>1. j + m \in 1..m + n /\ ~ (j + m <= m) /\ (j + m) - m = j /\ j + m \in i+1..m+n
      BY <1>1, <2>1
    <3> QED
      BY <1>2, <3>1
  <2> QED
    BY <2>2, <2>3
<1> QED
  BY <1>1, <1>2, <1>3, <1>4

LEMMA AnsweredOutput ==
  ASSUME NEW S, NEW s \in Seq(S), NEW t, OwnAnswered(s, t)
  PROVE  OwnAnswered(OutputOf(s, t), t)
<1> DEFINE I == {i \in DOMAIN s : s[i].turn = t /\ s[i].role # "user"}
           N == Cardinality(I)
           o == OutputOf(s, t)
<1>1. Len(s) \in Nat /\ DOMAIN s = 1..Len(s)
  BY LenProperties
<1>2. IsFiniteSet(I) /\ I \subseteq 1..Len(s) /\ I \subseteq Int
  <2>1. IsFiniteSet(1..Len(s)) /\ I \subseteq 1..Len(s)
    BY <1>1, FS_Interval
  <2>2. IsFiniteSet(I)
    BY <2>1, FS_Subset
  <2> QED
    BY <1>1, <2>1, <2>2
<1>3. \A i \in 1..Len(s) : s[i].turn = t /\ s[i].role # "user" <=> i \in I
  BY <1>1
<1>4. o = [k \in 1..N |-> s[Nth(I, k)]]
  BY DEF OutputOf, Extract
<1> HIDE DEF I
<1>5. /\ N \in Nat
      /\ \A k \in 1..N : Nth(I, k) \in I
      /\ \A i \in I : \E k \in 1..N : Nth(I, k) = i
      /\ \A k, l \in 1..N : k < l => Nth(I, k) < Nth(I, l)
  BY <1>2, NthProperties
<1> HIDE DEF N, o
<1>6. Len(o) = N /\ \A k \in 1..N : o[k] = s[Nth(I, k)]
  BY <1>4, <1>5
<1> SUFFICES ASSUME NEW a \in 1..Len(o), o[a].turn = t, o[a].role = "calls",
                    NEW k \in 1..o[a].n
             PROVE  \E b \in a+1..Len(o) : o[b] = ToolMessage(o[a].turn, o[a].group, k)
  BY DEF OwnAnswered, Answered, o
<1> DEFINE i == Nth(I, a)
<1>7. i \in 1..Len(s) /\ o[a] = s[i] /\ a \in 1..N
  BY <1>2, <1>5, <1>6
<1> HIDE DEF i
<1>8. PICK j \in i+1..Len(s) : s[j] = ToolMessage(o[a].turn, o[a].group, k)
  BY <1>7 DEF OwnAnswered, Answered
<1>9. j \in I /\ i < j /\ j \in Int /\ i \in Int
  <2>1. s[j].turn = t /\ s[j].role # "user"
    BY <1>8 DEF ToolMessage
  <2>2. j \in 1..Len(s) /\ i < j /\ j \in Int /\ i \in Int
    BY <1>1, <1>7
  <2> QED
    BY <1>3, <2>1, <2>2
<1>10. PICK b \in 1..N : Nth(I, b) = j
  BY <1>5, <1>9
<1>11. a < b
  <2> SUFFICES ASSUME ~ (a < b) PROVE FALSE
    OBVIOUS
  <2>1. b < a \/ b = a
    BY <1>5, <1>7
  <2>2. CASE b < a
    <3>1. Nth(I, b) < Nth(I, a)
      BY <1>5, <1>7, <2>2
    <3>2. j < i
      BY <1>10, <3>1 DEF i
    <3> QED
      BY <1>9, <3>2
  <2>3. CASE b = a
    <3>1. j = i
      BY <1>10, <2>3 DEF i
    <3> QED
      BY <1>9, <3>1
  <2> QED
    BY <2>1, <2>2, <2>3
<1>12. b \in a+1..Len(o) /\ o[b] = s[j]
  BY <1>5, <1>6, <1>7, <1>10, <1>11
<1> QED
  BY <1>8, <1>12

\* Of turn t the history has at most its user message.
Single(s, t) ==
  /\ \A x \in 1..Len(s) : s[x].turn = t => s[x] = UserMessage(t)
  /\ \A x, y \in 1..Len(s) : s[x].turn = t /\ s[y].turn = t => x = y

\* Such a turn is spliced after its user message, and at the end when it has
\* nothing at all.
LEMMA SplicePlace ==
  ASSUME NEW S, NEW rest \in Seq(S), NEW t,
         Single(rest, t)
  PROVE  /\ SpliceAt(rest, t) \in 0..Len(rest)
         /\ \A x \in 1..Len(rest) : rest[x].turn = t => SpliceAt(rest, t) = x
         /\ (\A x \in 1..Len(rest) : rest[x].turn # t) => SpliceAt(rest, t) = Len(rest)
<1> DEFINE starts == {i \in DOMAIN rest : rest[i] = UserMessage(t)}
           first == CHOOSE i \in starts : \A j \in starts : i <= j
           ends == {i \in first..Len(rest) : \A j \in first..i : rest[j].turn = t}
<1>1. SpliceAt(rest, t) = IF starts = {} THEN Len(rest)
                          ELSE CHOOSE i \in ends : \A j \in ends : j <= i
  BY DEF SpliceAt
<1>2. Len(rest) \in Nat /\ DOMAIN rest = 1..Len(rest) /\ UserMessage(t).turn = t
  BY LenProperties DEF UserMessage
<1>3. CASE \A x \in 1..Len(rest) : rest[x].turn # t
  <2>1. starts = {}
    BY <1>2, <1>3
  <2> QED
    BY <1>1, <1>2, <1>3, <2>1
<1>4. ASSUME NEW x \in 1..Len(rest), rest[x].turn = t
      PROVE  SpliceAt(rest, t) = x
  <2>1. starts = {x}
    BY <1>2, <1>4 DEF Single
  <2>2. first = x
    <3>1. x \in starts /\ \A j \in starts : x <= j
      BY <2>1
    <3> HIDE DEF starts
    <3> QED
      BY <2>1, <3>1
  <2> HIDE DEF first
  <2>3. ends = {x}
    <3>1. x \in x..Len(rest) /\ \A j \in x..x : rest[j].turn = t
      BY <1>4
    <3>2. ASSUME NEW i \in x..Len(rest), \A j \in x..i : rest[j].turn = t
          PROVE  i = x
      <4>1. i \in 1..Len(rest) /\ i \in x..i
        OBVIOUS
      <4> QED
        BY <1>4, <3>2, <4>1 DEF Single
    <3> QED
      BY <2>2, <3>1, <3>2
  <2>4. SpliceAt(rest, t) = CHOOSE i \in ends : \A j \in ends : j <= i
    BY <1>1, <2>1
  <2> HIDE DEF ends
  <2>5. x \in ends /\ \A j \in ends : j <= x
    BY <2>3
  <2> QED
    BY <2>3, <2>4, <2>5
<1> QED
  BY <1>2, <1>3, <1>4

\* w is rest with new inserted after position at.
InsertedAt(w, rest, new, at) ==
  /\ Len(w) = Len(rest) + Len(new)
  /\ \A x \in 1..at : w[x] = rest[x]
  /\ \A x \in 1..Len(new) : w[at + x] = new[x]
  /\ \A x \in at+1..Len(rest) : w[x + Len(new)] = rest[x]

LEMMA SpliceProperties ==
  ASSUME NEW S, NEW rest \in Seq(S), NEW new \in Seq(S), NEW t,
         SpliceAt(rest, t) \in 0..Len(rest)
  PROVE  /\ Splice(rest, t, new) \in Seq(S)
         /\ InsertedAt(Splice(rest, t, new), rest, new, SpliceAt(rest, t))
<1> DEFINE at == SpliceAt(rest, t)
<1> HIDE DEF at
<1> DEFINE a == SubSeq(rest, 1, at)
           b == SubSeq(rest, at + 1, Len(rest))
           s == (a \o new) \o b
<1>1. Splice(rest, t, new) = s
  BY DEF Splice, at
<1>2. Len(rest) \in Nat /\ Len(new) \in Nat /\ at \in Nat /\ at <= Len(rest)
  BY LenProperties DEF at
<1>3. a \in Seq(S) /\ Len(a) = at /\ \A x \in 1..at : a[x] = rest[x]
  <2>1. \A x \in 1..at : rest[x] \in S
    BY <1>2, ElementOfSeq
  <2>2. /\ a \in Seq(S) /\ Len(a) = IF 1 <= at THEN at - 1 + 1 ELSE 0
        /\ \A x \in 1..(at - 1 + 1) : a[x] = rest[1 + x - 1]
    BY <1>2, <2>1, SubSeqProperties
  <2> HIDE DEF a
  <2> QED
    BY <1>2, <2>2
<1>4. /\ b \in Seq(S) /\ Len(b) = Len(rest) - at
      /\ \A x \in 1..(Len(rest) - at) : b[x] = rest[at + x]
  <2>1. \A x \in (at + 1)..Len(rest) : rest[x] \in S
    BY <1>2, ElementOfSeq
  <2>2. at + 1 \in Int /\ Len(rest) \in Int
    BY <1>2
  <2>3. /\ b \in Seq(S) /\ Len(b) = IF at + 1 <= Len(rest) THEN Len(rest) - (at + 1) + 1 ELSE 0
        /\ \A x \in 1..(Len(rest) - (at + 1) + 1) : b[x] = rest[(at + 1) + x - 1]
    BY <2>1, <2>2, SubSeqProperties
  <2> HIDE DEF b
  <2> QED
    BY <1>2, <2>3
<1> HIDE DEF a, b
<1>5. /\ a \o new \in Seq(S) /\ Len(a \o new) = at + Len(new)
      /\ \A x \in 1..at : (a \o new)[x] = rest[x]
      /\ \A x \in 1..Len(new) : (a \o new)[at + x] = new[x]
  <2>1. a \in Seq(S) /\ Len(a) = at
    BY <1>3
  <2>2. /\ a \o new \in Seq(S) /\ Len(a \o new) = Len(a) + Len(new)
        /\ \A x \in 1..Len(a) + Len(new) :
             (a \o new)[x] = IF x <= Len(a) THEN a[x] ELSE new[x - Len(a)]
    BY <2>1, ConcatProperties
  <2>3. ASSUME NEW x \in 1..at PROVE (a \o new)[x] = rest[x]
    <3>1. x \in 1..Len(a) + Len(new) /\ x <= Len(a)
      BY <1>2, <2>1
    <3> QED
      BY <1>3, <2>2, <3>1
  <2>4. ASSUME NEW x \in 1..Len(new) PROVE (a \o new)[at + x] = new[x]
    <3>1. /\ at + x \in 1..Len(a) + Len(new) /\ ~ (at + x <= Len(a))
          /\ (at + x) - Len(a) = x
      BY <1>2, <2>1
    <3> QED
      BY <2>2, <3>1
  <2> QED
    BY <2>1, <2>2, <2>3, <2>4
<1> DEFINE c == a \o new
<1> HIDE DEF c
<1>6. /\ c \o b \in Seq(S) /\ Len(c \o b) = Len(c) + Len(b)
      /\ \A x \in 1..Len(c) + Len(b) : (c \o b)[x] = IF x <= Len(c) THEN c[x] ELSE b[x - Len(c)]
  <2>1. c \in Seq(S) /\ b \in Seq(S)
    BY <1>4, <1>5 DEF c
  <2> QED
    BY <2>1, ConcatProperties
<1>7. s = c \o b
  BY DEF c
<1> HIDE DEF s
<1>8. Len(c) = at + Len(new)
  BY <1>5 DEF c
<1>9. s \in Seq(S) /\ Len(s) = Len(rest) + Len(new)
  <2>1. (at + Len(new)) + (Len(rest) - at) = Len(rest) + Len(new)
    BY <1>2
  <2>2. Len(b) = Len(rest) - at
    BY <1>4
  <2> QED
    BY <1>6, <1>7, <1>8, <2>1, <2>2
<1>10. ASSUME NEW x \in 1..at PROVE s[x] = rest[x]
  <2>1. x \in 1..Len(c) + Len(b) /\ x <= Len(c)
    BY <1>2, <1>4, <1>8
  <2> QED
    BY <1>5, <1>6, <1>7, <2>1 DEF c
<1>11. ASSUME NEW x \in 1..Len(new) PROVE s[at + x] = new[x]
  <2>1. at + x \in 1..Len(c) + Len(b) /\ at + x <= Len(c)
    BY <1>2, <1>4, <1>8
  <2> QED
    BY <1>5, <1>6, <1>7, <2>1 DEF c
<1>12. ASSUME NEW x \in at+1..Len(rest) PROVE s[x + Len(new)] = rest[x]
  <2>1. x + Len(new) \in 1..Len(c) + Len(b) /\ ~ (x + Len(new) <= Len(c))
    BY <1>2, <1>4, <1>8
  <2>2. (x + Len(new)) - Len(c) \in 1..(Len(rest) - at)
        /\ at + ((x + Len(new)) - Len(c)) = x
    BY <1>2, <1>8
  <2> QED
    BY <1>4, <1>6, <1>7, <2>1, <2>2
<1> QED
  BY <1>1, <1>9, <1>10, <1>11, <1>12 DEF InsertedAt, at

\* The first message of another turn leaves the others together.
LEMMA ContiguousAppend ==
  ASSUME NEW S, NEW s \in Seq(S), NEW e \in S, Contiguous(s),
         \A x \in 1..Len(s) : s[x].turn # e.turn
  PROVE  Contiguous(Append(s, e))
<1> DEFINE n == Len(s)
           w == Append(s, e)
<1>1. /\ n \in Nat /\ DOMAIN s = 1..n /\ DOMAIN w = 1..(n + 1)
      /\ \A x \in 1..n : w[x] = s[x]
      /\ w[n + 1] = e
  BY AppendProperties, LenProperties
<1> HIDE DEF n, w
<1> SUFFICES ASSUME NEW i \in 1..(n + 1), NEW j \in 1..(n + 1), i < j, w[i].turn = w[j].turn,
                    NEW k \in i..j
             PROVE  w[k].turn = w[i].turn
  BY <1>1 DEF Contiguous, w
<1>2. i \in 1..n /\ w[i] = s[i]
  BY <1>1
<1>3. j \in 1..n /\ w[j] = s[j]
  <2>1. j # n + 1
    BY <1>1, <1>2 DEF n
  <2> QED
    BY <1>1, <2>1
<1>4. k \in 1..n /\ w[k] = s[k]
  BY <1>1, <1>2, <1>3
<1> QED
  BY <1>1, <1>2, <1>3, <1>4 DEF Contiguous

\* A turn's output put after its user message, or at the end when the history
\* has nothing of the turn, keeps every turn together.
LEMMA ContiguousSplice ==
  ASSUME NEW S, NEW rest \in Seq(S), NEW new \in Seq(S), NEW t,
         Single(rest, t),
         \A x \in 1..Len(new) : new[x].turn = t,
         Contiguous(rest)
  PROVE  Contiguous(Splice(rest, t, new))
<1> DEFINE at == SpliceAt(rest, t)
           w == Splice(rest, t, new)
           n == Len(rest)
           m == Len(new)
<1>1. /\ at \in 0..n
      /\ \A x \in 1..n : rest[x].turn = t => at = x
      /\ (\A x \in 1..n : rest[x].turn # t) => at = n
  BY SplicePlace
<1>2. /\ w \in Seq(S) /\ Len(w) = n + m
      /\ \A x \in 1..at : w[x] = rest[x]
      /\ \A x \in 1..m : w[at + x] = new[x]
      /\ \A x \in at+1..n : w[x + m] = rest[x]
  <2>1. at \in 0..n
    BY <1>1
  <2>2. w \in Seq(S) /\ InsertedAt(w, rest, new, at)
    BY <2>1, SpliceProperties
  <2> HIDE DEF at, w
  <2> QED
    BY <2>2 DEF InsertedAt
<1>3. n \in Nat /\ m \in Nat /\ DOMAIN rest = 1..n /\ DOMAIN w = 1..(n + m)
  BY <1>2, LenProperties
<1>4. \A x \in 1..m : new[x].turn = t
  OBVIOUS
<1> HIDE DEF at, w, n, m
<1>5. \A x \in 1..(n + m) :
        \/ x \in 1..at /\ w[x] = rest[x]
        \/ x \in at+1..at+m /\ w[x].turn = t
        \/ x \in at+m+1..n+m /\ x - m \in at+1..n /\ w[x] = rest[x - m]
  <2> TAKE x \in 1..(n + m)
  <2>1. CASE x <= at
    BY <1>1, <1>2, <1>3, <2>1
  <2>2. CASE x > at /\ x <= at + m
    <3>1. x - at \in 1..m /\ at + (x - at) = x /\ x \in at+1..at+m
      BY <1>1, <1>3, <2>2
    <3>2. w[at + (x - at)] = new[x - at] /\ new[x - at].turn = t
      BY <1>2, <1>4, <3>1
    <3> QED
      BY <3>1, <3>2
  <2>3. CASE x > at + m
    <3>1. x - m \in at+1..n /\ (x - m) + m = x /\ x \in at+m+1..n+m
      BY <1>1, <1>3, <2>3
    <3>2. w[(x - m) + m] = rest[x - m]
      BY <1>2, <3>1
    <3> QED
      BY <3>1, <3>2
  <2> QED
    BY <1>1, <1>3, <2>1, <2>2, <2>3
<1> SUFFICES ASSUME NEW i \in 1..(n + m), NEW j \in 1..(n + m), i < j, w[i].turn = w[j].turn,
                    NEW k \in i..j
             PROVE  w[k].turn = w[i].turn
  BY <1>3 DEF Contiguous, w
<1>6. k \in 1..(n + m)
  BY <1>3
<1>7. \A x, y \in 1..n : x < y /\ rest[x].turn = rest[y].turn =>
        \A z \in x..y : rest[z].turn = rest[x].turn
  BY <1>3 DEF Contiguous
\* Nothing of t stands behind the place, and only its user message at it.
<1>8. /\ \A x \in 1..at : rest[x].turn = t => x = at
      /\ \A x \in at+1..n : rest[x].turn # t
      /\ at \in 1..n /\ at < n => rest[at].turn = t
  <2>1. \A x \in 1..n : rest[x].turn = t => x = at
    BY <1>1
  <2>2. at < n => \E x \in 1..n : rest[x].turn = t
    BY <1>1, <1>3
  <2> QED
    BY <1>1, <1>3, <2>1, <2>2
<1>9. CASE w[i].turn = t
  <2>1. i >= at /\ j <= at + m
    <3>1. i >= at
      <4>1. i \in 1..at => i = at
        BY <1>2, <1>8, <1>9
      <4> QED
        BY <1>1, <1>3, <4>1
    <3>2. ~ (j \in at+m+1..n+m)
      <4> SUFFICES ASSUME j \in at+m+1..n+m PROVE FALSE
        OBVIOUS
      <4>1. ~ (j \in 1..at) /\ ~ (j \in at+1..at+m)
        BY <1>1, <1>3
      <4>2. j - m \in at+1..n /\ w[j] = rest[j - m]
        BY <1>5, <4>1
      <4> QED
        BY <1>8, <1>9, <4>2
    <3> QED
      BY <1>1, <1>3, <3>1, <3>2
  <2>2. k \in at..at+m
    BY <1>1, <1>3, <2>1
  <2>3. CASE k = at
    <3>1. k = i
      BY <2>1, <2>3
    <3> QED
      BY <3>1
  <2>4. CASE k # at
    BY <1>1, <1>3, <1>5, <1>6, <1>9, <2>2, <2>4
  <2> QED
    BY <2>3, <2>4
<1>10. CASE w[i].turn # t
  <2>1. \/ i \in 1..at /\ w[i] = rest[i]
        \/ i \in at+m+1..n+m /\ i - m \in at+1..n /\ w[i] = rest[i - m]
    BY <1>5, <1>10
  <2>2. \/ j \in 1..at /\ w[j] = rest[j]
        \/ j \in at+m+1..n+m /\ j - m \in at+1..n /\ w[j] = rest[j - m]
    BY <1>5, <1>10
  <2>3. CASE j \in 1..at
    <3>1. /\ i \in 1..at /\ k \in 1..at /\ w[i] = rest[i] /\ w[j] = rest[j] /\ w[k] = rest[k]
          /\ i \in 1..n /\ j \in 1..n
      BY <1>1, <1>2, <1>3, <2>3
    <3> QED
      BY <1>7, <3>1
  <2>4. CASE i \in at+m+1..n+m
    <3>1. /\ i - m \in 1..n /\ j - m \in 1..n /\ i - m < j - m /\ k - m \in (i - m)..(j - m)
          /\ w[i] = rest[i - m] /\ w[j] = rest[j - m]
      BY <1>1, <1>3, <2>1, <2>2, <2>4
    <3>2. w[k] = rest[k - m]
      BY <1>1, <1>3, <1>5, <1>6, <2>4
    <3> QED
      BY <1>7, <3>1, <3>2
  <2>5. CASE i \in 1..at /\ j \in at+m+1..n+m
    <3>1. /\ w[i] = rest[i] /\ w[j] = rest[j - m] /\ i \in 1..n /\ j - m \in 1..n
          /\ at \in i..(j - m) /\ i < j - m /\ at < n /\ at \in 1..n
      BY <1>1, <1>2, <1>3, <2>2, <2>5
    <3>2. rest[at].turn = rest[i].turn
      BY <1>7, <3>1
    <3> QED
      BY <1>8, <1>10, <3>1, <3>2
  <2> QED
    BY <1>1, <1>3, <2>1, <2>2, <2>3, <2>4, <2>5
<1> QED
  BY <1>9, <1>10
=============================================================================
