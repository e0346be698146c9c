------------------------- MODULE ConversationProofs -------------------------
(***************************************************************************)
(* Theorems about one conversation: its turns (ChatTurns), for any turns,  *)
(* history limit, tool groups, failures, clears and restarts, and its      *)
(* summaries (Summaries), for every batch size and any number of turns,    *)
(* clears and crashes.                                                     *)
(*                                                                         *)
(* The turns.  A history fits the threads (Fits) when its turns stand      *)
(* together and a running thread has at most its user message in it.  Both *)
(* copies fit, the stored rows listed one after the other and the shared   *)
(* history in memory; beginning a turn appends to both and committing it   *)
(* splices the same messages after the same user message in both, and      *)
(* trimming before a step or after it gives the same (TrimAppend,          *)
(* TrimSplice), so the copy in memory stays the trimmed stored one.        *)
(*                                                                         *)
(* The summaries.  The batch in the worker's hand was chosen beyond the    *)
(* end of every summary and only the worker adds one, so ranges never      *)
(* overlap (Hand).  For the backlog: a completed turn adds one fresh turn  *)
(* and one job to come, and a job that runs through takes Batch turns away *)
(* or finds fewer than that; when the conversation was cleared under the   *)
(* worker, the stored summary takes nothing away, but then fewer turns are *)
(* fresh than jobs are to come (Slack).                                    *)
(***************************************************************************)
EXTENDS ChatTurns, Summaries, HistoryProofs, FunctionTheorems, WellFoundedInduction

-----------------------------------------------------------------------------
(* The messages of the durable turns in a row. *)

\* What is false of some number is false of a least one.
LEMMA Smallest ==
  ASSUME NEW T \in SUBSET Nat, T # {}
  PROVE  \E i \in T : \A j \in T : i <= j
<1>1. \E i \in T : \A j \in T : ~ (<<j, i>> \in OpToRel(<, Nat))
  BY WFMin, NatLessThanWellFounded, Zenon
<1>2. \E i \in T : \A j \in T : ~ (j < i)
  BY <1>1, Zenon DEF OpToRel
<1> QED
  BY <1>2

LEMMA Regroup ==
  ASSUME NEW S
  PROVE  \A s, t, u \in Seq(S) : (s \o t) \o u = s \o (t \o u)
<1> SUFFICES ASSUME NEW s \in Seq(S), NEW t \in Seq(S), NEW u \in Seq(S)
             PROVE  (s \o t) \o u = s \o (t \o u)
  OBVIOUS
<1> DEFINE a == s \o t
           b == t \o u
           c == a \o u
           d == s \o b
<1>1. Len(s) \in Nat /\ Len(t) \in Nat /\ Len(u) \in Nat
  BY LenProperties
<1>2. /\ a \in Seq(S) /\ Len(a) = Len(s) + Len(t)
      /\ \A x \in 1..Len(s) + Len(t) : a[x] = IF x <= Len(s) THEN s[x] ELSE t[x - Len(s)]
  BY ConcatProperties
<1>3. /\ b \in Seq(S) /\ Len(b) = Len(t) + Len(u)
      /\ \A x \in 1..Len(t) + Len(u) : b[x] = IF x <= Len(t) THEN t[x] ELSE u[x - Len(t)]
  BY ConcatProperties
<1> HIDE DEF a, b
<1>4. /\ c \in Seq(S) /\ Len(c) = Len(a) + Len(u)
      /\ \A x \in 1..Len(a) + Len(u) : c[x] = IF x <= Len(a) THEN a[x] ELSE u[x - Len(a)]
  <2>1. a \in Seq(S)
    BY <1>2
  <2> QED
    BY <2>1, ConcatProperties
<1>5. /\ d \in Seq(S) /\ Len(d) = Len(s) + Len(b)
      /\ \A x \in 1..Len(s) + Len(b) : d[x] = IF x <= Len(s) THEN s[x] ELSE b[x - Len(s)]
  <2>1. b \in Seq(S)
    BY <1>3
  <2> QED
    BY <2>1, ConcatProperties
<1> HIDE DEF c, d
<1>6. Len(c) = Len(s) + Len(t) + Len(u) /\ Len(d) = Len(c)
  BY <1>1, <1>2, <1>3, <1>4, <1>5
<1>7. ASSUME NEW x \in 1..Len(c) PROVE c[x] = d[x]
  <2>1. CASE x <= Len(s)
    <3>1. /\ x \in 1..Len(a) + Len(u) /\ x <= Len(a) /\ x \in 1..Len(s) + Len(t)
          /\ x \in 1..Len(s) + Len(b)
      BY <1>1, <1>2, <1>3, <1>6, <2>1
    <3>2. c[x] = s[x]
      BY <1>2, <1>4, <2>1, <3>1
    <3>3. d[x] = s[x]
      BY <1>5, <2>1, <3>1
    <3> QED
      BY <3>2, <3>3
  <2>2. CASE x > Len(s) /\ x <= Len(s) + Len(t)
    <3>1. /\ x - Len(s) \in 1..Len(t) + Len(u) /\ x - Len(s) <= Len(t)
          /\ x \in 1..Len(a) + Len(u) /\ x <= Len(a) /\ x \in 1..Len(s) + Len(t)
          /\ x \in 1..Len(s) + Len(b) /\ ~ (x <= Len(s))
      BY <1>1, <1>2, <1>3, <1>6, <2>2
    <3>2. c[x] = t[x - Len(s)]
      BY <1>2, <1>4, <3>1
    <3>3. d[x] = t[x - Len(s)]
      BY <1>3, <1>5, <3>1
    <3> QED
      BY <3>2, <3>3
  <2>3. CASE x > Len(s) + Len(t)
    <3>1. /\ x - Len(s) \in 1..Len(t) + Len(u) /\ ~ (x - Len(s) <= Len(t))
          /\ x \in 1..Len(a) + Len(u) /\ ~ (x <= Len(a))
          /\ x \in 1..Len(s) + Len(b) /\ ~ (x <= Len(s))
          /\ x - Len(a) = (x - Len(s)) - Len(t)
      BY <1>1, <1>2, <1>3, <1>6, <2>3
    <3>2. c[x] = u[x - Len(a)]
      BY <1>4, <3>1
    <3>3. d[x] = u[(x - Len(s)) - Len(t)]
      BY <1>3, <1>5, <3>1
    <3> QED
      BY <3>1, <3>2, <3>3
  <2> QED
    BY <1>1, <1>6, <2>1, <2>2, <2>3
<1> QED
  BY <1>4, <1>5, <1>6, <1>7, SeqEqual DEF c, d, a, b

IsListing(all, rows) ==
  all = [i \in 0..Len(rows) |-> IF i = 0 THEN <<>> ELSE all[i-1] \o rows[i].msgs]

LEMMA ListingExists ==
  ASSUME NEW R, NEW rows \in Seq(R)
  PROVE  \E all : IsListing(all, rows)
<1> DEFINE Sofar(f, n) == f = [i \in 0..n |-> IF i = 0 THEN <<>> ELSE f[i-1] \o rows[i].msgs]
           T == {n \in 0..Len(rows) : ~ \E f : Sofar(f, n)}
<1>1. Len(rows) \in Nat
  BY LenProperties
<1>2. T = {}
  <2> SUFFICES ASSUME T # {} PROVE FALSE
    OBVIOUS
  <2>1. PICK n \in T : \A j \in T : n <= j
    <3> HIDE DEF Sofar
    <3>1. T \in SUBSET Nat
      BY <1>1
    <3> HIDE DEF T
    <3> QED
      BY <3>1, Smallest
  <2>2. n \in 0..Len(rows) /\ ~ \E f : Sofar(f, n)
    OBVIOUS
  <2>3. n # 0
    <3> DEFINE f == [i \in 0..0 |-> <<>>]
    <3>1. f = [i \in 0..0 |-> IF i = 0 THEN <<>> ELSE f[i-1] \o rows[i].msgs]
      OBVIOUS
    <3> HIDE DEF f
    <3>2. Sofar(f, 0)
      BY <3>1
    <3> QED
      BY <2>2, <3>2
  <2>4. PICK f : Sofar(f, n - 1)
    <3>1. n - 1 \in 0..Len(rows) /\ ~ (n <= n - 1)
      BY <1>1, <2>2, <2>3
    <3> QED
      BY <2>1, <3>1
  <2> DEFINE g == [i \in 0..n |-> IF i = n THEN f[n-1] \o rows[n].msgs ELSE f[i]]
  <2>5. ASSUME NEW i \in 0..n
        PROVE  g[i] = IF i = 0 THEN <<>> ELSE g[i-1] \o rows[i].msgs
    <3>1. CASE i = n
      <4>1. n - 1 \in 0..n /\ n - 1 # n
        BY <2>2, <2>3
      <4> QED
        BY <2>3, <3>1, <4>1
    <3>2. CASE i # n
      <4>1. i \in 0..n-1 /\ (i # 0 => i - 1 \in 0..n /\ i - 1 # n)
        BY <1>1, <2>2, <3>2
      <4>2. f[i] = IF i = 0 THEN <<>> ELSE f[i-1] \o rows[i].msgs
        BY <2>4, <4>1
      <4> QED
        BY <3>2, <4>1, <4>2
    <3> QED
      BY <3>1, <3>2
  <2>6. DOMAIN g = 0..n /\ g = [i \in 0..n |-> g[i]]
    OBVIOUS
  <2> HIDE DEF g
  <2>7. Sofar(g, n)
    BY <2>5, <2>6
  <2> QED
    BY <2>2, <2>7
<1> HIDE DEF Sofar
<1>3. PICK f : Sofar(f, Len(rows))
  BY <1>1, <1>2
<1>4. IsListing(f, rows)
  BY <1>3 DEF IsListing, Sofar
<1> QED
  BY <1>4

LEMMA ListedIs ==
  ASSUME NEW R, NEW rows \in Seq(R)
  PROVE  \E all : IsListing(all, rows) /\ Listed(rows) = all[Len(rows)]
<1> DEFINE chosen == CHOOSE all : IsListing(all, rows)
<1>1. IsListing(chosen, rows)
  BY ListingExists
<1>2. Listed(rows) = chosen[Len(rows)]
  BY DEF Listed, IsListing
<1> QED
  BY <1>1, <1>2

LEMMA ListingStep ==
  ASSUME NEW R, NEW rows \in Seq(R), NEW all, IsListing(all, rows)
  PROVE  /\ all[0] = <<>>
         /\ \A i \in 1..Len(rows) : all[i] = all[i-1] \o rows[i].msgs
<1>1. Len(rows) \in Nat
  BY LenProperties
<1> DEFINE g == [i \in 0..Len(rows) |-> IF i = 0 THEN <<>> ELSE all[i-1] \o rows[i].msgs]
<1>2. all = g
  BY DEF IsListing
<1>3. /\ g[0] = <<>>
      /\ \A i \in 1..Len(rows) : g[i] = all[i-1] \o rows[i].msgs
  <2>1. 0 \in 0..Len(rows) /\ \A i \in 1..Len(rows) : i \in 0..Len(rows) /\ i # 0
    BY <1>1
  <2>2. \A i \in 0..Len(rows) : g[i] = IF i = 0 THEN <<>> ELSE all[i-1] \o rows[i].msgs
    OBVIOUS
  <2> HIDE DEF g
  <2> QED
    BY <2>1, <2>2
<1> HIDE DEF g
<1> QED
  BY <1>2, <1>3

LEMMA ListingType ==
  ASSUME NEW R, NEW rows \in Seq(R), NEW S,
         \A i \in 1..Len(rows) : rows[i].msgs \in Seq(S),
         NEW all, IsListing(all, rows)
  PROVE  \A i \in 0..Len(rows) : all[i] \in Seq(S)
<1> DEFINE T == {i \in 0..Len(rows) : all[i] \notin Seq(S)}
<1>1. Len(rows) \in Nat
  BY LenProperties
<1>2. /\ all[0] = <<>>
      /\ \A i \in 1..Len(rows) : all[i] = all[i-1] \o rows[i].msgs
  BY ListingStep
<1> SUFFICES ASSUME T # {} PROVE FALSE
  OBVIOUS
<1>3. PICK n \in T : \A j \in T : n <= j
  <2>1. T \in SUBSET Nat
    BY <1>1
  <2> HIDE DEF T
  <2> QED
    BY <2>1, Smallest
<1>4. n \in 0..Len(rows) /\ all[n] \notin Seq(S)
  OBVIOUS
<1>5. n # 0
  BY <1>2, <1>4, EmptySeq
<1>6. n \in 1..Len(rows) /\ n - 1 \in 0..Len(rows) /\ ~ (n <= n - 1)
  BY <1>1, <1>4, <1>5
<1> DEFINE a == all[n-1]
           b == rows[n].msgs
<1>7. a \in Seq(S) /\ b \in Seq(S) /\ all[n] = a \o b
  BY <1>2, <1>3, <1>6
<1> HIDE DEF a, b
<1>8. a \o b \in Seq(S)
  BY <1>7, ConcatProperties
<1> QED
  BY <1>4, <1>7, <1>8

LEMMA ListedType ==
  ASSUME NEW R, NEW rows \in Seq(R), NEW S,
         \A i \in 1..Len(rows) : rows[i].msgs \in Seq(S)
  PROVE  Listed(rows) \in Seq(S)
<1>1. PICK all : IsListing(all, rows) /\ Listed(rows) = all[Len(rows)]
  BY ListedIs
<1>2. Len(rows) \in 0..Len(rows)
  BY LenProperties
<1> QED
  BY <1>1, <1>2, ListingType

\* Listings of rows that agree up to k agree up to k.
LEMMA ListingsAgree ==
  ASSUME NEW R, NEW rows \in Seq(R), NEW others \in Seq(R),
         NEW k \in Nat, k <= Len(rows), k <= Len(others),
         \A i \in 1..k : others[i].msgs = rows[i].msgs,
         NEW all, IsListing(all, rows), NEW all2, IsListing(all2, others)
  PROVE  \A i \in 0..k : all2[i] = all[i]
<1> DEFINE T == {i \in 0..k : all2[i] # all[i]}
<1>1. Len(rows) \in Nat /\ Len(others) \in Nat
  BY LenProperties
<1>2. /\ all[0] = <<>>
      /\ \A i \in 1..Len(rows) : all[i] = all[i-1] \o rows[i].msgs
  BY ListingStep
<1>3. /\ all2[0] = <<>>
      /\ \A i \in 1..Len(others) : all2[i] = all2[i-1] \o others[i].msgs
  BY ListingStep
<1> SUFFICES ASSUME T # {} PROVE FALSE
  OBVIOUS
<1>4. PICK n \in T : \A j \in T : n <= j
  <2>1. T \in SUBSET Nat
    OBVIOUS
  <2> HIDE DEF T
  <2> QED
    BY <2>1, Smallest
<1>5. n \in 0..k /\ all2[n] # all[n] /\ n # 0
  BY <1>2, <1>3
<1>6. n \in 1..Len(rows) /\ n \in 1..Len(others) /\ n \in 1..k /\ n - 1 \in 0..k /\ ~ (n <= n - 1)
  BY <1>1, <1>5
<1>7. all2[n-1] = all[n-1]
  BY <1>4, <1>6
<1> QED
  BY <1>2, <1>3, <1>5, <1>6, <1>7

\* Beyond a row, listings of rows that agree there grow alike.
GrowAlike(f, g, k, n, S) == \E b \in Seq(S) : f[n] = f[k] \o b /\ g[n] = g[k] \o b

LEMMA ListingsGrow ==
  ASSUME NEW R, NEW rows \in Seq(R), NEW others \in Seq(R), NEW S,
         \A i \in 1..Len(rows) : rows[i].msgs \in Seq(S),
         \A i \in 1..Len(others) : others[i].msgs \in Seq(S),
         Len(others) = Len(rows), NEW k \in 1..Len(rows),
         \A i \in k+1..Len(rows) : others[i].msgs = rows[i].msgs,
         NEW all, IsListing(all, rows), NEW all2, IsListing(all2, others)
  PROVE  GrowAlike(all, all2, k, Len(rows), S)
<1>0. \A s, t, u \in Seq(S) : (s \o t) \o u = s \o (t \o u)
  BY ONLY Regroup
<1> DEFINE P(n, b) == all[n] = all[k] \o b /\ all2[n] = all2[k] \o b
           T == {n \in k..Len(rows) : ~ \E b \in Seq(S) : P(n, b)}
<1>1. Len(rows) \in Nat
  BY LenProperties
<1>2. \A i \in 1..Len(rows) : /\ all[i] = all[i-1] \o rows[i].msgs
                              /\ all2[i] = all2[i-1] \o others[i].msgs
  BY ListingStep
<1>3. \A i \in 0..Len(rows) : all[i] \in Seq(S) /\ all2[i] \in Seq(S)
  BY ListingType
<1> SUFFICES ASSUME T # {} PROVE FALSE
  <2>1. Len(rows) \in k..Len(rows)
    BY <1>1
  <2> QED
    BY <2>1 DEF GrowAlike
<1>4. PICK n \in T : \A j \in T : n <= j
  <2>1. T \in SUBSET Nat
    BY <1>1
  <2> HIDE DEF T
  <2> QED
    BY <2>1, Smallest
<1>5. n \in k..Len(rows) /\ ~ \E b \in Seq(S) : P(n, b)
  OBVIOUS
<1>6. n # k
  <2>1. all[k] \o <<>> = all[k] /\ all2[k] \o <<>> = all2[k]
    BY <1>3, ConcatEmptySeq
  <2>2. <<>> \in Seq(S)
    BY EmptySeq
  <2>3. P(k, <<>>)
    BY <2>1, <2>2
  <2> QED
    BY <1>5, <2>2, <2>3
<1>7. n - 1 \in k..Len(rows) /\ ~ (n <= n - 1) /\ n \in k+1..Len(rows) /\ n \in 1..Len(rows)
  BY <1>1, <1>5, <1>6
<1>8. PICK b \in Seq(S) : P(n - 1, b)
  BY <1>4, <1>7
<1> DEFINE m == rows[n].msgs
<1>9. m \in Seq(S) /\ others[n].msgs = m
  BY <1>7
<1>10. all[k] \in Seq(S) /\ all2[k] \in Seq(S)
  BY <1>1, <1>3
<1>11. /\ (all[k] \o b) \o m = all[k] \o (b \o m)
       /\ (all2[k] \o b) \o m = all2[k] \o (b \o m)
  <2>1. all[k] \in Seq(S) /\ m \in Seq(S)
    BY <1>9, <1>10
  <2>2. all2[k] \in Seq(S)
    BY <1>10
  <2> DEFINE l == all[k]
             l2 == all2[k]
  <2> HIDE DEF m, l, l2
  <2>3. l \in Seq(S) /\ l2 \in Seq(S) /\ b \in Seq(S) /\ m \in Seq(S)
    BY <2>1, <2>2 DEF l, l2
  <2>4. (l \o b) \o m = l \o (b \o m)
    BY ONLY <2>3, <1>0
  <2>5. (l2 \o b) \o m = l2 \o (b \o m)
    BY ONLY <2>3, <1>0
  <2> QED
    BY <2>4, <2>5 DEF l, l2
<1>12. all[n] = all[k] \o (b \o m) /\ all2[n] = all2[k] \o (b \o m)
  BY <1>2, <1>7, <1>8, <1>9, <1>11
<1>13. b \o m \in Seq(S)
  BY <1>9, ConcatProperties
<1> QED
  BY <1>5, <1>12, <1>13

LEMMA ListedAppend ==
  ASSUME NEW R, NEW rows \in Seq(R), NEW r \in R
  PROVE  Listed(Append(rows, r)) = Listed(rows) \o r.msgs
<1> DEFINE others == Append(rows, r)
           k == Len(rows)
<1>1. /\ others \in Seq(R) /\ Len(others) = k + 1 /\ k \in Nat
      /\ \A i \in 1..k : others[i] = rows[i]
      /\ others[k + 1] = r
  BY AppendProperties, LenProperties
<1>2. PICK all : IsListing(all, rows) /\ Listed(rows) = all[k]
  BY ListedIs
<1> HIDE DEF others
<1>3. PICK all2 : IsListing(all2, others) /\ Listed(others) = all2[k + 1]
  BY <1>1, ListedIs
<1>4. all2[k + 1] = all2[k] \o r.msgs
  <2>1. k + 1 \in 1..Len(others) /\ (k + 1) - 1 = k
    BY <1>1
  <2>2. \A i \in 1..Len(others) : all2[i] = all2[i-1] \o others[i].msgs
    BY <1>1, <1>3, ListingStep
  <2> QED
    BY <1>1, <2>1, <2>2
<1>5. all2[k] = all[k]
  <2>1. k <= Len(rows) /\ k <= Len(others) /\ \A i \in 1..k : others[i].msgs = rows[i].msgs
    BY <1>1
  <2>2. \A i \in 0..k : all2[i] = all[i]
    BY <1>1, <1>2, <1>3, <2>1, ListingsAgree
  <2> QED
    BY <1>1, <2>2
<1> QED
  BY <1>2, <1>3, <1>4, <1>5 DEF others

\* What is stored is the messages of a row between those of the others.
DifferAt(rows, others, k, S) ==
  \E a, b \in Seq(S) : /\ Listed(rows) = (a \o rows[k].msgs) \o b
                       /\ Listed(others) = (a \o others[k].msgs) \o b

LEMMA ListedAround ==
  ASSUME NEW R, NEW rows \in Seq(R), NEW others \in Seq(R), NEW S,
         \A i \in 1..Len(rows) : rows[i].msgs \in Seq(S),
         \A i \in 1..Len(others) : others[i].msgs \in Seq(S),
         Len(others) = Len(rows), NEW k \in 1..Len(rows),
         \A i \in 1..Len(rows) : i # k => others[i].msgs = rows[i].msgs
  PROVE  DifferAt(rows, others, k, S)
<1>1. Len(rows) \in Nat
  BY LenProperties
<1>2. PICK all : IsListing(all, rows) /\ Listed(rows) = all[Len(rows)]
  BY ListedIs
<1>3. PICK all2 : IsListing(all2, others) /\ Listed(others) = all2[Len(rows)]
  BY ListedIs
<1>4. /\ all[k] = all[k-1] \o rows[k].msgs
      /\ all2[k] = all2[k-1] \o others[k].msgs
  <2>1. \A i \in 1..Len(rows) : all[i] = all[i-1] \o rows[i].msgs
    BY <1>2, ListingStep
  <2>2. \A i \in 1..Len(others) : all2[i] = all2[i-1] \o others[i].msgs
    BY <1>3, ListingStep
  <2> QED
    BY <2>1, <2>2
<1>5. all2[k-1] = all[k-1]
  <2>1. /\ k - 1 \in Nat /\ k - 1 <= Len(rows) /\ k - 1 <= Len(others) /\ k - 1 \in 0..k-1
        /\ \A i \in 1..k-1 : i \in 1..Len(rows) /\ i # k
    BY <1>1
  <2>2. \A i \in 1..k-1 : others[i].msgs = rows[i].msgs
    BY <2>1
  <2>3. \A i \in 0..k-1 : all2[i] = all[i]
    BY <1>2, <1>3, <2>1, <2>2, ListingsAgree
  <2> QED
    BY <2>1, <2>3
<1>6. PICK b \in Seq(S) : /\ all[Len(rows)] = all[k] \o b
                          /\ all2[Len(rows)] = all2[k] \o b
  <2>1. \A i \in k+1..Len(rows) : i \in 1..Len(rows) /\ i # k
    BY <1>1
  <2>2. \A i \in k+1..Len(rows) : others[i].msgs = rows[i].msgs
    BY <2>1
  <2>3. IsListing(all, rows) /\ IsListing(all2, others)
    BY <1>2, <1>3
  <2>4. GrowAlike(all, all2, k, Len(rows), S)
    BY <2>2, <2>3, ListingsGrow
  <2> QED
    BY <2>4 DEF GrowAlike
<1>7. all[k-1] \in Seq(S)
  <2>1. k - 1 \in 0..Len(rows)
    BY <1>1
  <2> QED
    BY <1>2, <2>1, ListingType
<1> QED
  BY <1>2, <1>3, <1>4, <1>5, <1>6, <1>7 DEF DifferAt

-----------------------------------------------------------------------------
(* Ends of histories that grow. *)

LEMMA EndAppend ==
  ASSUME NEW S, NEW s \in Seq(S), NEW w \in Seq(S), EndOf(w, s), NEW e \in S
  PROVE  EndOf(Append(w, e), Append(s, e))
<1> DEFINE a == Append(w, e)
           b == Append(s, e)
<1>1. /\ Len(a) = Len(w) + 1 /\ a[Len(w) + 1] = e
      /\ \A i \in 1..Len(w) : a[i] = w[i]
  BY AppendProperties
<1>2. /\ Len(b) = Len(s) + 1 /\ b[Len(s) + 1] = e
      /\ \A i \in 1..Len(s) : b[i] = s[i]
  BY AppendProperties
<1>3. Len(s) \in Nat /\ Len(w) \in Nat
  BY LenProperties
<1>4. /\ Len(w) <= Len(s)
      /\ \A i \in 1..Len(w) : w[i] = s[i + (Len(s) - Len(w))]
  BY DEF EndOf
<1> HIDE DEF a, b
<1>5. ASSUME NEW i \in 1..Len(a) PROVE a[i] = b[i + (Len(b) - Len(a))]
  <2>1. Len(b) - Len(a) = Len(s) - Len(w)
    BY <1>1, <1>2, <1>3
  <2>2. CASE i = Len(w) + 1
    <3>1. i + (Len(s) - Len(w)) = Len(s) + 1
      BY <1>3, <2>2
    <3> QED
      BY <1>1, <1>2, <2>1, <2>2, <3>1
  <2>3. CASE i # Len(w) + 1
    <3>1. i \in 1..Len(w) /\ i + (Len(s) - Len(w)) \in 1..Len(s)
      BY <1>1, <1>3, <1>4, <2>3
    <3> QED
      BY <1>1, <1>2, <1>4, <2>1, <3>1
  <2> QED
    BY <2>2, <2>3
<1>6. Len(a) <= Len(b)
  BY <1>1, <1>2, <1>3, <1>4
<1> QED
  BY <1>5, <1>6 DEF EndOf, a, b

\* Where a message of t is, or where nothing is added, splicing goes alike in
\* a history and in an end of it.
LEMMA EndSplice ==
  ASSUME NEW S, NEW s \in Seq(S), NEW w \in Seq(S), EndOf(w, s), NEW t,
         Single(s, t), NEW new \in Seq(S), NEW p \in 1..Len(w), w[p].turn = t
  PROVE  EndOf(Splice(w, t, new), Splice(s, t, new))
<1> DEFINE d == Len(s) - Len(w)
           k == Len(new)
           a == Splice(w, t, new)
           b == Splice(s, t, new)
<1>1. Len(s) \in Nat /\ Len(w) \in Nat /\ d \in Nat /\ k \in Nat
  BY LenProperties DEF EndOf
<1>2. \A i \in 1..Len(w) : i + d \in 1..Len(s) /\ w[i] = s[i + d]
  BY <1>1 DEF EndOf
<1>3. Single(w, t)
  <2> HIDE DEF d
  <2>1. ASSUME NEW x \in 1..Len(w), w[x].turn = t PROVE w[x] = UserMessage(t)
    BY <1>2, <2>1 DEF Single
  <2>2. ASSUME NEW x \in 1..Len(w), NEW y \in 1..Len(w), w[x].turn = t, w[y].turn = t
        PROVE  x = y
    <3>1. /\ x + d \in 1..Len(s) /\ s[x + d].turn = t
          /\ y + d \in 1..Len(s) /\ s[y + d].turn = t
      BY <1>2, <2>2
    <3>2. x + d = y + d
      BY <3>1 DEF Single
    <3> QED
      BY <1>1, <3>2
  <2> QED
    BY <2>1, <2>2 DEF Single
<1>4. SpliceAt(w, t) = p
  BY <1>3, SplicePlace
<1>5. SpliceAt(s, t) = p + d
  <2>1. p + d \in 1..Len(s) /\ s[p + d].turn = t
    BY <1>2
  <2> HIDE DEF d
  <2> QED
    BY <2>1, SplicePlace
<1> HIDE DEF d
<1>6. /\ Len(a) = Len(w) + k
      /\ \A x \in 1..p : a[x] = w[x]
      /\ \A x \in 1..k : a[p + x] = new[x]
      /\ \A x \in p+1..Len(w) : a[x + k] = w[x]
  <2>1. SpliceAt(w, t) \in 0..Len(w)
    BY <1>1, <1>4
  <2>2. InsertedAt(a, w, new, SpliceAt(w, t))
    BY <2>1, SpliceProperties
  <2> HIDE DEF a
  <2> QED
    BY <1>4, <2>2 DEF InsertedAt
<1>7. /\ Len(b) = Len(s) + k
      /\ \A x \in 1..p + d : b[x] = s[x]
      /\ \A x \in 1..k : b[(p + d) + x] = new[x]
      /\ \A x \in (p + d)+1..Len(s) : b[x + k] = s[x]
  <2>1. SpliceAt(s, t) \in 0..Len(s)
    BY <1>1, <1>2, <1>5
  <2>2. InsertedAt(b, s, new, SpliceAt(s, t))
    BY <2>1, SpliceProperties
  <2> HIDE DEF b
  <2> QED
    BY <1>5, <2>2 DEF InsertedAt
<1> HIDE DEF a, b, k
<1>8. ASSUME NEW i \in 1..Len(a) PROVE a[i] = b[i + (Len(b) - Len(a))]
  <2>1. Len(b) - Len(a) = d
    BY <1>1, <1>6, <1>7 DEF d
  <2>2. CASE i <= p
    <3>1. i \in 1..p /\ i \in 1..Len(w) /\ i + d \in 1..p + d
      BY <1>1, <2>2
    <3> QED
      BY <1>2, <1>6, <1>7, <2>1, <3>1
  <2>3. CASE i > p /\ i <= p + k
    <3> DEFINE x == i - p
    <3>1. x \in 1..k /\ i = p + x /\ i + d = (p + d) + x
      BY <1>1, <2>3
    <3> HIDE DEF x
    <3>2. a[p + x] = new[x] /\ b[(p + d) + x] = new[x]
      BY <1>6, <1>7, <3>1
    <3> QED
      BY <2>1, <3>1, <3>2
  <2>4. CASE i > p + k
    <3> DEFINE x == i - k
    <3>1. /\ x \in p+1..Len(w) /\ x \in 1..Len(w) /\ i = x + k
          /\ x + d \in (p + d)+1..Len(s) /\ i + d = (x + d) + k
      BY <1>1, <1>6, <2>4 DEF d
    <3> HIDE DEF x
    <3>2. a[x + k] = w[x] /\ b[(x + d) + k] = s[x + d] /\ w[x] = s[x + d]
      BY <1>2, <1>6, <1>7, <3>1
    <3> QED
      BY <2>1, <3>1, <3>2
  <2> QED
    BY <1>1, <1>6, <2>2, <2>3, <2>4
<1>9. Len(a) <= Len(b)
  BY <1>1, <1>6, <1>7 DEF d
<1> QED
  BY <1>8, <1>9 DEF EndOf, a, b

\* Splicing nothing in changes nothing.
LEMMA SpliceNothing ==
  ASSUME NEW S, NEW s \in Seq(S), NEW t, Single(s, t)
  PROVE  Splice(s, t, <<>>) = s
<1> DEFINE at == SpliceAt(s, t)
           w == Splice(s, t, <<>>)
<1>1. at \in 0..Len(s) /\ <<>> \in Seq(S) /\ Len(s) \in Nat /\ Len(<<>>) = 0
  BY SplicePlace, EmptySeq, LenProperties
<1>2. /\ w \in Seq(S) /\ Len(w) = Len(s)
      /\ \A x \in 1..at : w[x] = s[x]
      /\ \A x \in at+1..Len(s) : w[x + 0] = s[x]
  <2>1. w \in Seq(S) /\ InsertedAt(w, s, <<>>, at)
    BY <1>1, SpliceProperties
  <2> HIDE DEF w, at
  <2> QED
    BY <1>1, <2>1 DEF InsertedAt
<1> HIDE DEF w, at
<1>3. \A x \in 1..Len(w) : w[x] = s[x]
  <2> SUFFICES ASSUME NEW x \in 1..Len(w) PROVE w[x] = s[x]
    OBVIOUS
  <2>1. x \in 1..at \/ x \in at+1..Len(s)
    BY <1>1, <1>2
  <2>2. x + 0 = x
    BY <1>1, <1>2
  <2> QED
    BY <1>2, <2>1, <2>2
<1> QED
  BY <1>2, <1>3, SeqEqual DEF w

-----------------------------------------------------------------------------
(* Storing the output of a turn in its row. *)

\* w is a, then m, then b.
Between(w, a, m, b) ==
  /\ Len(w) = Len(a) + Len(m) + Len(b)
  /\ \A x \in 1..Len(a) : w[x] = a[x]
  /\ \A x \in 1..Len(m) : w[Len(a) + x] = m[x]
  /\ \A x \in 1..Len(b) : w[(Len(a) + Len(m)) + x] = b[x]

LEMMA Middle ==
  ASSUME NEW S, NEW a \in Seq(S), NEW m \in Seq(S), NEW b \in Seq(S)
  PROVE  (a \o m) \o b \in Seq(S) /\ Between((a \o m) \o b, a, m, b)
<1> DEFINE c == a \o m
           w == c \o b
<1>1. /\ c \in Seq(S) /\ Len(c) = Len(a) + Len(m)
      /\ \A x \in 1..Len(a) + Len(m) : c[x] = IF x <= Len(a) THEN a[x] ELSE m[x - Len(a)]
  BY ConcatProperties
<1>2. Len(a) \in Nat /\ Len(m) \in Nat /\ Len(b) \in Nat
  BY LenProperties
<1> HIDE DEF c
<1>3. /\ w \in Seq(S) /\ Len(w) = Len(c) + Len(b)
      /\ \A x \in 1..Len(c) + Len(b) : w[x] = IF x <= Len(c) THEN c[x] ELSE b[x - Len(c)]
  <2>1. c \in Seq(S)
    BY <1>1
  <2> QED
    BY <2>1, ConcatProperties
<1> HIDE DEF w
<1>4. ASSUME NEW x \in 1..Len(a) PROVE w[x] = a[x]
  <2>1. x \in 1..Len(c) + Len(b) /\ x <= Len(c) /\ x \in 1..Len(a) + Len(m) /\ x <= Len(a)
    BY <1>1, <1>2
  <2> QED
    BY <1>1, <1>3, <2>1
<1>5. ASSUME NEW x \in 1..Len(m) PROVE w[Len(a) + x] = m[x]
  <2> DEFINE y == Len(a) + x
  <2>1. /\ y \in 1..Len(c) + Len(b) /\ y <= Len(c) /\ y \in 1..Len(a) + Len(m)
        /\ ~ (y <= Len(a)) /\ y - Len(a) = x
    BY <1>1, <1>2
  <2> HIDE DEF y
  <2>2. w[y] = c[y] /\ c[y] = m[x]
    BY <1>1, <1>3, <2>1
  <2> QED
    BY <2>2 DEF y
<1>6. ASSUME NEW x \in 1..Len(b) PROVE w[(Len(a) + Len(m)) + x] = b[x]
  <2> DEFINE y == (Len(a) + Len(m)) + x
  <2>1. y \in 1..Len(c) + Len(b) /\ ~ (y <= Len(c)) /\ y - Len(c) = x
    BY <1>1, <1>2
  <2> HIDE DEF y
  <2>2. w[y] = b[x]
    BY <1>3, <2>1
  <2> QED
    BY <2>2 DEF y
<1>7. w \in Seq(S) /\ Between(w, a, m, b)
  BY <1>1, <1>2, <1>3, <1>4, <1>5, <1>6 DEF Between
<1> QED
  BY <1>7 DEF w, c

\* What is added to the row of a turn appears in the history where splicing
\* puts it.
LEMMA SpliceBetween ==
  ASSUME NEW S, NEW a \in Seq(S), NEW b \in Seq(S), NEW new \in Seq(S), NEW t,
         UserMessage(t) \in S,
         Single((a \o <<UserMessage(t)>>) \o b, t)
  PROVE  Splice((a \o <<UserMessage(t)>>) \o b, t, new)
           = (a \o (<<UserMessage(t)>> \o new)) \o b
<1> DEFINE u == <<UserMessage(t)>>
           m == u \o new
           s == (a \o u) \o b
           w == (a \o m) \o b
           v == Splice(s, t, new)
<1>1. u \in Seq(S) /\ Len(u) = 1 /\ u[1] = UserMessage(t) /\ UserMessage(t).turn = t
  BY DEF UserMessage
<1> HIDE DEF u
<1>2. /\ m \in Seq(S) /\ Len(m) = 1 + Len(new)
      /\ \A x \in 1..1 + Len(new) : m[x] = IF x <= 1 THEN u[x] ELSE new[x - 1]
  <2>1. u \in Seq(S)
    BY <1>1
  <2>2. /\ m \in Seq(S) /\ Len(m) = Len(u) + Len(new)
        /\ \A x \in 1..Len(u) + Len(new) : m[x] = IF x <= Len(u) THEN u[x] ELSE new[x - Len(u)]
    BY <2>1, ConcatProperties
  <2> HIDE DEF m
  <2> QED
    BY <1>1, <2>2
<1> HIDE DEF m
<1>3. s \in Seq(S) /\ Between(s, a, u, b)
  <2>1. u \in Seq(S)
    BY <1>1
  <2> QED
    BY <2>1, Middle
<1>4. w \in Seq(S) /\ Between(w, a, m, b)
  <2>1. m \in Seq(S)
    BY <1>2
  <2> QED
    BY <2>1, Middle
<1> DEFINE p == Len(a) + 1
<1>5. Len(a) \in Nat /\ Len(b) \in Nat /\ Len(new) \in Nat
  BY LenProperties
<1>6. Single(s, t)
  BY DEF u
<1> HIDE DEF s, w
<1>7. /\ Len(s) = Len(a) + 1 + Len(b)
      /\ \A x \in 1..Len(a) : s[x] = a[x]
      /\ s[p] = UserMessage(t)
      /\ \A x \in 1..Len(b) : s[p + x] = b[x]
  <2>1. 1 \in 1..Len(u)
    BY <1>1
  <2> QED
    BY <1>1, <1>3, <2>1 DEF Between
<1>8. /\ Len(w) = Len(a) + (1 + Len(new)) + Len(b)
      /\ \A x \in 1..Len(a) : w[x] = a[x]
      /\ \A x \in 1..1 + Len(new) : w[Len(a) + x] = m[x]
      /\ \A x \in 1..Len(b) : w[(Len(a) + (1 + Len(new))) + x] = b[x]
  BY <1>2, <1>4 DEF Between
<1>9. p \in 1..Len(s) /\ s[p].turn = t
  BY <1>1, <1>5, <1>7
<1> HIDE DEF p
<1>10. SpliceAt(s, t) = p
  BY <1>3, <1>6, <1>9, SplicePlace
<1>11. v \in Seq(S) /\ InsertedAt(v, s, new, p)
  <2>1. SpliceAt(s, t) \in 0..Len(s)
    BY <1>9, <1>10
  <2>2. s \in Seq(S)
    BY <1>3
  <2>3. v \in Seq(S) /\ InsertedAt(v, s, new, SpliceAt(s, t))
    BY <2>1, <2>2, SpliceProperties
  <2> HIDE DEF v
  <2> QED
    BY <1>10, <2>3
<1> HIDE DEF v
<1>12. /\ Len(v) = Len(s) + Len(new)
       /\ \A x \in 1..p : v[x] = s[x]
       /\ \A x \in 1..Len(new) : v[p + x] = new[x]
       /\ \A x \in p+1..Len(s) : v[x + Len(new)] = s[x]
  BY <1>11 DEF InsertedAt
<1>13. Len(v) = Len(w)
  BY <1>5, <1>7, <1>8, <1>12
<1>14. ASSUME NEW x \in 1..Len(v) PROVE v[x] = w[x]
  <2>1. CASE x <= Len(a)
    <3>1. x \in 1..Len(a) /\ x \in 1..p
      BY <1>5, <2>1 DEF p
    <3> QED
      BY <1>7, <1>8, <1>12, <3>1
  <2>2. CASE x = p
    <3>1. x \in 1..p /\ 1 \in 1..1 + Len(new) /\ x = Len(a) + 1
      BY <1>5, <2>2 DEF p
    <3>2. w[x] = m[1] /\ m[1] = UserMessage(t)
      BY <1>1, <1>2, <1>8, <3>1
    <3> QED
      BY <1>7, <1>12, <2>2, <3>1, <3>2
  <2>3. CASE x > p /\ x <= p + Len(new)
    <3> DEFINE y == x - p
    <3>1. /\ y \in 1..Len(new) /\ x = p + y
          /\ y + 1 \in 1..1 + Len(new) /\ ~ (y + 1 <= 1) /\ (y + 1) - 1 = y
          /\ x = Len(a) + (y + 1)
      BY <1>5, <2>3 DEF p
    <3> HIDE DEF y
    <3>2. w[x] = m[y + 1] /\ m[y + 1] = new[y] /\ v[x] = new[y]
      BY <1>2, <1>8, <1>12, <3>1
    <3> QED
      BY <3>2
  <2>4. CASE x > p + Len(new)
    <3> DEFINE y == x - (p + Len(new))
    <3>1. /\ y \in 1..Len(b) /\ p + y \in p+1..Len(s)
          /\ x = (p + y) + Len(new)
          /\ x = (Len(a) + (1 + Len(new))) + y
      BY <1>5, <1>7, <1>12, <2>4 DEF p
    <3> HIDE DEF y
    <3>2. v[(p + y) + Len(new)] = s[p + y] /\ s[p + y] = b[y]
      BY <1>7, <1>12, <3>1
    <3>3. w[(Len(a) + (1 + Len(new))) + y] = b[y]
      BY <1>8, <3>1
    <3> QED
      BY <3>1, <3>2, <3>3
  <2> QED
    BY <1>5, <1>7, <1>12, <2>1, <2>2, <2>3, <2>4 DEF p
<1>15. v = w
  BY <1>4, <1>11, <1>13, <1>14, SeqEqual
<1> QED
  BY <1>15 DEF v, w, s, m, u

\* The rows where row k, with the user message of t, has been given new.
Stores(others, rows, k, t, new) ==
  /\ Len(others) = Len(rows)
  /\ \A i \in 1..Len(rows) : i # k => others[i].msgs = rows[i].msgs
  /\ rows[k].msgs = <<UserMessage(t)>>
  /\ others[k].msgs = <<UserMessage(t)>> \o new

LEMMA ListedSplice ==
  ASSUME NEW R, NEW rows \in Seq(R), NEW others \in Seq(R), NEW k \in 1..Len(rows),
         NEW S, NEW new \in Seq(S), NEW t, UserMessage(t) \in S,
         \A i \in 1..Len(rows) : rows[i].msgs \in Seq(S),
         \A i \in 1..Len(others) : others[i].msgs \in Seq(S),
         Stores(others, rows, k, t, new), Single(Listed(rows), t)
  PROVE  Listed(others) = Splice(Listed(rows), t, new)
<1> USE DEF Stores
<1> DEFINE u == <<UserMessage(t)>>
<1>1. PICK a, b \in Seq(S) : /\ Listed(rows) = (a \o u) \o b
                             /\ Listed(others) = (a \o (u \o new)) \o b
  <2>1. DifferAt(rows, others, k, S)
    BY ListedAround
  <2> QED
    BY <2>1 DEF DifferAt
<1>2. Single((a \o u) \o b, t)
  BY <1>1
<1>3. Splice((a \o u) \o b, t, new) = (a \o (u \o new)) \o b
  BY <1>2, SpliceBetween
<1> QED
  BY <1>1, <1>3

-----------------------------------------------------------------------------
(* Histories and the threads that made them. *)

Running(p, t) == p[t] \in {"working", "answered", "broken"}

\* s is a history of threads that are where p says: turns stand together, no
\* message is of a turn not begun, and a running turn has at most its user
\* message.
Fits(s, p) ==
  /\ Contiguous(s)
  /\ \A x \in 1..Len(s) : p[s[x].turn] # "new"
  /\ \A t \in Turns : Running(p, t) => Single(s, t)

LEMMA FitsEmpty ==
  ASSUME NEW p
  PROVE  Fits(<<>>, p)
BY DEF Fits, Contiguous, Single

LEMMA FitsEnd ==
  ASSUME NEW S, NEW s \in Seq(S), NEW w \in Seq(S), EndOf(w, s), NEW p, Fits(s, p)
  PROVE  Fits(w, p)
<1> DEFINE d == Len(s) - Len(w)
<1>1. Contiguous(w)
  BY ContiguousEnd DEF Fits
<1>2. Len(s) \in Nat /\ Len(w) \in Nat /\ d \in Nat
  BY LenProperties DEF EndOf
<1>3. \A i \in 1..Len(w) : i + d \in 1..Len(s) /\ w[i] = s[i + d]
  BY <1>2 DEF EndOf
<1> HIDE DEF d
<1>4. \A x \in 1..Len(w) : p[w[x].turn] # "new"
  BY <1>3 DEF Fits
<1>5. ASSUME NEW t \in Turns, Running(p, t) PROVE Single(w, t)
  <2>1. Single(s, t)
    BY <1>5 DEF Fits
  <2>2. \A x \in 1..Len(w) : w[x].turn = t => w[x] = UserMessage(t)
    BY <1>3, <2>1 DEF Single
  <2>3. ASSUME NEW x \in 1..Len(w), NEW y \in 1..Len(w), w[x].turn = t, w[y].turn = t
        PROVE  x = y
    <3>1. x + d = y + d
      BY <1>3, <2>1, <2>3 DEF Single
    <3> QED
      BY <1>2, <3>1
  <2> QED
    BY <2>2, <2>3 DEF Single
<1> QED
  BY <1>1, <1>4, <1>5 DEF Fits

\* Threads that stop or stay leave a history as fitting as it was.
LEMMA FitsLater ==
  ASSUME NEW S, NEW s \in Seq(S), NEW p, Fits(s, p), NEW q,
         \A x \in 1..Len(s) : s[x].turn \in Turns,
         \A t \in Turns : p[t] # "new" => q[t] # "new",
         \A t \in Turns : Running(q, t) /\ p[t] # "new" => Running(p, t)
  PROVE  /\ \A x \in 1..Len(s) : q[s[x].turn] # "new"
         /\ Fits(s, q)
<1>1. \A x \in 1..Len(s) : q[s[x].turn] # "new"
  BY DEF Fits
<1>2. ASSUME NEW t \in Turns, Running(q, t) PROVE Single(s, t)
  <2>1. CASE p[t] = "new"
    <3>1. \A x \in 1..Len(s) : s[x].turn # t
      BY <2>1 DEF Fits
    <3> QED
      BY <3>1 DEF Single
  <2>2. CASE p[t] # "new"
    BY <1>2, <2>2 DEF Fits
  <2> QED
    BY <2>1, <2>2
<1> QED
  BY <1>1, <1>2 DEF Fits

\* A turn begins.
LEMMA FitsAppend ==
  ASSUME NEW S, NEW s \in Seq(S), NEW t \in Turns, NEW p, NEW q,
         Fits(s, p), \A x \in 1..Len(s) : s[x].turn \in Turns, UserMessage(t) \in S,
         p[t] = "new", q[t] # "new", \A u \in Turns : u # t => q[u] = p[u]
  PROVE  Fits(Append(s, UserMessage(t)), q)
<1> DEFINE e == UserMessage(t)
           w == Append(s, e)
<1>1. e.turn = t
  BY DEF UserMessage
<1>2. \A x \in 1..Len(s) : s[x].turn # t
  BY DEF Fits
<1>3. /\ w \in Seq(S) /\ Len(w) = Len(s) + 1 /\ w[Len(s) + 1] = e
      /\ \A x \in 1..Len(s) : w[x] = s[x]
  BY AppendProperties
<1>4. Len(s) \in Nat
  BY LenProperties
<1>5. Contiguous(w)
  BY <1>1, <1>2, ContiguousAppend DEF Fits
<1> HIDE DEF w
<1>6. \A x \in 1..Len(w) : x \in 1..Len(s) \/ x = Len(s) + 1
  BY <1>3, <1>4
<1>7. \A x \in 1..Len(w) : q[w[x].turn] # "new"
  <2> SUFFICES ASSUME NEW x \in 1..Len(w) PROVE q[w[x].turn] # "new"
    OBVIOUS
  <2>1. CASE x \in 1..Len(s)
    <3>1. w[x] = s[x] /\ s[x].turn \in Turns /\ s[x].turn # t /\ p[s[x].turn] # "new"
      BY <1>2, <1>3, <2>1 DEF Fits
    <3> QED
      BY <3>1
  <2>2. CASE x = Len(s) + 1
    BY <1>1, <1>3, <2>2
  <2> QED
    BY <1>6, <2>1, <2>2
<1>8. ASSUME NEW u \in Turns, Running(q, u) PROVE Single(w, u)
  <2>1. CASE u = t
    <3>1. \A x \in 1..Len(w) : w[x].turn = t => x = Len(s) + 1
      BY <1>2, <1>3, <1>6
    <3> QED
      BY <1>3, <2>1, <3>1 DEF Single
  <2>2. CASE u # t
    <3>1. Single(s, u)
      BY <1>8, <2>2 DEF Fits, Running
    <3>2. \A x \in 1..Len(w) : w[x].turn = u => x \in 1..Len(s) /\ w[x] = s[x]
      BY <1>1, <1>3, <1>6, <2>2
    <3> QED
      BY <3>1, <3>2 DEF Single
  <2> QED
    BY <2>1, <2>2
<1> QED
  BY <1>5, <1>7, <1>8 DEF Fits, w

\* A running turn stops and its output is put with its user message.
LEMMA FitsSplice ==
  ASSUME NEW S, NEW s \in Seq(S), NEW new \in Seq(S), NEW t \in Turns, NEW p, NEW q,
         Fits(s, p), \A x \in 1..Len(s) : s[x].turn \in Turns,
         \A x \in 1..Len(new) : new[x].turn = t,
         Running(p, t), q[t] # "new", ~ Running(q, t),
         \A u \in Turns : u # t => q[u] = p[u]
  PROVE  Fits(Splice(s, t, new), q)
<1> DEFINE at == SpliceAt(s, t)
           w == Splice(s, t, new)
           n == Len(s)
           m == Len(new)
<1>1. Single(s, t) /\ Contiguous(s)
  BY DEF Fits
<1>2. at \in 0..n
  BY <1>1, SplicePlace
<1>3. w \in Seq(S) /\ InsertedAt(w, s, new, at)
  BY <1>2, SpliceProperties
<1>4. Contiguous(w)
  BY <1>1, ContiguousSplice
<1>5. n \in Nat /\ m \in Nat
  BY LenProperties
<1> HIDE DEF at, w
<1>6. /\ Len(w) = n + m
      /\ \A x \in 1..at : w[x] = s[x]
      /\ \A x \in 1..m : w[at + x] = new[x]
      /\ \A x \in at+1..n : w[x + m] = s[x]
  BY <1>3 DEF InsertedAt
<1> HIDE DEF n, m
<1>7. \A x \in 1..(n + m) :
        \/ x \in 1..at /\ x \in 1..n /\ w[x] = s[x]
        \/ w[x].turn = t
        \/ x - m \in at+1..n /\ x - m \in 1..n /\ w[x] = s[x - m]
  <2> TAKE x \in 1..(n + m)
  <2>1. CASE x <= at
    BY <1>2, <1>5, <1>6, <2>1
  <2>2. CASE x > at /\ x <= at + m
    <3>1. x - at \in 1..m /\ at + (x - at) = x
      BY <1>2, <1>5, <2>2
    <3>2. w[at + (x - at)] = new[x - at] /\ new[x - at].turn = t
      BY <1>6, <3>1 DEF m
    <3> QED
      BY <3>1, <3>2
  <2>3. CASE x > at + m
    <3>1. x - m \in at+1..n /\ (x - m) + m = x /\ x - m \in 1..n
      BY <1>2, <1>5, <2>3
    <3>2. w[(x - m) + m] = s[x - m]
      BY <1>6, <3>1
    <3> QED
      BY <3>1, <3>2
  <2> QED
    BY <1>2, <1>5, <2>1, <2>2, <2>3
<1>8. \A y \in 1..n : q[s[y].turn] # "new"
  BY DEF Fits, n
<1>9. \A x \in 1..Len(w) : q[w[x].turn] # "new"
  BY <1>6, <1>7, <1>8
<1>10. ASSUME NEW u \in Turns, Running(q, u) PROVE Single(w, u)
  <2>1. u # t
    BY <1>10
  <2>2. Single(s, u)
    BY <1>10, <2>1 DEF Fits, Running
  <2>3. \A x \in 1..Len(w) : w[x].turn = u => w[x] = UserMessage(u)
    BY <1>6, <1>7, <2>1, <2>2 DEF Single, n
  <2>4. ASSUME NEW x \in 1..Len(w), NEW y \in 1..Len(w), w[x].turn = u, w[y].turn = u
        PROVE  x = y
    <3>1. \/ x \in 1..at /\ x \in 1..n /\ w[x] = s[x]
          \/ x - m \in at+1..n /\ x - m \in 1..n /\ w[x] = s[x - m]
      BY <1>6, <1>7, <2>1, <2>4
    <3>2. \/ y \in 1..at /\ y \in 1..n /\ w[y] = s[y]
          \/ y - m \in at+1..n /\ y - m \in 1..n /\ w[y] = s[y - m]
      BY <1>6, <1>7, <2>1, <2>4
    <3>3. \A i, j \in 1..n : s[i].turn = u /\ s[j].turn = u => i = j
      BY <2>2 DEF Single, n
    <3>4. CASE x \in 1..n /\ w[x] = s[x] /\ y \in 1..n /\ w[y] = s[y]
      BY <2>4, <3>3, <3>4
    <3>5. CASE x - m \in 1..n /\ w[x] = s[x - m] /\ y - m \in 1..n /\ w[y] = s[y - m]
      <4>1. x - m = y - m
        BY <2>4, <3>3, <3>5
      <4> QED
        BY <1>5, <4>1
    <3>6. ~ (x \in 1..at /\ x \in 1..n /\ w[x] = s[x] /\ y - m \in at+1..n /\ w[y] = s[y - m])
      <4> SUFFICES ASSUME x \in 1..at, x \in 1..n, w[x] = s[x], y - m \in at+1..n,
                          y - m \in 1..n, w[y] = s[y - m]
                   PROVE  FALSE
        BY <1>2
      <4>1. x = y - m
        BY <2>4, <3>3
      <4> QED
        BY <1>2, <4>1
    <3>7. ~ (y \in 1..at /\ y \in 1..n /\ w[y] = s[y] /\ x - m \in at+1..n /\ w[x] = s[x - m])
      <4> SUFFICES ASSUME y \in 1..at, y \in 1..n, w[y] = s[y], x - m \in at+1..n,
                          x - m \in 1..n, w[x] = s[x - m]
                   PROVE  FALSE
        BY <1>2
      <4>1. y = x - m
        BY <2>4, <3>3
      <4> QED
        BY <1>2, <4>1
    <3> QED
      BY <3>1, <3>2, <3>4, <3>5, <3>6, <3>7
  <2> QED
    BY <2>3, <2>4 DEF Single
<1> QED
  BY <1>4, <1>9, <1>10 DEF Fits, w

-----------------------------------------------------------------------------
(* The inductive invariant of ChatTurns. *)

\* What a completed row of t holds.
Complete(msgs, t) ==
  /\ msgs[Len(msgs)] = TextMessage(t)
  /\ \A x \in 1..Len(msgs) : msgs[x].turn = t
  /\ OwnAnswered(msgs, t)

\* No turn has two rows; a row is of a turn begun; the row of a running turn
\* is open, that of a settled one is not; an open row holds its user message.
RowsInv ==
  /\ \A i, j \in 1..Len(store) : store[i].turn = store[j].turn => i = j
  /\ \A i \in 1..Len(store) :
       /\ pc[store[i].turn] # "new"
       /\ Running(pc, store[i].turn) => store[i].status = "processing"
       /\ pc[store[i].turn] = "settled" => store[i].status # "processing"
       /\ store[i].status = "processing" =>
            store[i].msgs = <<UserMessage(store[i].turn)>>
       /\ store[i].status = "completed" => Complete(store[i].msgs, store[i].turn)

\* A loop that has returned left its text last in the private copy.
AnswerInv ==
  \A t \in Turns : pc[t] = "answered" =>
    Len(working[t]) >= 1 /\ working[t][Len(working[t])] = TextMessage(t)

\* A loop that was not broken off has left no call of its turn unanswered.
WholeInv ==
  \A t \in Turns : pc[t] \in {"working", "answered"} => OwnAnswered(working[t], t)

\* Both copies are histories the threads can have made.
HistoryInv ==
  /\ Fits(Listed(store), pc)
  /\ cache # Unloaded => Fits(cache, pc)

\* The copy in memory is the stored history, trimmed.
MirrorInv ==
  MaxHistory # 1 /\ cache # Unloaded /\ ~drift => cache = Trim(Listed(store))

ChatInv == ChatTypeOK /\ RowsInv /\ AnswerInv /\ WholeInv /\ HistoryInv /\ MirrorInv

-----------------------------------------------------------------------------
(* Types. *)

Row == [turn : Turns, msgs : Seq(Message),
        status : {"processing", "completed", "failed"}]

LEMMA MessageTypes ==
  /\ \A t \in Turns : UserMessage(t) \in Message /\ TextMessage(t) \in Message
  /\ \A t \in Turns : \A g \in 0..MaxGroups :
       CallsMessage(t, g, 1) \in Message /\ ToolMessage(t, g, 1) \in Message
<1>1. \A t \in Turns : UserMessage(t) \in Message /\ TextMessage(t) \in Message
  <2>1. 0 \in 0..MaxGroups /\ 0 \in 0..1 /\ "user" \in Roles /\ "text" \in Roles
    BY ChatTurnsAssumption DEF Roles
  <2> SUFFICES ASSUME NEW t \in Turns
               PROVE  UserMessage(t) \in Message /\ TextMessage(t) \in Message
    OBVIOUS
  <2>2. UserMessage(t) \in Message
    BY <2>1 DEF UserMessage, Message
  <2>3. TextMessage(t) \in Message
    BY <2>1 DEF TextMessage, Message
  <2> QED
    BY <2>2, <2>3
<1>2. \A t \in Turns : \A g \in 0..MaxGroups :
        CallsMessage(t, g, 1) \in Message /\ ToolMessage(t, g, 1) \in Message
  BY DEF CallsMessage, ToolMessage, Message, Roles
<1> QED
  BY <1>1, <1>2

LEMMA TurnsOfMessages ==
  ASSUME NEW s \in Seq(Message)
  PROVE  \A x \in 1..Len(s) : s[x].turn \in Turns
<1> SUFFICES ASSUME NEW x \in 1..Len(s) PROVE s[x].turn \in Turns
  OBVIOUS
<1>1. s[x] \in Message
  BY ElementOfSeq
<1> QED
  BY <1>1 DEF Message

\* load_history gives an end of what is stored, the end _trim_history keeps.
LEMMA LoadIsEnd ==
  ASSUME NEW S, NEW s \in Seq(S)
  PROVE  /\ LastN(s, MaxHistory - 1) \in Seq(S)
         /\ EndOf(LastN(s, MaxHistory - 1), s)
         /\ MaxHistory # 1 => LastN(s, MaxHistory - 1) = Trim(s)
<1> DEFINE w == LastN(s, MaxHistory - 1)
<1>1. Len(s) \in Nat
  BY LenProperties
<1>2. CASE MaxHistory = 1
  <2>1. CASE Len(s) <= 0
    BY <1>1, <1>2, <2>1 DEF LastN, EndOf
  <2>2. CASE ~ (Len(s) <= 0)
    <3>1. w = SubSeq(s, Len(s) + 1, Len(s))
      BY <1>1, <1>2, <2>2 DEF LastN
    <3>2. w = <<>>
      BY <1>1, <3>1, SubSeqEmpty
    <3>3. w \in Seq(S) /\ Len(w) = 0
      BY <3>2, EmptySeq
    <3> HIDE DEF w
    <3>4. EndOf(w, s)
      BY <1>1, <3>3 DEF EndOf
    <3> QED
      BY <1>2, <3>3, <3>4 DEF w
  <2> QED
    BY <2>1, <2>2
<1>3. CASE MaxHistory # 1
  <2>1. w = Trim(s)
    BY <1>1, <1>3, MaxHistoryAssumption DEF Trim, LastN
  <2>2. Trim(s) \in Seq(S) /\ EndOf(Trim(s), s)
    BY TrimProperties, TrimIsEnd
  <2> QED
    BY <2>1, <2>2
<1> QED
  BY <1>2, <1>3

\* What _history_unlocked gives, loaded or not.
LEMMA HydratedIs ==
  ASSUME ChatInv
  PROVE  /\ Listed(store) \in Seq(Message)
         /\ Hydrated \in Seq(Message)
         /\ Fits(Hydrated, pc)
         /\ MaxHistory # 1 /\ ~drift => Hydrated = Trim(Listed(store))
<1>1. store \in Seq(Row)
  BY DEF ChatInv, ChatTypeOK, Row
<1>2. Listed(store) \in Seq(Message)
  <2>1. \A i \in 1..Len(store) : store[i].msgs \in Seq(Message)
    <3> SUFFICES ASSUME NEW i \in 1..Len(store) PROVE store[i].msgs \in Seq(Message)
      OBVIOUS
    <3>1. store[i] \in Row
      BY <1>1, ElementOfSeq
    <3> QED
      BY <3>1 DEF Row
  <2> QED
    BY <1>1, <2>1, ListedType
<1>3. /\ Load \in Seq(Message)
      /\ EndOf(Load, Listed(store))
      /\ MaxHistory # 1 => Load = Trim(Listed(store))
  BY <1>2, LoadIsEnd DEF Load
<1>4. CASE cache = Unloaded
  <2>1. Fits(Load, pc)
    BY <1>2, <1>3, FitsEnd DEF ChatInv, HistoryInv
  <2> QED
    BY <1>2, <1>3, <1>4, <2>1 DEF Hydrated
<1>5. CASE cache # Unloaded
  BY <1>2, <1>5 DEF Hydrated, ChatInv, ChatTypeOK, HistoryInv, MirrorInv
<1> QED
  BY <1>4, <1>5

\* The history grows by one message and is trimmed; so does what is stored.
LEMMA TrimFits ==
  ASSUME NEW S, NEW s \in Seq(S), NEW p, Fits(s, p)
  PROVE  Trim(s) \in Seq(S) /\ Fits(Trim(s), p)
<1>1. Trim(s) \in Seq(S) /\ EndOf(Trim(s), s)
  BY TrimProperties, TrimIsEnd
<1> QED
  BY <1>1, FitsEnd

LEMMA TrimAppend ==
  ASSUME NEW S, NEW s \in Seq(S), NEW e \in S
  PROVE  Trim(Append(Trim(s), e)) = Trim(Append(s, e))
<1> DEFINE w == Trim(s)
           a == Append(w, e)
           b == Append(s, e)
<1>1. w \in Seq(S) /\ EndOf(w, s) /\ Len(w) = Kept(Len(s))
  BY TrimProperties, TrimIsEnd
<1> HIDE DEF w
<1>2. w \in Seq(S)
  BY <1>1
<1>3. a \in Seq(S) /\ Len(a) = Len(w) + 1 /\ b \in Seq(S) /\ Len(b) = Len(s) + 1
  BY <1>2, AppendProperties
<1>4. EndOf(a, b)
  BY <1>1, <1>2, EndAppend
<1>5. Kept(Len(s) + 1) <= Kept(Len(s)) + 1
  BY KeptBounds, LenProperties
<1> HIDE DEF a, b
<1>6. Len(a) >= Kept(Len(b))
  <2>1. Kept(Len(s)) \in Nat /\ Kept(Len(s) + 1) \in Nat
    BY KeptBounds, LenProperties
  <2> QED
    BY <1>1, <1>3, <1>5, <2>1
<1>7. Trim(a) = Trim(b)
  BY <1>3, <1>4, <1>6, TrimOfEnd
<1> QED
  BY <1>7 DEF a, b, w

LEMMA TrimSplice ==
  ASSUME NEW S, NEW s \in Seq(S), NEW t, Single(s, t), NEW new \in Seq(S),
         new = <<>> \/ \E p \in 1..Len(Trim(s)) : Trim(s)[p] = UserMessage(t)
  PROVE  Trim(Splice(Trim(s), t, new)) = Trim(Splice(s, t, new))
<1> DEFINE w == Trim(s)
           a == Splice(w, t, new)
           b == Splice(s, t, new)
<1>1. w \in Seq(S) /\ EndOf(w, s) /\ Len(w) = Kept(Len(s))
  BY TrimProperties, TrimIsEnd
<1> HIDE DEF w
<1>2. w \in Seq(S)
  BY <1>1
<1>3. Single(w, t)
  <2>1. \A i \in 1..Len(w) : /\ i + (Len(s) - Len(w)) \in 1..Len(s)
                             /\ w[i] = s[i + (Len(s) - Len(w))]
    BY <1>1, <1>2, LenProperties DEF EndOf
  <2> DEFINE d == Len(s) - Len(w)
  <2>2. d \in Int
    BY <1>2, LenProperties
  <2>3. \A i \in 1..Len(w) : i + d \in 1..Len(s) /\ w[i] = s[i + d]
    BY <2>1
  <2> HIDE DEF d
  <2>4. \A x \in 1..Len(w) : w[x].turn = t => w[x] = UserMessage(t)
    BY <2>3 DEF Single
  <2>5. ASSUME NEW x \in 1..Len(w), NEW y \in 1..Len(w), w[x].turn = t, w[y].turn = t
        PROVE  x = y
    <3>1. x + d = y + d
      BY <2>3, <2>5 DEF Single
    <3> QED
      BY <2>2, <3>1
  <2> QED
    BY <2>4, <2>5 DEF Single
<1>4. /\ a \in Seq(S) /\ Len(a) = Len(w) + Len(new)
      /\ b \in Seq(S) /\ Len(b) = Len(s) + Len(new)
  <2>1. SpliceAt(w, t) \in 0..Len(w) /\ SpliceAt(s, t) \in 0..Len(s)
    BY <1>2, <1>3, SplicePlace
  <2>2. a \in Seq(S) /\ InsertedAt(a, w, new, SpliceAt(w, t))
    BY <1>2, <2>1, SpliceProperties
  <2>3. b \in Seq(S) /\ InsertedAt(b, s, new, SpliceAt(s, t))
    BY <2>1, SpliceProperties
  <2> QED
    BY <2>2, <2>3 DEF InsertedAt
<1>5. EndOf(a, b)
  <2>1. CASE new = <<>>
    <3>1. a = w /\ b = s
      BY <1>2, <1>3, <2>1, SpliceNothing
    <3> QED
      BY <1>1, <3>1
  <2>2. CASE new # <<>>
    <3>1. PICK p \in 1..Len(w) : w[p] = UserMessage(t)
      BY <2>2 DEF w
    <3>2. w[p].turn = t
      BY <3>1 DEF UserMessage
    <3>3. EndOf(w, s)
      BY <1>1
    <3> QED
      BY <1>2, <3>2, <3>3, EndSplice
  <2> QED
    BY <2>1, <2>2
<1> HIDE DEF a, b
<1>6. Len(a) >= Kept(Len(b))
  <2>1. /\ Len(s) \in Nat /\ Len(new) \in Nat
        /\ Kept(Len(s)) \in Nat /\ Kept(Len(s) + Len(new)) \in Nat
    BY LenProperties, MaxHistoryAssumption DEF Kept
  <2>2. Kept(Len(s) + Len(new)) <= Kept(Len(s)) + Len(new)
    BY <2>1, MaxHistoryAssumption DEF Kept
  <2> QED
    BY <1>1, <1>4, <2>1, <2>2
<1>7. Trim(a) = Trim(b)
  BY <1>4, <1>5, <1>6, TrimOfEnd
<1> QED
  BY <1>7 DEF a, b, w

-----------------------------------------------------------------------------
(* The steps. *)

LEMMA ListedNothing == Listed(<<>>) = <<>>
<1>1. <<>> \in Seq({}) /\ Len(<<>>) = 0
  BY EmptySeq
<1>2. PICK all : IsListing(all, <<>>) /\ Listed(<<>>) = all[Len(<<>>)]
  BY <1>1, ListedIs
<1>3. all[0] = <<>>
  BY <1>1, <1>2, ListingStep
<1> QED
  BY <1>1, <1>2, <1>3

LEMMA ChatInitInv == ChatInit => ChatInv
<1> SUFFICES ASSUME ChatInit PROVE ChatInv
  OBVIOUS
<1>1. <<>> \in Seq(Message) /\ <<>> \in Seq(Row) /\ Len(<<>>) = 0
  BY EmptySeq
<1>2. ChatTypeOK
  <2>1. cache = Unloaded /\ store \in Seq(Row)
    BY <1>1 DEF ChatInit
  <2>2. pc \in [Turns -> Places]
    BY DEF ChatInit, Places
  <2>3. working \in [Turns -> Seq(Message)]
    BY <1>1 DEF ChatInit
  <2>4. groups \in [Turns -> 0..MaxGroups] /\ restarts \in 0..MaxRestarts /\ drift \in BOOLEAN
    <3>1. 0 \in 0..MaxGroups /\ 0 \in 0..MaxRestarts
      BY ChatTurnsAssumption
    <3> QED
      BY <3>1 DEF ChatInit
  <2> QED
    BY <2>1, <2>2, <2>3, <2>4 DEF ChatTypeOK, Row
<1>3. RowsInv
  BY <1>1 DEF ChatInit, RowsInv
<1>4. AnswerInv
  BY DEF ChatInit, AnswerInv
<1>7. WholeInv
  BY DEF ChatInit, WholeInv
<1>5. HistoryInv
  <2>1. Fits(Listed(store), pc)
    BY ListedNothing, FitsEmpty DEF ChatInit
  <2> QED
    BY <2>1 DEF ChatInit, HistoryInv
<1>6. MirrorInv
  BY DEF ChatInit, MirrorInv
<1> QED
  BY <1>2, <1>3, <1>4, <1>5, <1>6, <1>7 DEF ChatInv

\* Moving thread t leaves the others where they are.
LEMMA MoveOne ==
  ASSUME ChatTypeOK, NEW t \in Turns, NEW v \in Places, pc' = [pc EXCEPT ![t] = v]
  PROVE  /\ pc' \in [Turns -> Places]
         /\ pc'[t] = v
         /\ \A u \in Turns : u # t => pc'[u] = pc[u]
BY DEF ChatTypeOK

\* Thread t stops, or goes on, while nothing of the two copies changes.
LEMMA StoredStays ==
  ASSUME ChatInv, store' = store,
         \A u \in Turns : pc[u] # "new" => pc'[u] # "new",
         \A u \in Turns : Running(pc', u) /\ pc[u] # "new" => Running(pc, u),
         \A u \in Turns : pc'[u] = "settled" => pc[u] = "settled"
  PROVE  /\ RowsInv'
         /\ Fits(Listed(store'), pc')
         /\ \A s \in Seq(Message) : Fits(s, pc) => Fits(s, pc')
<1>1. /\ Listed(store) \in Seq(Message)
      /\ Fits(Listed(store), pc)
  BY HydratedIs DEF ChatInv, HistoryInv
<1>2. ASSUME NEW s \in Seq(Message), Fits(s, pc) PROVE Fits(s, pc')
  <2>1. \A x \in 1..Len(s) : s[x].turn \in Turns
    BY TurnsOfMessages
  <2> QED
    BY <1>2, <2>1, FitsLater
<1>3. \A i \in 1..Len(store) : store[i].turn \in Turns
  <2> SUFFICES ASSUME NEW i \in 1..Len(store) PROVE store[i].turn \in Turns
    OBVIOUS
  <2>1. store \in Seq(Row)
    BY DEF ChatInv, ChatTypeOK, Row
  <2>2. store[i] \in Row
    BY <2>1, ElementOfSeq
  <2> QED
    BY <2>2 DEF Row
<1>4. RowsInv'
  BY <1>3 DEF ChatInv, RowsInv
<1> QED
  BY <1>1, <1>2, <1>4

LEMMA BeginKeeps ==
  ASSUME ChatInv, NEW t \in Turns, Begin(t)
  PROVE  ChatInv'
<1> DEFINE u == UserMessage(t)
           h == Hydrated
           s == Listed(store)
           row == [turn |-> t, status |-> "processing", msgs |-> <<u>>]
<1>1. /\ s \in Seq(Message) /\ h \in Seq(Message)
      /\ Fits(h, pc) /\ Fits(s, pc)
      /\ MaxHistory # 1 /\ ~drift => h = Trim(s)
  BY HydratedIs DEF ChatInv, HistoryInv
<1>2. u \in Message /\ u.turn = t
  BY MessageTypes DEF UserMessage
<1>3. /\ pc' \in [Turns -> Places] /\ pc'[t] = "working" /\ pc[t] = "new"
      /\ \A v \in Turns : v # t => pc'[v] = pc[v]
  <2>1. "working" \in Places
    BY DEF Places
  <2> QED
    BY <2>1, MoveOne DEF Begin, ChatInv
<1>4. cache' = Trim(Append(h, u)) /\ working' = [working EXCEPT ![t] = Trim(Append(h, u))]
      /\ store' = Append(store, row)
      /\ groups' = groups /\ restarts' = restarts /\ drift' = drift
  BY DEF Begin, WithUser
<1>5. row \in Row /\ row.msgs = <<u>> /\ row.turn = t /\ row.status = "processing"
  BY <1>2 DEF Row
<1>6. store \in Seq(Row)
  BY DEF ChatInv, ChatTypeOK, Row
<1> HIDE DEF u, h, s, row
<1>7. /\ Append(h, u) \in Seq(Message) /\ Append(s, u) \in Seq(Message)
      /\ Append(s, u) = s \o <<u>>
  BY <1>1, <1>2, AppendProperties, AppendIsConcat
<1>8. Fits(Append(h, u), pc') /\ Fits(Append(s, u), pc')
  <2>1. pc'[t] # "new" /\ UserMessage(t) \in Message
    BY <1>2, <1>3 DEF u
  <2>2. \A x \in 1..Len(h) : h[x].turn \in Turns
    BY <1>1, TurnsOfMessages
  <2>3. \A x \in 1..Len(s) : s[x].turn \in Turns
    BY <1>1, TurnsOfMessages
  <2>4. Fits(Append(h, UserMessage(t)), pc')
    BY <1>1, <1>3, <2>1, <2>2, FitsAppend
  <2>5. Fits(Append(s, UserMessage(t)), pc')
    BY <1>1, <1>3, <2>1, <2>3, FitsAppend
  <2> QED
    BY <2>4, <2>5 DEF u
<1>9. cache' \in Seq(Message) /\ Fits(cache', pc')
  BY <1>4, <1>7, <1>8, TrimFits
<1>10. Listed(store') = Append(s, u)
  <2>1. Listed(Append(store, row)) = Listed(store) \o row.msgs
    BY <1>5, <1>6, ListedAppend
  <2> QED
    BY <1>4, <1>5, <1>7, <2>1 DEF s
<1>11. /\ store' \in Seq(Row) /\ Len(store') = Len(store) + 1 /\ Len(store) \in Nat
       /\ \A i \in 1..Len(store) : store'[i] = store[i]
       /\ store'[Len(store) + 1] = row
  BY <1>4, <1>5, <1>6, AppendProperties, LenProperties
<1>12. ChatTypeOK'
  <2>1. working' \in [Turns -> Seq(Message)]
    BY <1>4, <1>9 DEF ChatInv, ChatTypeOK
  <2> QED
    BY <1>3, <1>4, <1>9, <1>11, <2>1 DEF ChatInv, ChatTypeOK, Row
<1>13. RowsInv'
  <2>1. \A i \in 1..Len(store) :
          store[i].turn \in Turns /\ store[i].turn # t /\ pc'[store[i].turn] = pc[store[i].turn]
    <3> SUFFICES ASSUME NEW i \in 1..Len(store)
                 PROVE  store[i].turn \in Turns /\ store[i].turn # t
      BY <1>3
    <3>1. store[i] \in Row
      BY <1>6, ElementOfSeq
    <3>2. pc[store[i].turn] # "new"
      BY DEF ChatInv, RowsInv
    <3> QED
      BY <1>3, <3>1, <3>2 DEF Row
  <2>2. \A i \in 1..Len(store') : i \in 1..Len(store) \/ i = Len(store) + 1
    BY <1>11
  <2>3. \A i, j \in 1..Len(store') : store'[i].turn = store'[j].turn => i = j
    BY <1>5, <1>11, <2>1, <2>2 DEF ChatInv, RowsInv
  <2>4. ASSUME NEW i \in 1..Len(store')
        PROVE  /\ pc'[store'[i].turn] # "new"
               /\ Running(pc', store'[i].turn) => store'[i].status = "processing"
               /\ pc'[store'[i].turn] = "settled" => store'[i].status # "processing"
               /\ store'[i].status = "processing" =>
                    store'[i].msgs = <<UserMessage(store'[i].turn)>>
               /\ store'[i].status = "completed" =>
                    Complete(store'[i].msgs, store'[i].turn)
    <3>1. CASE i \in 1..Len(store)
      BY <1>11, <2>1, <3>1 DEF ChatInv, RowsInv, Running
    <3>2. CASE i = Len(store) + 1
      BY <1>3, <1>5, <1>11, <3>2 DEF u
    <3> QED
      BY <2>2, <3>1, <3>2
  <2> QED
    BY <2>3, <2>4 DEF RowsInv
<1>14. AnswerInv'
  <2> SUFFICES ASSUME NEW v \in Turns, pc'[v] = "answered"
               PROVE  Len(working'[v]) >= 1 /\ working'[v][Len(working'[v])] = TextMessage(v)
    BY DEF AnswerInv
  <2>1. v # t /\ pc[v] = "answered"
    BY <1>3
  <2>2. working'[v] = working[v]
    BY <1>4, <2>1 DEF ChatInv, ChatTypeOK
  <2> QED
    BY <2>1, <2>2 DEF ChatInv, AnswerInv
<1>17. WholeInv'
  <2> SUFFICES ASSUME NEW v \in Turns, pc'[v] \in {"working", "answered"}
               PROVE  OwnAnswered(working'[v], v)
    BY DEF WholeInv
  <2>1. CASE v = t
    <3>1. working'[t] = cache'
      BY <1>4 DEF ChatInv, ChatTypeOK
    <3>2. \A x \in 1..Len(h) : h[x].turn # t
      BY <1>1, <1>3 DEF Fits
    <3>3. OwnAnswered(Append(h, u), t)
      <4>1. Len(Append(h, u)) = Len(h) + 1 /\ Append(h, u)[Len(h) + 1] = u
            /\ \A x \in 1..Len(h) : Append(h, u)[x] = h[x]
        BY <1>1, <1>2, AppendProperties
      <4>2. u.role = "user" /\ Len(h) \in Nat
        BY <1>1, LenProperties DEF u, UserMessage
      <4>3. \A x \in 1..Len(h) + 1 : x \in 1..Len(h) \/ x = Len(h) + 1
        BY <4>2
      <4> QED
        BY <3>2, <4>1, <4>2, <4>3 DEF OwnAnswered
    <3>4. EndOf(cache', Append(h, u))
      BY <1>4, <1>7, TrimIsEnd
    <3> QED
      BY <1>7, <1>9, <2>1, <3>1, <3>3, <3>4, AnsweredEnd
  <2>2. CASE v # t
    <3>1. pc[v] \in {"working", "answered"} /\ working'[v] = working[v]
      BY <1>3, <1>4, <2>2 DEF ChatInv, ChatTypeOK
    <3> QED
      BY <3>1 DEF ChatInv, WholeInv
  <2> QED
    BY <2>1, <2>2
<1>15. HistoryInv'
  BY <1>8, <1>9, <1>10 DEF HistoryInv
<1>16. MirrorInv'
  <2> SUFFICES ASSUME MaxHistory # 1, ~drift PROVE cache' = Trim(Listed(store'))
    BY <1>4 DEF MirrorInv
  <2>1. h = Trim(s)
    BY <1>1
  <2>2. Trim(Append(Trim(s), u)) = Trim(Append(s, u))
    BY <1>1, <1>2, TrimAppend
  <2> QED
    BY <1>4, <1>10, <2>1, <2>2
<1> QED
  BY <1>12, <1>13, <1>14, <1>15, <1>16, <1>17 DEF ChatInv

\* The private copy of t changes, or t stops, and the rest is left alone.
LEMMA LoopKeeps ==
  ASSUME ChatInv, NEW t \in Turns, pc[t] = "working",
         NEW v \in {"working", "answered", "broken"}, pc' = [pc EXCEPT ![t] = v],
         NEW w \in Seq(Message), working' = [working EXCEPT ![t] = w],
         v = "answered" => Len(w) >= 1 /\ w[Len(w)] = TextMessage(t),
         v \in {"working", "answered"} => OwnAnswered(w, t),
         groups' \in [Turns -> 0..MaxGroups],
         UNCHANGED <<cache, store, restarts, drift>>
  PROVE  ChatInv'
<1>1. /\ pc' \in [Turns -> Places] /\ pc'[t] = v
      /\ \A u \in Turns : u # t => pc'[u] = pc[u]
  <2>1. v \in Places
    BY DEF Places
  <2> QED
    BY <2>1, MoveOne DEF ChatInv
<1>2. ChatTypeOK'
  BY <1>1 DEF ChatInv, ChatTypeOK
<1>3. /\ RowsInv'
      /\ Fits(Listed(store'), pc')
      /\ \A s \in Seq(Message) : Fits(s, pc) => Fits(s, pc')
  <2>1. \A u \in Turns : pc[u] # "new" => pc'[u] # "new"
    BY <1>1
  <2>2. \A u \in Turns : Running(pc', u) /\ pc[u] # "new" => Running(pc, u)
    BY <1>1 DEF Running
  <2>3. \A u \in Turns : pc'[u] = "settled" => pc[u] = "settled"
    BY <1>1
  <2> QED
    BY <2>1, <2>2, <2>3, StoredStays
<1>4. AnswerInv'
  <2> SUFFICES ASSUME NEW u \in Turns, pc'[u] = "answered"
               PROVE  Len(working'[u]) >= 1 /\ working'[u][Len(working'[u])] = TextMessage(u)
    BY DEF AnswerInv
  <2>1. CASE u = t
    <3>1. working'[u] = w /\ v = "answered"
      BY <1>1, <2>1 DEF ChatInv, ChatTypeOK
    <3> QED
      BY <2>1, <3>1
  <2>2. CASE u # t
    <3>1. working'[u] = working[u] /\ pc[u] = "answered"
      BY <1>1, <2>2 DEF ChatInv, ChatTypeOK
    <3> QED
      BY <3>1 DEF ChatInv, AnswerInv
  <2> QED
    BY <2>1, <2>2
<1>7. WholeInv'
  <2> SUFFICES ASSUME NEW u \in Turns, pc'[u] \in {"working", "answered"}
               PROVE  OwnAnswered(working'[u], u)
    BY DEF WholeInv
  <2>1. CASE u = t
    <3>1. working'[u] = w /\ v \in {"working", "answered"}
      BY <1>1, <2>1 DEF ChatInv, ChatTypeOK
    <3> QED
      BY <2>1, <3>1
  <2>2. CASE u # t
    <3>1. working'[u] = working[u] /\ pc[u] \in {"working", "answered"}
      BY <1>1, <2>2 DEF ChatInv, ChatTypeOK
    <3> QED
      BY <3>1 DEF ChatInv, WholeInv
  <2> QED
    BY <2>1, <2>2
<1>5. HistoryInv'
  <2>1. cache # Unloaded => cache \in Seq(Message) /\ Fits(cache, pc)
    BY DEF ChatInv, ChatTypeOK, HistoryInv
  <2> QED
    BY <1>3, <2>1 DEF HistoryInv
<1>6. MirrorInv'
  BY DEF ChatInv, MirrorInv
<1> QED
  BY <1>2, <1>3, <1>4, <1>5, <1>6, <1>7 DEF ChatInv

LEMMA WorkingType ==
  ASSUME ChatInv, NEW t \in Turns
  PROVE  /\ working[t] \in Seq(Message) /\ groups[t] \in 0..MaxGroups
         /\ pc[t] \in {"working", "answered"} => OwnAnswered(working[t], t)
BY DEF ChatInv, ChatTypeOK, WholeInv

LEMMA RunGroupKeeps ==
  ASSUME ChatInv, NEW t \in Turns, RunGroup(t)
  PROVE  ChatInv'
<1> DEFINE g == groups[t] + 1
           new == <<CallsMessage(t, g, 1), ToolMessage(t, g, 1)>>
           w == Trim(working[t] \o new)
<1>1. pc[t] = "working" /\ g \in 0..MaxGroups
  BY WorkingType, ChatTurnsAssumption DEF RunGroup
<1>2. new \in Seq(Message)
  <2>1. CallsMessage(t, g, 1) \in Message /\ ToolMessage(t, g, 1) \in Message
    BY <1>1, MessageTypes
  <2> QED
    BY <2>1
<1>8. OwnAnswered(new, t)
  <2> DEFINE c == CallsMessage(t, g, 1)
             e == ToolMessage(t, g, 1)
  <2>1. Len(new) = 2 /\ new[1] = c /\ new[2] = e
    OBVIOUS
  <2>2. c.turn = t /\ c.group = g /\ c.n = 1 /\ e.role = "tool"
    BY DEF CallsMessage, ToolMessage
  <2> HIDE DEF c, new
  <2>3. ASSUME NEW i \in 1..Len(new), new[i].role = "calls"
        PROVE  Answered(new, i)
    <3>1. i = 1
      <4>1. i = 1 \/ i = 2
        BY <2>1
      <4> QED
        BY <2>1, <2>2, <2>3, <4>1
    <3>2. 2 \in i+1..Len(new) /\ \A k \in 1..1 : k = 1
      BY <2>1, <3>1
    <3> QED
      BY <2>1, <2>2, <3>1, <3>2 DEF Answered
  <2> QED
    BY <2>3 DEF OwnAnswered
<1>3. working' = [working EXCEPT ![t] = w] /\ groups' = [groups EXCEPT ![t] = g]
      /\ UNCHANGED <<cache, store, pc, restarts, drift>>
  BY DEF RunGroup, ChatInv, ChatTypeOK
<1> HIDE DEF new
<1>4. working[t] \o new \in Seq(Message)
  BY <1>2, WorkingType, ConcatProperties
<1>5. w \in Seq(Message) /\ EndOf(w, working[t] \o new)
  BY <1>4, TrimProperties, TrimIsEnd
<1> HIDE DEF w, g
<1>9. OwnAnswered(w, t)
  <2>1. OwnAnswered(working[t] \o new, t)
    BY <1>1, <1>2, <1>8, WorkingType, AnsweredConcat
  <2> QED
    BY <1>4, <1>5, <2>1, AnsweredEnd
<1>6. pc' = [pc EXCEPT ![t] = "working"]
  BY <1>1, <1>3 DEF ChatInv, ChatTypeOK
<1>7. groups' \in [Turns -> 0..MaxGroups]
  BY <1>1, <1>3 DEF ChatInv, ChatTypeOK
<1> QED
  BY <1>1, <1>3, <1>5, <1>6, <1>7, <1>9, LoopKeeps

LEMMA AnswerKeeps ==
  ASSUME ChatInv, NEW t \in Turns, Answer(t)
  PROVE  ChatInv'
<1> DEFINE e == TextMessage(t)
           a == Append(working[t], e)
           w == Trim(a)
<1>1. e \in Message /\ working[t] \in Seq(Message)
  BY MessageTypes, WorkingType
<1> HIDE DEF e
<1>2. a \in Seq(Message) /\ Len(a) = Len(working[t]) + 1 /\ a[Len(a)] = e
  <2>1. working[t] \in Seq(Message)
    BY <1>1
  <2>2. e \in Message
    BY <1>1
  <2> QED
    BY <2>1, <2>2, AppendProperties
<1>3. Len(a) \in Nat /\ Len(a) >= 1
  BY <1>1, <1>2, LenProperties
<1>10. OwnAnswered(a, t)
  <2>1. OwnAnswered(working[t], t)
    BY WorkingType DEF Answer
  <2>2. <<e>> \in Seq(Message) /\ OwnAnswered(<<e>>, t)
    <3>1. Len(<<e>>) = 1 /\ <<e>>[1] = e /\ e.role = "text"
      BY DEF e, TextMessage
    <3> QED
      BY <1>1, <3>1 DEF OwnAnswered
  <2>3. a = working[t] \o <<e>>
    BY <1>1, AppendIsConcat
  <2> QED
    BY <1>1, <2>1, <2>2, <2>3, AnsweredConcat
<1> HIDE DEF a
<1>4. /\ w \in Seq(Message) /\ Len(w) = Kept(Len(a))
      /\ \A i \in 1..Len(w) : w[i] = a[i + Len(a) - Kept(Len(a))]
  BY <1>2, TrimProperties
<1>5. Kept(Len(a)) \in 1..Len(a)
  BY <1>3, KeptBounds
<1> HIDE DEF w
<1>6. Len(w) >= 1 /\ w[Len(w)] = e
  <2>1. Len(w) \in 1..Len(w) /\ Len(w) + Len(a) - Kept(Len(a)) = Len(a)
    BY <1>3, <1>4, <1>5
  <2> QED
    BY <1>2, <1>4, <2>1
<1>7. /\ pc[t] = "working" /\ working' = [working EXCEPT ![t] = w]
      /\ pc' = [pc EXCEPT ![t] = "answered"]
      /\ UNCHANGED <<cache, store, groups, restarts, drift>>
  BY DEF Answer, w, a, e
<1>8. groups' \in [Turns -> 0..MaxGroups]
  BY <1>7 DEF ChatInv, ChatTypeOK
<1>9. Len(w) >= 1 /\ w[Len(w)] = TextMessage(t)
  BY <1>6 DEF e
<1>11. OwnAnswered(w, t)
  <2>1. EndOf(w, a)
    BY <1>2, TrimIsEnd DEF w
  <2> QED
    BY <1>2, <1>4, <1>10, <2>1, AnsweredEnd
<1> QED
  BY <1>4, <1>7, <1>8, <1>9, <1>11, LoopKeeps

LEMMA BreakKeeps ==
  ASSUME ChatInv, NEW t \in Turns, Break(t)
  PROVE  ChatInv'
<1>1. /\ pc[t] = "working" /\ pc' = [pc EXCEPT ![t] = "broken"]
      /\ UNCHANGED <<cache, store, groups, restarts, drift>>
  BY DEF Break
<1>2. groups' \in [Turns -> 0..MaxGroups]
  BY <1>1 DEF ChatInv, ChatTypeOK
<1>3. CASE UNCHANGED working
  <2>1. working' = [working EXCEPT ![t] = working[t]] /\ working[t] \in Seq(Message)
    BY <1>3, WorkingType DEF ChatInv, ChatTypeOK
  <2> QED
    BY <1>1, <1>2, <2>1, LoopKeeps
<1>4. CASE /\ groups[t] < MaxGroups
           /\ working' = [working EXCEPT ![t] =
                            Append(@, CallsMessage(t, groups[t] + 1, 1))]
  <2> DEFINE e == CallsMessage(t, groups[t] + 1, 1)
             w == Append(working[t], e)
  <2>1. working' = [working EXCEPT ![t] = w]
    BY <1>4
  <2>2. groups[t] + 1 \in 0..MaxGroups
    BY <1>4, WorkingType, ChatTurnsAssumption
  <2>3. e \in Message
    BY <2>2, MessageTypes
  <2> HIDE DEF e
  <2>4. w \in Seq(Message)
    BY <2>3, WorkingType, AppendProperties
  <2> HIDE DEF w
  <2> QED
    BY <1>1, <1>2, <2>1, <2>4, LoopKeeps
<1> QED
  BY <1>3, <1>4 DEF Break

\* What a stopped turn has to store.
LEMMA OutputIs ==
  ASSUME ChatInv, NEW t \in Turns
  PROVE  /\ NewMessages(t) \in Seq(Message)
         /\ \A x \in 1..Len(NewMessages(t)) : NewMessages(t)[x].turn = t
         /\ pc[t] = "answered" =>
              /\ Len(NewMessages(t)) >= 1
              /\ NewMessages(t)[Len(NewMessages(t))] = TextMessage(t)
              /\ OwnAnswered(NewMessages(t), t)
<1> DEFINE w == working[t]
<1>1. w \in Seq(Message)
  BY WorkingType
<1>2. pc[t] = "answered" => Len(w) >= 1 /\ w[Len(w)] = TextMessage(t)
  BY DEF ChatInv, AnswerInv
<1>5. pc[t] = "answered" => OwnAnswered(OutputOf(w, t), t)
  BY <1>1, WorkingType, AnsweredOutput
<1> HIDE DEF w
<1>3. /\ OutputOf(w, t) \in Seq(Message)
      /\ \A k \in 1..Len(OutputOf(w, t)) : OutputOf(w, t)[k].turn = t
      /\ Len(w) >= 1 /\ w[Len(w)].turn = t /\ w[Len(w)].role # "user" =>
           /\ Len(OutputOf(w, t)) >= 1
           /\ OutputOf(w, t)[Len(OutputOf(w, t))] = w[Len(w)]
  BY <1>1, OutputProperties
<1>4. TextMessage(t).turn = t /\ TextMessage(t).role # "user"
  BY DEF TextMessage
<1> QED
  BY <1>2, <1>3, <1>4, <1>5 DEF NewMessages, w

\* The shared history takes the output of a stopped turn.
LEMMA SplicedFits ==
  ASSUME ChatInv, NEW t \in Turns, Running(pc, t), NEW v \in Places,
         v # "new", v \notin {"working", "answered", "broken"}, pc' = [pc EXCEPT ![t] = v]
  PROVE  /\ Spliced(t) \in Seq(Message)
         /\ Fits(Spliced(t), pc')
         /\ Single(Listed(store), t)
         /\ Fits(Splice(Listed(store), t, NewMessages(t)), pc')
<1> DEFINE h == Hydrated
           s == Listed(store)
           new == NewMessages(t)
<1>1. /\ s \in Seq(Message) /\ h \in Seq(Message)
      /\ Fits(h, pc) /\ Fits(s, pc)
  BY HydratedIs DEF ChatInv, HistoryInv
<1>2. new \in Seq(Message) /\ \A x \in 1..Len(new) : new[x].turn = t
  BY OutputIs
<1>3. /\ pc'[t] = v /\ pc'[t] # "new" /\ ~ Running(pc', t)
      /\ \A u \in Turns : u # t => pc'[u] = pc[u]
  BY MoveOne DEF ChatInv, Running
<1> HIDE DEF h, s, new
<1>4. Fits(Splice(h, t, new), pc')
  <2>1. \A x \in 1..Len(h) : h[x].turn \in Turns
    BY <1>1, TurnsOfMessages
  <2>2. h \in Seq(Message)
    BY <1>1
  <2>3. Fits(h, pc)
    BY <1>1
  <2>4. new \in Seq(Message)
    BY <1>2
  <2>5. \A x \in 1..Len(new) : new[x].turn = t
    BY <1>2
  <2>6. pc'[t] # "new"
    BY <1>3
  <2>7. ~ Running(pc', t)
    BY <1>3
  <2>8. \A u \in Turns : u # t => pc'[u] = pc[u]
    BY <1>3
  <2> QED
    BY <2>1, <2>2, <2>3, <2>4, <2>5, <2>6, <2>7, <2>8, FitsSplice
<1>5. Fits(Splice(s, t, new), pc')
  <2>1. \A x \in 1..Len(s) : s[x].turn \in Turns
    BY <1>1, TurnsOfMessages
  <2>2. s \in Seq(Message)
    BY <1>1
  <2>3. Fits(s, pc)
    BY <1>1
  <2>4. new \in Seq(Message)
    BY <1>2
  <2>5. \A x \in 1..Len(new) : new[x].turn = t
    BY <1>2
  <2>6. pc'[t] # "new"
    BY <1>3
  <2>7. ~ Running(pc', t)
    BY <1>3
  <2>8. \A u \in Turns : u # t => pc'[u] = pc[u]
    BY <1>3
  <2> QED
    BY <2>1, <2>2, <2>3, <2>4, <2>5, <2>6, <2>7, <2>8, FitsSplice
<1>6. Single(h, t) /\ Single(s, t)
  BY <1>1 DEF Fits
<1>7. Splice(h, t, new) \in Seq(Message)
  <2>1. SpliceAt(h, t) \in 0..Len(h)
    BY <1>1, <1>6, SplicePlace
  <2> QED
    BY <1>1, <1>2, <2>1, SpliceProperties
<1>8. Trim(Splice(h, t, new)) \in Seq(Message) /\ Fits(Trim(Splice(h, t, new)), pc')
  BY <1>4, <1>7, TrimFits
<1> QED
  BY <1>5, <1>6, <1>8 DEF Spliced, h, s, new

LEMMA CommitKeeps ==
  ASSUME ChatInv, NEW t \in Turns, Commit(t)
  PROVE  ChatInv'
<1> DEFINE s == Listed(store)
           new == NewMessages(t)
           u == <<UserMessage(t)>>
           n == Len(store)
           rows == [i \in DOMAIN store |->
                      IF i \in RowOf(t)
                      THEN [store[i] EXCEPT !.status = StatusAfter(t), !.msgs = @ \o new]
                      ELSE store[i]]
<1>1. /\ pc[t] \in {"answered", "broken"} /\ RowOf(t) # {}
      /\ cache' = Spliced(t)
      /\ store' = rows
      /\ drift' = (drift \/ (~UserInCache(t) /\ new # <<>>))
      /\ pc' = [pc EXCEPT ![t] = "settled"]
      /\ UNCHANGED <<working, groups, restarts>>
  BY DEF Commit
<1>2. store \in Seq(Row) /\ n \in Nat /\ DOMAIN store = 1..n
  BY LenProperties DEF ChatInv, ChatTypeOK, Row
<1>3. /\ pc' \in [Turns -> Places] /\ pc'[t] = "settled" /\ Running(pc, t)
      /\ \A v \in Turns : v # t => pc'[v] = pc[v]
  <2>1. "settled" \in Places
    BY DEF Places
  <2> QED
    BY <1>1, <2>1, MoveOne DEF ChatInv, Running
<1>4. /\ new \in Seq(Message)
      /\ \A x \in 1..Len(new) : new[x].turn = t
      /\ pc[t] = "answered" => /\ Len(new) >= 1 /\ new[Len(new)] = TextMessage(t)
                               /\ OwnAnswered(new, t)
  BY OutputIs
<1>5. /\ cache' \in Seq(Message)
      /\ Fits(cache', pc')
      /\ Single(s, t)
      /\ Fits(Splice(s, t, new), pc')
  <2>1. "settled" \in Places
    BY DEF Places
  <2> QED
    BY <1>1, <1>3, <2>1, SplicedFits
<1>6. u \in Seq(Message) /\ UserMessage(t) \in Message /\ Len(u) = 1
  BY MessageTypes
<1>7. PICK k \in 1..n : store[k].turn = t /\ RowOf(t) = {k}
  <2>1. PICK k \in 1..n : store[k].turn = t
    BY <1>1, <1>2 DEF RowOf
  <2>2. \A i \in 1..n : store[i].turn = t => i = k
    BY <2>1 DEF ChatInv, RowsInv
  <2> QED
    BY <1>2, <2>1, <2>2 DEF RowOf
<1>8. ASSUME NEW i \in 1..n
      PROVE  /\ store[i] \in Row /\ store[i].turn \in Turns
             /\ store[i].msgs \in Seq(Message)
  <2>1. store[i] \in Row
    BY <1>2, ElementOfSeq
  <2> QED
    BY <2>1 DEF Row
<1>9. store[k].msgs = u /\ store[k].status = "processing"
  BY <1>3, <1>7 DEF ChatInv, RowsInv
<1>10. /\ u \o new \in Seq(Message) /\ Len(u \o new) = 1 + Len(new)
       /\ Len(new) >= 1 => (u \o new)[Len(u \o new)] = new[Len(new)]
       /\ \A x \in 1..1 + Len(new) : (u \o new)[x] = IF x <= 1 THEN u[x] ELSE new[x - 1]
  <2> HIDE DEF u, new
  <2>1. u \in Seq(Message)
    BY <1>6
  <2>2. new \in Seq(Message)
    BY <1>4
  <2>3. /\ u \o new \in Seq(Message) /\ Len(u \o new) = Len(u) + Len(new)
        /\ \A x \in 1..Len(u) + Len(new) :
             (u \o new)[x] = IF x <= Len(u) THEN u[x] ELSE new[x - Len(u)]
    BY <2>1, <2>2, ConcatProperties
  <2>4. Len(new) \in Nat
    BY <2>2, LenProperties
  <2>5. Len(new) >= 1 =>
          /\ Len(u) + Len(new) \in 1..Len(u) + Len(new)
          /\ ~ (Len(u) + Len(new) <= Len(u))
          /\ (Len(u) + Len(new)) - Len(u) = Len(new)
    BY <1>6, <2>4
  <2> QED
    BY <1>6, <2>3, <2>5
<1>22. pc[t] = "answered" => Complete(u \o new, t)
  <2> SUFFICES ASSUME pc[t] = "answered" PROVE Complete(u \o new, t)
    OBVIOUS
  <2>1. u[1] = UserMessage(t) /\ UserMessage(t).turn = t /\ UserMessage(t).role = "user"
    BY DEF UserMessage
  <2>2. OwnAnswered(u, t)
    BY <1>6, <2>1 DEF OwnAnswered
  <2> HIDE DEF u, new
  <2>3. OwnAnswered(u \o new, t)
    BY <1>4, <1>6, <2>2, AnsweredConcat
  <2>4. \A x \in 1..Len(u \o new) : (u \o new)[x].turn = t
    <3>1. Len(new) \in Nat
      BY <1>4, LenProperties
    <3>2. \A x \in 1..1 + Len(new) : x = 1 \/ (~ (x <= 1) /\ x - 1 \in 1..Len(new))
      BY <3>1
    <3> QED
      BY <1>4, <1>10, <2>1, <3>2
  <2> QED
    BY <1>4, <1>10, <2>3, <2>4 DEF Complete
<1> HIDE DEF u, new, s
<1>11. /\ DOMAIN store' = 1..n
       /\ \A i \in 1..n : i # k => store'[i] = store[i]
       /\ store'[k] = [store[k] EXCEPT !.status = StatusAfter(t), !.msgs = @ \o new]
  BY <1>1, <1>2, <1>7
<1> HIDE DEF rows
<1>12. StatusAfter(t) \in {"completed", "failed"} /\ (StatusAfter(t) = "completed" => pc[t] = "answered")
  BY DEF StatusAfter
<1>13. /\ store'[k] \in Row /\ store'[k].turn = t
       /\ store'[k].status = StatusAfter(t)
       /\ store'[k].msgs = u \o new
  BY <1>7, <1>8, <1>9, <1>10, <1>11, <1>12 DEF Row
<1>14. store' \in Seq(Row) /\ Len(store') = n
  <2>1. store' = [i \in 1..n |-> store'[i]]
    BY <1>1, <1>2 DEF rows
  <2>2. \A i \in 1..n : store'[i] \in Row
    BY <1>8, <1>11, <1>13
  <2>3. store' \in [1..n -> Row]
    BY <2>1, <2>2
  <2> QED
    BY <1>2, <2>3, SeqDef, LenProperties
<1>15. Listed(store') = Splice(s, t, new)
  <2>1. \A i \in 1..Len(store) : store[i].msgs \in Seq(Message)
    BY <1>8
  <2>2. \A i \in 1..Len(store') : store'[i].msgs \in Seq(Message)
    BY <1>8, <1>10, <1>11, <1>13, <1>14
  <2>3. \A i \in 1..Len(store) : i # k => store'[i].msgs = store[i].msgs
    BY <1>11
  <2>4. store'[k].msgs = <<UserMessage(t)>> \o new /\ store[k].msgs = <<UserMessage(t)>>
    BY <1>9, <1>13 DEF u
  <2>5. Single(Listed(store), t)
    BY <1>5 DEF s
  <2>6. Listed(store') = Splice(Listed(store), t, new)
    <3> DEFINE o == store'
    <3>1. store \in Seq(Row) /\ o \in Seq(Row)
      BY <1>2, <1>14
    <3>2. new \in Seq(Message) /\ UserMessage(t) \in Message
      BY <1>4, <1>6
    <3>3. \A i \in 1..Len(o) : o[i].msgs \in Seq(Message)
      BY <2>2
    <3>5. Stores(o, store, k, t, new)
      BY <1>14, <2>3, <2>4 DEF Stores
    <3> HIDE DEF o
    <3>4. Listed(o) = Splice(Listed(store), t, new)
      BY <2>1, <2>5, <3>1, <3>2, <3>3, <3>5, ListedSplice
    <3> QED
      BY <3>4 DEF o
  <2> QED
    BY <2>6 DEF s
<1>16. drift \in BOOLEAN /\ drift' \in BOOLEAN
  BY <1>1 DEF ChatInv, ChatTypeOK
<1>17. ChatTypeOK'
  BY <1>1, <1>3, <1>5, <1>14, <1>16 DEF ChatInv, ChatTypeOK, Row
<1>18. RowsInv'
  <2>1. \A i \in 1..n : store'[i].turn = store[i].turn
    BY <1>7, <1>11, <1>13
  <2>2. \A i, j \in 1..Len(store') : store'[i].turn = store'[j].turn => i = j
    BY <1>14, <2>1 DEF ChatInv, RowsInv
  <2>3. ASSUME NEW i \in 1..n
        PROVE  /\ pc'[store'[i].turn] # "new"
               /\ Running(pc', store'[i].turn) => store'[i].status = "processing"
               /\ pc'[store'[i].turn] = "settled" => store'[i].status # "processing"
               /\ store'[i].status = "processing" =>
                    store'[i].msgs = <<UserMessage(store'[i].turn)>>
               /\ store'[i].status = "completed" =>
                    Complete(store'[i].msgs, store'[i].turn)
    <3>1. CASE i = k
      BY <1>3, <1>12, <1>13, <1>22, <3>1 DEF Running
    <3>2. CASE i # k
      <4>1. store[i].turn \in Turns /\ store[i].turn # t
        BY <1>7, <1>8, <3>2 DEF ChatInv, RowsInv
      <4>2. store'[i] = store[i] /\ pc'[store[i].turn] = pc[store[i].turn]
        BY <1>3, <1>11, <3>2, <4>1
      <4> QED
        BY <4>2 DEF ChatInv, RowsInv, Running
    <3> QED
      BY <3>1, <3>2
  <2> QED
    BY <1>14, <2>2, <2>3 DEF RowsInv
<1>19. AnswerInv'
  <2> SUFFICES ASSUME NEW v \in Turns, pc'[v] = "answered"
               PROVE  Len(working'[v]) >= 1 /\ working'[v][Len(working'[v])] = TextMessage(v)
    BY DEF AnswerInv
  <2>1. pc[v] = "answered" /\ working' = working
    BY <1>1, <1>3
  <2> QED
    BY <2>1 DEF ChatInv, AnswerInv
<1>23. WholeInv'
  BY <1>1, <1>3 DEF ChatInv, WholeInv
<1>20. HistoryInv'
  BY <1>5, <1>15 DEF HistoryInv
<1>21. MirrorInv'
  <2> SUFFICES ASSUME MaxHistory # 1, ~drift' PROVE cache' = Trim(Listed(store'))
    BY DEF MirrorInv
  <2>1. ~drift /\ (UserInCache(t) \/ new = <<>>)
    BY <1>1
  <2>2. Hydrated = Trim(s) /\ s \in Seq(Message) /\ Hydrated \in Seq(Message)
    BY <2>1, HydratedIs DEF s
  <2>3. new = <<>> \/ \E p \in 1..Len(Trim(s)) : Trim(s)[p] = UserMessage(t)
    <3>1. DOMAIN Hydrated = 1..Len(Hydrated)
      BY <2>2, LenProperties
    <3> QED
      BY <2>1, <2>2, <3>1 DEF UserInCache
  <2>4. Trim(Splice(Trim(s), t, new)) = Trim(Splice(s, t, new))
    BY <1>4, <1>5, <2>2, <2>3, TrimSplice
  <2> QED
    BY <1>1, <1>15, <2>2, <2>4 DEF Spliced, new
<1> QED
  BY <1>17, <1>18, <1>19, <1>20, <1>21, <1>23 DEF ChatInv

\* The two calls that raise, and change the copy in memory alone.
LEMMA RaiseKeeps ==
  ASSUME ChatInv, NEW t \in Turns, pc' = [pc EXCEPT ![t] = "raised"],
         cache' \in Seq(Message), Fits(cache', pc'), drift' = TRUE,
         UNCHANGED <<store, working, groups, restarts>>
  PROVE  ChatInv'
<1>1. /\ pc' \in [Turns -> Places] /\ pc'[t] = "raised"
      /\ \A u \in Turns : u # t => pc'[u] = pc[u]
  <2>1. "raised" \in Places
    BY DEF Places
  <2> QED
    BY <2>1, MoveOne DEF ChatInv
<1>2. ChatTypeOK'
  BY <1>1 DEF ChatInv, ChatTypeOK
<1>3. /\ RowsInv'
      /\ Fits(Listed(store'), pc')
  <2>1. \A u \in Turns : pc[u] # "new" => pc'[u] # "new"
    BY <1>1
  <2>2. \A u \in Turns : Running(pc', u) /\ pc[u] # "new" => Running(pc, u)
    BY <1>1 DEF Running
  <2>3. \A u \in Turns : pc'[u] = "settled" => pc[u] = "settled"
    BY <1>1
  <2> QED
    BY <2>1, <2>2, <2>3, StoredStays
<1>4. AnswerInv'
  <2> SUFFICES ASSUME NEW u \in Turns, pc'[u] = "answered"
               PROVE  Len(working'[u]) >= 1 /\ working'[u][Len(working'[u])] = TextMessage(u)
    BY DEF AnswerInv
  <2>1. pc[u] = "answered" /\ working' = working
    BY <1>1
  <2> QED
    BY <2>1 DEF ChatInv, AnswerInv
<1>7. WholeInv'
  BY <1>1 DEF ChatInv, WholeInv
<1>5. HistoryInv'
  BY <1>3 DEF HistoryInv
<1>6. MirrorInv'
  BY DEF MirrorInv
<1> QED
  BY <1>2, <1>3, <1>4, <1>5, <1>6, <1>7 DEF ChatInv

LEMMA BeginRaisesKeeps ==
  ASSUME ChatInv, NEW t \in Turns, BeginRaises(t)
  PROVE  ChatInv'
<1> DEFINE u == UserMessage(t)
           h == Hydrated
<1>1. h \in Seq(Message) /\ Fits(h, pc)
  BY HydratedIs
<1>2. u \in Message
  BY MessageTypes
<1>3. /\ pc[t] = "new" /\ pc' = [pc EXCEPT ![t] = "raised"]
      /\ cache' = Trim(Append(h, u)) /\ drift' = TRUE
      /\ UNCHANGED <<store, working, groups, restarts>>
  BY DEF BeginRaises, WithUser
<1>4. /\ pc'[t] # "new" /\ pc[t] = "new"
      /\ \A v \in Turns : v # t => pc'[v] = pc[v]
  <2>1. "raised" \in Places
    BY DEF Places
  <2> QED
    BY <1>3, <2>1, MoveOne DEF ChatInv
<1> HIDE DEF h, u
<1>5. Append(h, u) \in Seq(Message)
  BY <1>1, <1>2, AppendProperties
<1>6. Fits(Append(h, u), pc')
  <2>1. \A x \in 1..Len(h) : h[x].turn \in Turns
    BY <1>1, TurnsOfMessages
  <2>2. UserMessage(t) \in Message
    BY <1>2 DEF u
  <2>3. Fits(Append(h, UserMessage(t)), pc')
    BY <1>1, <1>4, <2>1, <2>2, FitsAppend
  <2> QED
    BY <2>3 DEF u
<1>7. cache' \in Seq(Message) /\ Fits(cache', pc')
  BY <1>3, <1>5, <1>6, TrimFits
<1> QED
  BY <1>3, <1>7, RaiseKeeps

LEMMA CommitRaisesKeeps ==
  ASSUME ChatInv, NEW t \in Turns, CommitRaises(t)
  PROVE  ChatInv'
<1>1. /\ pc[t] \in {"answered", "broken"}
      /\ cache' = Spliced(t) /\ drift' = TRUE
      /\ pc' = [pc EXCEPT ![t] = "raised"]
      /\ UNCHANGED <<store, working, groups, restarts>>
  BY DEF CommitRaises
<1>2. Running(pc, t)
  BY <1>1 DEF Running
<1>3. "raised" \in Places
  BY DEF Places
<1>4. Spliced(t) \in Seq(Message) /\ Fits(Spliced(t), pc')
  BY <1>1, <1>2, <1>3, SplicedFits
<1> QED
  BY <1>1, <1>4, RaiseKeeps

LEMMA ClearKeeps ==
  ASSUME ChatInv, ClearHistory
  PROVE  ChatInv'
<1>1. /\ cache' = Unloaded /\ store' = <<>> /\ drift' = FALSE
      /\ UNCHANGED <<pc, working, groups, restarts>>
  BY DEF ClearHistory
<1>2. <<>> \in Seq(Row) /\ Len(<<>>) = 0
  BY EmptySeq
<1>3. ChatTypeOK'
  BY <1>1, <1>2 DEF ChatInv, ChatTypeOK, Row
<1>4. RowsInv'
  BY <1>1, <1>2 DEF RowsInv
<1>5. AnswerInv'
  BY <1>1 DEF ChatInv, AnswerInv
<1>8. WholeInv'
  BY <1>1 DEF ChatInv, WholeInv
<1>6. HistoryInv'
  BY <1>1, ListedNothing, FitsEmpty DEF HistoryInv
<1>7. MirrorInv'
  BY <1>1 DEF MirrorInv
<1> QED
  BY <1>3, <1>4, <1>5, <1>6, <1>7, <1>8 DEF ChatInv

LEMMA RestartKeeps ==
  ASSUME ChatInv, Restart
  PROVE  ChatInv'
<1>1. /\ restarts < MaxRestarts /\ restarts' = restarts + 1
      /\ cache' = Unloaded /\ drift' = FALSE
      /\ pc' = [t \in Turns |-> IF Running(pc, t) THEN "lost" ELSE pc[t]]
      /\ UNCHANGED <<store, working, groups>>
  BY DEF Restart, Active, Running
<1>2. pc' \in [Turns -> Places]
  BY <1>1 DEF ChatInv, ChatTypeOK, Places
<1>3. \A t \in Turns : ~ Running(pc', t) /\ pc'[t] \in {pc[t], "lost"}
  BY <1>1 DEF Running
<1>4. ChatTypeOK'
  <2>1. restarts' \in 0..MaxRestarts
    BY <1>1, ChatTurnsAssumption DEF ChatInv, ChatTypeOK
  <2> QED
    BY <1>1, <1>2, <2>1 DEF ChatInv, ChatTypeOK
<1>5. RowsInv' /\ Fits(Listed(store'), pc')
  <2>1. \A u \in Turns : pc[u] # "new" => pc'[u] # "new"
    BY <1>3
  <2>2. \A u \in Turns : pc'[u] = "settled" => pc[u] = "settled"
    BY <1>3
  <2> QED
    BY <1>1, <1>3, <2>1, <2>2, StoredStays
<1>6. AnswerInv'
  <2> SUFFICES ASSUME NEW u \in Turns, pc'[u] = "answered"
               PROVE  Len(working'[u]) >= 1 /\ working'[u][Len(working'[u])] = TextMessage(u)
    BY DEF AnswerInv
  <2>1. pc[u] = "answered" /\ working' = working
    BY <1>1, <1>3
  <2> QED
    BY <2>1 DEF ChatInv, AnswerInv
<1>9. WholeInv'
  BY <1>1, <1>3 DEF ChatInv, WholeInv
<1>7. HistoryInv'
  BY <1>1, <1>5 DEF HistoryInv
<1>8. MirrorInv'
  BY <1>1 DEF MirrorInv
<1> QED
  BY <1>4, <1>5, <1>6, <1>7, <1>8, <1>9 DEF ChatInv

LEMMA ChatNextInv == ChatInv /\ [ChatNext]_chatVars => ChatInv'
<1> SUFFICES ASSUME ChatInv, [ChatNext]_chatVars PROVE ChatInv'
  OBVIOUS
<1>1. ASSUME NEW t \in Turns, Run(t) PROVE ChatInv'
  <2>1. CASE Begin(t)
    BY <2>1, BeginKeeps
  <2>2. CASE BeginRaises(t)
    BY <2>2, BeginRaisesKeeps
  <2>3. CASE RunGroup(t)
    BY <2>3, RunGroupKeeps
  <2>4. CASE Answer(t)
    BY <2>4, AnswerKeeps
  <2>5. CASE Break(t)
    BY <2>5, BreakKeeps
  <2>6. CASE Commit(t)
    BY <2>6, CommitKeeps
  <2>7. CASE CommitRaises(t)
    BY <2>7, CommitRaisesKeeps
  <2> QED
    BY <1>1, <2>1, <2>2, <2>3, <2>4, <2>5, <2>6, <2>7 DEF Run
<1>2. CASE ClearHistory
  BY <1>2, ClearKeeps
<1>3. CASE Restart
  BY <1>3, RestartKeeps
<1>4. CASE UNCHANGED chatVars
  BY <1>4 DEF chatVars, ChatInv, ChatTypeOK, RowsInv, AnswerInv, WholeInv,
              HistoryInv, MirrorInv, Running
<1> QED
  BY <1>1, <1>2, <1>3, <1>4 DEF ChatNext

LEMMA ChatAlways == ChatSpec => []ChatInv
<1> QED
  BY ChatInitInv, ChatNextInv, PTL DEF ChatSpec

-----------------------------------------------------------------------------
(* The theorems about ChatTurns. *)

\* The state of the conversation and of its threads has its type.
THEOREM ChatTypeCorrect == ChatSpec => []ChatTypeOK
<1>1. ChatInv => ChatTypeOK
  BY DEF ChatInv
<1> QED
  BY <1>1, ChatAlways, PTL

\* Durable turns are distinct, open while their thread runs and not once it
\* has settled; an open turn holds its user message alone, and a completed
\* one ends with its answer and has the result of every call it holds
\* (begin_turn, complete_turn).
THEOREM RowsAlwaysFollow == ChatSpec => []RowsFollowThreads
<1>1. ChatInv => RowsFollowThreads
  <2> SUFFICES ASSUME ChatInv PROVE RowsFollowThreads
    OBVIOUS
  <2>1. DOMAIN store = 1..Len(store)
    BY LenProperties DEF ChatInv, ChatTypeOK
  <2>2. RowsInv
    BY DEF ChatInv
  <2>3. ASSUME NEW i \in 1..Len(store), store[i].status = "completed"
        PROVE  /\ store[i].msgs[Len(store[i].msgs)] = TextMessage(store[i].turn)
               /\ AllAnswered(store[i].msgs)
    <3>1. store \in Seq(Row)
      BY DEF ChatInv, ChatTypeOK, Row
    <3>2. store[i] \in Row
      BY <3>1, ElementOfSeq
    <3>3. DOMAIN store[i].msgs = 1..Len(store[i].msgs)
      BY <3>2, LenProperties DEF Row
    <3>4. Complete(store[i].msgs, store[i].turn)
      BY <2>2, <2>3 DEF RowsInv
    <3> QED
      BY <3>3, <3>4 DEF Complete, OwnAnswered, AllAnswered
  <2> QED
    BY <2>1, <2>2, <2>3 DEF RowsInv, RowsFollowThreads, Active, Running
<1> QED
  BY <1>1, ChatAlways, PTL

\* However many turns overlap, and in whatever order they begin, end, fail or
\* are lost, the messages of each stand together in the shared history
\* (_commit_turn).
THEOREM TurnsAlwaysTogether == ChatSpec => []TurnsStandTogether
<1>1. ChatInv => TurnsStandTogether
  BY DEF ChatInv, HistoryInv, Fits, TurnsStandTogether
<1> QED
  BY <1>1, ChatAlways, PTL

\* The history in memory is what a restart would load, however many turns
\* overlap and in whatever order they begin, end and fail in the loop, until
\* one of the three steps CacheMirrorsStore excuses is taken (a failed
\* begin_turn or complete_turn, the end of a turn that was cleared away, the
\* end of a turn whose user message was trimmed), and again from the next
\* load on.  This is for every limit but 1, the one that keeps everything in
\* memory and loads nothing (_begin_turn and _commit_turn against
\* load_history).
THEOREM CacheAlwaysMirrors ==
  ASSUME MaxHistory # 1
  PROVE  ChatSpec => []CacheMirrorsStore
<1>1. ChatInv => CacheMirrorsStore
  <2> SUFFICES ASSUME ChatInv, cache # Unloaded, ~drift PROVE cache = Load
    BY DEF CacheMirrorsStore
  <2>1. cache = Trim(Listed(store))
    BY DEF ChatInv, MirrorInv
  <2>2. Listed(store) \in Seq(Message)
    BY HydratedIs
  <2>3. LastN(Listed(store), MaxHistory - 1) = Trim(Listed(store))
    BY <2>2, LoadIsEnd
  <2> QED
    BY <2>1, <2>3 DEF Load
<1> QED
  BY <1>1, ChatAlways, PTL

-----------------------------------------------------------------------------
(* Choosing the oldest members of a finite set of numbers. *)

Below(S, n) == {m \in S : m < n}

LEMMA IntervalCount ==
  ASSUME NEW n \in Nat
  PROVE  IsFiniteSet(0..n - 1) /\ Cardinality(0..n - 1) = n
<1>1. 0 \in Int /\ n - 1 \in Int
  OBVIOUS
<1>2. /\ IsFiniteSet(0..n - 1)
      /\ Cardinality(0..n - 1) = IF 0 > n - 1 THEN 0 ELSE (n - 1) - 0 + 1
  BY <1>1, FS_Interval
<1> QED
  BY <1>2

LEMMA BelowFinite ==
  ASSUME NEW S \in SUBSET Nat, IsFiniteSet(S)
  PROVE  \A n \in S : /\ IsFiniteSet(Below(S, n))
                      /\ Cardinality(Below(S, n)) \in 0..Cardinality(S) - 1
<1> TAKE n \in S
<1>1. Below(S, n) \subseteq S \ {n}
  BY DEF Below
<1>2. IsFiniteSet(S \ {n}) /\ Cardinality(S \ {n}) = Cardinality(S) - 1
  BY FS_RemoveElement
<1>3. /\ IsFiniteSet(Below(S, n))
      /\ Cardinality(Below(S, n)) <= Cardinality(S) - 1
  BY <1>1, <1>2, FS_Subset
<1> QED
  BY <1>3, FS_CardinalityType

\* A larger member has more members below it.
LEMMA BelowGrows ==
  ASSUME NEW S \in SUBSET Nat, IsFiniteSet(S), NEW n \in S, NEW k \in S, n < k
  PROVE  Cardinality(Below(S, n)) < Cardinality(Below(S, k))
<1>1. Below(S, n) \subseteq Below(S, k) \ {n} /\ n \in Below(S, k)
  <2>1. \A m \in Below(S, n) : m \in S /\ m < k /\ m # n
    BY DEF Below
  <2> QED
    BY <2>1 DEF Below
<1>2. /\ IsFiniteSet(Below(S, k) \ {n})
      /\ Cardinality(Below(S, k) \ {n}) = Cardinality(Below(S, k)) - 1
  BY <1>1, BelowFinite, FS_RemoveElement
<1>3. Cardinality(Below(S, n)) <= Cardinality(Below(S, k)) - 1
  BY <1>1, <1>2, FS_Subset
<1> QED
  BY <1>3, BelowFinite, FS_CardinalityType

\* Counting the members below is a bijection.
LEMMA Ranks ==
  ASSUME NEW S \in SUBSET Nat, IsFiniteSet(S)
  PROVE  [n \in S |-> Cardinality(Below(S, n))]
           \in Bijection(S, 0..Cardinality(S) - 1)
<1> DEFINE rank == [n \in S |-> Cardinality(Below(S, n))]
           T == 0..Cardinality(S) - 1
<1>1. Cardinality(S) \in Nat
  BY FS_CardinalityType
<1>2. rank \in [S -> T]
  BY BelowFinite
<1>3. \A n, k \in S : rank[n] = rank[k] => n = k
  <2> SUFFICES ASSUME NEW n \in S, NEW k \in S, n # k PROVE rank[n] # rank[k]
    OBVIOUS
  <2>1. n < k \/ k < n
    OBVIOUS
  <2>2. Cardinality(Below(S, n)) \in Nat /\ Cardinality(Below(S, k)) \in Nat
    BY <1>1, BelowFinite
  <2> QED
    BY <2>1, <2>2, BelowGrows
<1>4. rank \in Injection(S, T)
  BY <1>2, <1>3, Fun_IsInj
<1>5. IsFiniteSet(T) /\ Cardinality(T) = Cardinality(S)
  BY <1>1, IntervalCount
<1>6. rank \in Surjection(S, T)
  BY <1>4, <1>5, FS_Injection
<1> QED
  BY <1>4, <1>6 DEF Bijection

\* Of enough members exactly Batch are chosen.
LEMMA OldestCount ==
  ASSUME NEW S \in SUBSET Nat, IsFiniteSet(S), Cardinality(S) >= Batch
  PROVE  Oldest(S) \subseteq S /\ IsFiniteSet(Oldest(S))
           /\ Cardinality(Oldest(S)) = Batch
<1> DEFINE rank == [n \in S |-> Cardinality(Below(S, n))]
           g == [n \in Oldest(S) |-> rank[n]]
           T == 0..Batch - 1
<1>1. Cardinality(S) \in Nat
  BY FS_CardinalityType
<1>2. Oldest(S) = {n \in S : rank[n] < Batch}
  BY DEF Oldest, Below
<1>3. /\ rank \in [S -> 0..Cardinality(S) - 1]
      /\ \A n, k \in S : rank[n] = rank[k] => n = k
      /\ \A t \in 0..Cardinality(S) - 1 : \E n \in S : rank[n] = t
  BY Ranks DEF Bijection, Injection, Surjection, IsInjective
<1>4. g \in [Oldest(S) -> T]
  <2>1. \A n \in Oldest(S) : rank[n] \in T
    <3> SUFFICES ASSUME NEW n \in Oldest(S) PROVE rank[n] \in T
      OBVIOUS
    <3>1. n \in S /\ rank[n] < Batch
      BY <1>2
    <3>2. rank[n] \in 0..Cardinality(S) - 1
      BY <1>3, <3>1
    <3> HIDE DEF rank
    <3> QED
      BY <1>1, <3>1, <3>2, BatchAssumption
  <2> QED
    BY <2>1
<1>5. g \in Injection(Oldest(S), T)
  BY <1>2, <1>3, <1>4, Fun_IsInj
<1>6. \A t \in T : \E n \in Oldest(S) : g[n] = t
  <2> SUFFICES ASSUME NEW t \in T PROVE \E n \in Oldest(S) : rank[n] = t
    OBVIOUS
  <2>1. t \in 0..Cardinality(S) - 1 /\ t < Batch
    BY <1>1, BatchAssumption
  <2>2. PICK n \in S : rank[n] = t
    BY <1>3, <2>1
  <2> HIDE DEF rank
  <2> QED
    BY <1>2, <2>1, <2>2
<1>7. g \in Surjection(Oldest(S), T)
  BY <1>4, <1>6, Fun_IsSurj
<1>8. ExistsBijection(Oldest(S), T)
  BY <1>5, <1>7 DEF ExistsBijection, Bijection
<1>9. IsFiniteSet(Oldest(S)) /\ Oldest(S) \subseteq S
  BY <1>2, FS_Subset
<1>10. Cardinality(T) = Cardinality(Oldest(S))
  BY <1>8, <1>9, FS_Bijection
<1>11. Cardinality(T) = Batch
  BY BatchAssumption, IntervalCount
<1> QED
  BY <1>9, <1>10, <1>11

\* A nonempty finite set of numbers has a first and a last member.
LEMMA Ends ==
  ASSUME NEW S \in SUBSET Nat, IsFiniteSet(S), S # {}
  PROVE  /\ FirstOf(S) \in S /\ \A m \in S : FirstOf(S) <= m
         /\ LastOf(S) \in S  /\ \A m \in S : m <= LastOf(S)
<1> DEFINE rank == [n \in S |-> Cardinality(Below(S, n))]
<1>1. Cardinality(S) \in Nat \ {0}
  BY FS_CardinalityType, FS_EmptySet
<1>2. \A t \in 0..Cardinality(S) - 1 : \E n \in S : rank[n] = t
  BY Ranks DEF Bijection, Surjection
<1>3. \E n \in S : \A m \in S : n <= m
  <2>1. PICK n \in S : rank[n] = 0
    BY <1>1, <1>2
  <2>2. Below(S, n) = {}
    BY <2>1, BelowFinite, FS_EmptySet
  <2> QED
    BY <2>2 DEF Below
<1>4. \E n \in S : \A m \in S : m <= n
  <2>1. PICK n \in S : rank[n] = Cardinality(S) - 1
    BY <1>1, <1>2
  <2>2. Below(S, n) \subseteq S \ {n}
    BY DEF Below
  <2>3. IsFiniteSet(S \ {n}) /\ Cardinality(S \ {n}) = Cardinality(S) - 1
    BY FS_RemoveElement
  <2>4. Below(S, n) = S \ {n}
    BY <2>1, <2>2, <2>3, FS_Subset
  <2> QED
    BY <2>4 DEF Below
<1> QED
  BY <1>3, <1>4 DEF FirstOf, LastOf
-----------------------------------------------------------------------------
(* Type correctness. *)

LEMMA SequencesFinite ==
  ASSUME NEW table \in Seq(Statuses), Len(table) <= MaxTurns,
         NEW S \in SUBSET DOMAIN table
  PROVE  /\ S \in SUBSET TurnNumbers /\ S \in SUBSET Nat
         /\ IsFiniteSet(S) /\ Cardinality(S) \in Nat
<1>1. DOMAIN table = 1..Len(table) /\ Len(table) \in Nat
  BY LenProperties
<1>2. S \subseteq TurnNumbers
  BY <1>1, SummaryBoundsAssumption DEF TurnNumbers
<1>3. IsFiniteSet(1..Len(table))
  BY <1>1, FS_Interval
<1>4. IsFiniteSet(S)
  BY <1>1, <1>3, FS_Subset
<1> QED
  BY <1>2, <1>4, FS_CardinalityType DEF TurnNumbers

LEMMA FreshFinite ==
  ASSUME TypeOK
  PROVE  /\ Fresh \in SUBSET TurnNumbers /\ Fresh \in SUBSET Nat
         /\ IsFiniteSet(Fresh) /\ Cardinality(Fresh) \in Nat
<1>1. Fresh \in SUBSET DOMAIN turns
  BY DEF Fresh
<1> QED
  BY <1>1, SequencesFinite DEF TypeOK

LEMMA FreshFiniteNext ==
  ASSUME TypeOK'
  PROVE  Cardinality(Fresh)' \in Nat
<1>1. Fresh' \in SUBSET DOMAIN turns'
  BY DEF Fresh
<1>2. turns' \in Seq(Statuses) /\ Len(turns') <= MaxTurns
  BY DEF TypeOK
<1> QED
  BY <1>1, <1>2, SequencesFinite

\* The batch that PickBatch takes.
LEMMA PickedBatch ==
  ASSUME TypeOK, Due
  PROVE  /\ Oldest(Fresh) \subseteq Fresh /\ IsFiniteSet(Oldest(Fresh))
         /\ Cardinality(Oldest(Fresh)) = Batch /\ Oldest(Fresh) # {}
BY FreshFinite, OldestCount, FS_EmptySet, BatchAssumption DEF Due

LEMMA BatchEnds ==
  ASSUME TypeOK, worker.stage = "summarising"
  PROVE  /\ FirstOf(worker.batch) \in worker.batch
         /\ LastOf(worker.batch) \in worker.batch
         /\ \A m \in worker.batch :
              FirstOf(worker.batch) <= m /\ m <= LastOf(worker.batch)
<1>1. worker.batch \in SUBSET TurnNumbers /\ worker.batch # {}
  BY DEF TypeOK
<1>2. IsFiniteSet(TurnNumbers)
  BY FS_Interval, SummaryBoundsAssumption DEF TurnNumbers
<1>3. IsFiniteSet(worker.batch)
  BY <1>1, <1>2, FS_Subset
<1>4. worker.batch \in SUBSET Nat
  BY <1>1, SummaryBoundsAssumption DEF TurnNumbers
<1> QED
  BY <1>1, <1>3, <1>4, Ends

\* The summary that StoreSummary writes.
Made == [first |-> FirstOf(worker.batch), last |-> LastOf(worker.batch),
         turns |-> worker.batch, era |-> worker.era]

LEMMA MadeType ==
  ASSUME TypeOK, worker.stage = "summarising"
  PROVE  Made \in Summary
<1>1. worker.batch \in SUBSET TurnNumbers /\ worker.era \in 0..MaxEras
  BY DEF TypeOK
<1> QED
  BY <1>1, BatchEnds DEF Made, Summary

\* A turn changes its status, its place in the table stays.
LEMMA TurnsType ==
  ASSUME TypeOK, NEW n \in running, NEW status \in Statuses
  PROVE  LET new == [turns EXCEPT ![n] = status]
         IN  /\ new \in Seq(Statuses) /\ Len(new) = Len(turns)
             /\ DOMAIN new = DOMAIN turns /\ new[n] = status
             /\ \A k \in DOMAIN turns : k # n => new[k] = turns[k]
<1>1. n \in DOMAIN turns
  BY DEF TypeOK
<1> QED
  BY <1>1 DEF TypeOK

WorkerType == [stage : {"idle", "extracting", "summarising"},
               batch : SUBSET TurnNumbers, era : 0..MaxEras]

LEMMA IdleType == Idle \in WorkerType /\ Idle.stage = "idle"
BY SummaryBoundsAssumption DEF Idle, WorkerType

LEMMA NoTurns ==
  <<>> \in Seq(Statuses) /\ Len(<<>>) = 0 /\ 0 <= MaxTurns
BY EmptySeq, SummaryBoundsAssumption

LEMMA TypeInit == Init => TypeOK
<1> SUFFICES ASSUME Init PROVE TypeOK
  OBVIOUS
<1>1. turns \in Seq(Statuses) /\ Len(turns) <= MaxTurns
  BY NoTurns DEF Init
<1>2. /\ worker \in WorkerType /\ worker.stage = "idle"
      /\ era \in 0..MaxEras
  BY IdleType, SummaryBoundsAssumption DEF Init
<1> QED
  BY <1>1, <1>2 DEF Init, TypeOK, WorkerType

LEMMA TypeNext ==
  ASSUME TypeOK, [Next]_vars
  PROVE  TypeOK'
<1> USE DEF TypeOK
<1>1. CASE BeginTurn
  <2>1. /\ turns' \in Seq(Statuses) /\ Len(turns') = Len(turns) + 1
        /\ DOMAIN turns = 1..Len(turns) /\ DOMAIN turns' = 1..Len(turns) + 1
        /\ Len(turns) \in Nat
    BY <1>1, AppendProperties, LenProperties DEF BeginTurn, Statuses
  <2> QED
    BY <1>1, <2>1, SummaryBoundsAssumption DEF BeginTurn
<1>2. CASE Submit \/ SubmitNothing
  <2>1. CASE Submit
    <3>1. jobs' \in Nat /\ jobs' > 0 /\ owed' \in Nat
      BY <1>2, <2>1 DEF Submit
    <3> QED
      BY <2>1, <3>1 DEF Submit
  <2>2. CASE SubmitNothing
    <3>1. owed' \in Nat
      BY <2>2 DEF SubmitNothing
    <3>2. UNCHANGED <<turns, running, jobs, worker, summaries, era, crashes>>
      BY <2>2 DEF SubmitNothing
    <3>3. hiccup' \in BOOLEAN
      BY <2>2 DEF SubmitNothing
    <3> QED
      BY <3>1, <3>2, <3>3
  <2> QED
    BY <1>2, <2>1, <2>2
<1>3. ASSUME NEW n \in running, CompleteTurn(n) PROVE TypeOK'
  BY <1>3, TurnsType DEF CompleteTurn, Statuses
<1>4. ASSUME NEW n \in running, FailTurn(n) PROVE TypeOK'
  BY <1>4, TurnsType DEF FailTurn, Statuses
<1>5. CASE StartJob
  <2>1. /\ worker' \in WorkerType /\ worker'.stage = "extracting"
        /\ jobs > 0
    BY <1>5, IdleType DEF StartJob, WorkerType
  <2> QED
    BY <1>5, <2>1 DEF StartJob, WorkerType, threadVars
<1>6. CASE LeaveEarly \/ NothingDue \/ SummaryFails
  <2>1. worker' \in WorkerType /\ worker'.stage = "idle"
    BY <1>6, IdleType DEF LeaveEarly, NothingDue, SummaryFails, EndJob
  <2>2. jobs > 0 /\ jobs' = jobs - 1
    BY <1>6 DEF LeaveEarly, NothingDue, SummaryFails, EndJob
  <2>3. UNCHANGED <<threadVars, summaries, era, crashes>> /\ hiccup' \in BOOLEAN
    BY <1>6 DEF LeaveEarly, NothingDue, SummaryFails
  <2> QED
    BY <2>1, <2>2, <2>3 DEF WorkerType, threadVars
<1>7. CASE PickBatch
  BY <1>7, PickedBatch, FreshFinite DEF PickBatch, threadVars
<1>8. CASE StoreSummary
  <2>1. summaries' \subseteq Summary
    BY <1>8, MadeType DEF StoreSummary, Put, Made
  <2> QED
    BY <1>8, <2>1, IdleType DEF StoreSummary, EndJob, WorkerType, threadVars
<1>9. CASE Clear
  <2>1. turns' \in Seq(Statuses) /\ Len(turns') <= MaxTurns
    BY <1>9, NoTurns DEF Clear
  <2>2. era' \in 0..MaxEras
    BY <1>9, SummaryBoundsAssumption DEF Clear
  <2> QED
    BY <1>9, <2>1, <2>2 DEF Clear
<1>10. CASE CrashAndRestart
  <2>1. worker' \in WorkerType /\ worker'.stage = "idle"
    BY <1>10, IdleType DEF CrashAndRestart
  <2> QED
    BY <1>10, <2>1 DEF CrashAndRestart, WorkerType
<1>11. CASE UNCHANGED vars
  BY <1>11 DEF vars
<1> QED
  BY <1>1, <1>2, <1>3, <1>4, <1>5, <1>6, <1>7, <1>8, <1>9, <1>10, <1>11
     DEF Next, Turn, Consolidate

\* Every reachable state is well typed: a job that has begun stays counted
\* until its end, and a summary is only made from a batch that is not empty.
THEOREM TypeCorrect == Spec => []TypeOK
<1>1. Init => TypeOK
  BY TypeInit
<1>2. TypeOK /\ [Next]_vars => TypeOK'
  BY TypeNext
<1> QED
  BY <1>1, <1>2, PTL DEF Spec
-----------------------------------------------------------------------------
(* The inductive invariant. *)

\* A turn that a thread works on is not settled.
RunningIsOpen == \A n \in running : turns[n] = "processing"

\* The batch in hand lies beyond every summary, and its turns are completed
\* as long as the conversation was not cleared.
Hand ==
  worker.stage = "summarising" =>
    /\ Cardinality(worker.batch) = Batch
    /\ \A s \in summaries, n \in worker.batch : s.last < n
    /\ worker.era <= era
    /\ worker.era = era =>
         \A n \in worker.batch : n \in DOMAIN turns /\ turns[n] = "completed"

\* A summary of this era is about turns of the table.
SummarisedInTable ==
  \A s \in summaries :
    s.era <= era /\ (s.era = era => s.turns \subseteq DOMAIN turns)

\* A summary that comes too late for its era takes no fresh turn away; then
\* fewer turns are fresh than jobs are to come.
Slack ==
  worker.stage = "summarising" /\ worker.era # era /\ ~hiccup
    => Cardinality(Fresh) < owed + jobs

SummaryInv ==
  /\ TypeOK /\ RunningIsOpen /\ Hand /\ SummarisedInTable
  /\ RangesAreDisjoint /\ SummariesAreWhole
  /\ SummariesKeepUp /\ Slack

LEMMA InvInit == Init => SummaryInv
<1> SUFFICES ASSUME Init PROVE SummaryInv
  OBVIOUS
<1>1. TypeOK
  BY TypeInit
<1>2. Fresh = {} /\ Cardinality(Fresh) = 0
  BY FS_EmptySet DEF Init, Fresh
<1>3. worker.stage = "idle"
  BY IdleType DEF Init
<1>4. SummariesKeepUp
  BY <1>2, BatchAssumption DEF Init, SummariesKeepUp
<1> QED
  BY <1>1, <1>3, <1>4
     DEF Init, SummaryInv, RunningIsOpen, Hand, SummarisedInTable,
         RangesAreDisjoint, SummariesAreWhole, Slack

\* A step that leaves the era, the summaries and the worker's batch alone,
\* and no completed turn behind, keeps what is said about them.
LEMMA TableSteps ==
  ASSUME SummaryInv, TypeOK', UNCHANGED <<era, summaries>>,
         UNCHANGED worker \/ worker'.stage # "summarising",
         \A n \in DOMAIN turns : /\ n \in DOMAIN turns'
                                 /\ turns[n] = "completed"
                                      => turns'[n] = "completed"
  PROVE  /\ Hand' /\ SummarisedInTable'
         /\ RangesAreDisjoint' /\ SummariesAreWhole'
<1>1. Hand'
  BY DEF SummaryInv, Hand
<1>2. SummarisedInTable'
  BY DEF SummaryInv, SummarisedInTable
<1>3. RangesAreDisjoint'
  BY DEF SummaryInv, RangesAreDisjoint
<1>4. SummariesAreWhole'
  BY DEF SummaryInv, SummariesAreWhole, SummarisedInTable
<1> QED
  BY <1>1, <1>2, <1>3, <1>4
LEMMA LessStaysLess ==
  ASSUME NEW b \in Nat, NEW c \in Nat, NEW d \in Nat, NEW x \in Nat, NEW y \in Nat,
         NEW u \in Nat, NEW v \in Nat, d <= c, u + v >= x + y
  PROVE  c < b + x + y => d < b + u + v
OBVIOUS

\* Fewer fresh turns and no fewer jobs to come keep the backlog small.
LEMMA BacklogShrinks ==
  ASSUME SummaryInv, TypeOK', Fresh' \subseteq Fresh,
         owed' + jobs' >= owed + jobs, UNCHANGED <<hiccup, era>>,
         UNCHANGED worker \/ worker'.stage # "summarising"
  PROVE  SummariesKeepUp' /\ Slack'
<1>1. /\ IsFiniteSet(Fresh) /\ Cardinality(Fresh) \in Nat
      /\ Cardinality(Fresh)' \in Nat
  BY FreshFinite, FreshFiniteNext DEF SummaryInv
<1>2. Cardinality(Fresh)' <= Cardinality(Fresh)
  BY <1>1, FS_Subset
<1>3. owed \in Nat /\ jobs \in Nat /\ owed' \in Nat /\ jobs' \in Nat
  BY DEF SummaryInv, TypeOK
<1>4. SummariesKeepUp'
  <2> SUFFICES ASSUME ~hiccup' PROVE Cardinality(Fresh)' < Batch + owed' + jobs'
    BY DEF SummariesKeepUp
  <2>1. Cardinality(Fresh) < Batch + owed + jobs
    BY DEF SummaryInv, SummariesKeepUp
  <2> QED
    BY <1>1, <1>2, <1>3, <2>1, BatchAssumption, LessStaysLess
<1>5. Slack'
  <2> SUFFICES ASSUME worker'.stage = "summarising", worker'.era # era', ~hiccup'
               PROVE  Cardinality(Fresh)' < owed' + jobs'
    BY DEF Slack
  <2>1. Cardinality(Fresh) < owed + jobs
    BY DEF SummaryInv, Slack
  <2>2. Cardinality(Fresh) < 0 + owed + jobs /\ 0 \in Nat
    BY <1>3, <2>1
  <2>3. Cardinality(Fresh)' < 0 + owed' + jobs'
    BY <1>1, <1>2, <1>3, <2>2, LessStaysLess
  <2> QED
    BY <1>3, <2>3
<1> QED
  BY <1>4, <1>5

LEMMA BeginStep ==
  ASSUME SummaryInv, TypeOK', BeginTurn
  PROVE  SummaryInv'
<1>1. /\ turns \in Seq(Statuses) /\ Len(turns) \in Nat
      /\ DOMAIN turns = 1..Len(turns) /\ running \subseteq DOMAIN turns
  BY LenProperties DEF SummaryInv, TypeOK
<1>2. /\ DOMAIN turns' = 1..Len(turns) + 1
      /\ \A n \in DOMAIN turns : turns'[n] = turns[n]
      /\ turns'[Len(turns) + 1] = "processing"
  BY <1>1, AppendProperties, LenProperties DEF BeginTurn, Statuses
<1>3. RunningIsOpen'
  BY <1>1, <1>2 DEF BeginTurn, SummaryInv, RunningIsOpen
<1>4. Fresh' \subseteq Fresh
  BY <1>1, <1>2 DEF BeginTurn, Fresh
<1>5. Hand' /\ SummarisedInTable' /\ RangesAreDisjoint' /\ SummariesAreWhole'
  BY <1>1, <1>2, TableSteps DEF BeginTurn
<1>6. SummariesKeepUp' /\ Slack'
  BY <1>4, BacklogShrinks DEF BeginTurn, SummaryInv, TypeOK
<1> QED
  BY <1>3, <1>5, <1>6 DEF SummaryInv

LEMMA FailStep ==
  ASSUME SummaryInv, TypeOK', NEW n \in running, FailTurn(n)
  PROVE  SummaryInv'
<1>1. n \in DOMAIN turns /\ turns[n] = "processing"
  BY DEF SummaryInv, RunningIsOpen, TypeOK
<1>2. /\ DOMAIN turns' = DOMAIN turns
      /\ \A k \in DOMAIN turns : k # n => turns'[k] = turns[k]
      /\ turns'[n] # "completed"
  BY <1>1 DEF FailTurn
<1>3. RunningIsOpen'
  BY <1>2 DEF FailTurn, SummaryInv, RunningIsOpen, TypeOK
<1>4. Fresh' \subseteq Fresh
  BY <1>1, <1>2 DEF FailTurn, Fresh
<1>5. Hand' /\ SummarisedInTable' /\ RangesAreDisjoint' /\ SummariesAreWhole'
  BY <1>1, <1>2, TableSteps DEF FailTurn
<1>6. SummariesKeepUp' /\ Slack'
  BY <1>4, BacklogShrinks DEF FailTurn, SummaryInv, TypeOK
<1> QED
  BY <1>3, <1>5, <1>6 DEF SummaryInv

\* One fresh turn more, and one job more to come.
LEMMA CompleteStep ==
  ASSUME SummaryInv, TypeOK', NEW n \in running, CompleteTurn(n)
  PROVE  SummaryInv'
<1>1. n \in DOMAIN turns /\ turns[n] = "processing"
  BY DEF SummaryInv, RunningIsOpen, TypeOK
<1>2. /\ DOMAIN turns' = DOMAIN turns /\ turns'[n] = "completed"
      /\ \A k \in DOMAIN turns : k # n => turns'[k] = turns[k]
  BY <1>1 DEF CompleteTurn
<1>3. RunningIsOpen'
  BY <1>2 DEF CompleteTurn, SummaryInv, RunningIsOpen, TypeOK
<1>4. Fresh' \subseteq Fresh \cup {n}
  BY <1>1, <1>2 DEF CompleteTurn, Fresh
<1>5. Hand' /\ SummarisedInTable' /\ RangesAreDisjoint' /\ SummariesAreWhole'
  BY <1>1, <1>2, TableSteps DEF CompleteTurn
<1>6. /\ IsFiniteSet(Fresh) /\ Cardinality(Fresh) \in Nat
      /\ Cardinality(Fresh)' \in Nat
  BY FreshFinite, FreshFiniteNext DEF SummaryInv
<1>7. /\ IsFiniteSet(Fresh \cup {n})
      /\ Cardinality(Fresh \cup {n}) <= Cardinality(Fresh) + 1
  BY <1>6, FS_AddElement
<1>8. Cardinality(Fresh)' <= Cardinality(Fresh) + 1
  <2>1. Cardinality(Fresh)' <= Cardinality(Fresh \cup {n})
    BY <1>4, <1>7, FS_Subset
  <2> QED
    BY <1>6, <1>7, <2>1, FS_CardinalityType
<1>9. /\ owed' = owed + 1 /\ owed \in Nat
      /\ UNCHANGED <<jobs, worker, era, hiccup>> /\ jobs \in Nat
  BY DEF CompleteTurn, SummaryInv, TypeOK
<1>10. SummariesKeepUp'
  BY <1>6, <1>8, <1>9, BatchAssumption DEF SummaryInv, SummariesKeepUp
<1>11. Slack'
  BY <1>6, <1>8, <1>9 DEF SummaryInv, Slack
<1> QED
  BY <1>3, <1>5, <1>10, <1>11 DEF SummaryInv

LEMMA SubmitStep ==
  ASSUME SummaryInv, TypeOK', Submit \/ SubmitNothing
  PROVE  SummaryInv'
<1>1. UNCHANGED <<turns, running, worker, summaries, era, crashes>>
  BY DEF Submit, SubmitNothing
<1>2. RunningIsOpen' /\ Fresh' = Fresh
  BY <1>1 DEF SummaryInv, RunningIsOpen, Fresh
<1>3. Hand' /\ SummarisedInTable' /\ RangesAreDisjoint' /\ SummariesAreWhole'
  BY <1>1, TableSteps
<1>4. SummariesKeepUp' /\ Slack'
  <2>1. CASE Submit
    <3>1. owed' + jobs' >= owed + jobs /\ UNCHANGED hiccup
      BY <2>1 DEF Submit, SummaryInv, TypeOK
    <3> QED
      BY <1>1, <1>2, <3>1, BacklogShrinks
  <2>2. CASE SubmitNothing
    BY <2>2 DEF SubmitNothing, SummariesKeepUp, Slack
  <2> QED
    BY <2>1, <2>2
<1> QED
  BY <1>2, <1>3, <1>4 DEF SummaryInv
\* A job ends without a summary, or goes on to read the table.
LEMMA LeaveStep ==
  ASSUME SummaryInv, TypeOK', StartJob \/ LeaveEarly \/ NothingDue \/ SummaryFails
  PROVE  SummaryInv'
<1>1. UNCHANGED <<turns, running, owed, summaries, era, crashes>>
  BY DEF StartJob, LeaveEarly, NothingDue, SummaryFails, threadVars
<1>2. worker'.stage # "summarising"
  BY IdleType DEF StartJob, LeaveEarly, NothingDue, SummaryFails, EndJob, Idle
<1>3. RunningIsOpen' /\ Fresh' = Fresh
  BY <1>1 DEF SummaryInv, RunningIsOpen, Fresh
<1>4. Hand' /\ SummarisedInTable' /\ RangesAreDisjoint' /\ SummariesAreWhole'
  BY <1>1, <1>2, TableSteps
<1>5. Slack'
  BY <1>2 DEF Slack
<1>6. owed \in Nat /\ jobs \in Nat /\ jobs' \in Nat
  BY DEF SummaryInv, TypeOK
<1>7. Cardinality(Fresh) \in Nat
  BY FreshFinite DEF SummaryInv
<1>8. SummariesKeepUp'
  <2>1. CASE StartJob
    BY <1>1, <1>3, <2>1 DEF StartJob, SummaryInv, SummariesKeepUp
  <2>2. CASE LeaveEarly \/ SummaryFails
    BY <2>2 DEF LeaveEarly, SummaryFails, SummariesKeepUp
  <2>3. CASE NothingDue
    <3>1. Cardinality(Fresh) < Batch
      BY <1>7, <2>3, BatchAssumption DEF NothingDue, Due
    <3> QED
      BY <1>1, <1>3, <1>6, <1>7, <3>1, BatchAssumption DEF SummariesKeepUp
  <2> QED
    BY <2>1, <2>2, <2>3
<1> QED
  BY <1>3, <1>4, <1>5, <1>8 DEF SummaryInv

LEMMA PickStep ==
  ASSUME SummaryInv, TypeOK', PickBatch
  PROVE  SummaryInv'
<1>1. /\ UNCHANGED <<turns, running, owed, jobs, summaries, era, hiccup>>
      /\ worker' = [stage |-> "summarising", batch |-> Oldest(Fresh),
                    era |-> era]
      /\ Due
  BY DEF PickBatch, threadVars
<1>2. /\ Oldest(Fresh) \subseteq Fresh
      /\ Cardinality(Oldest(Fresh)) = Batch
  BY <1>1, PickedBatch DEF SummaryInv
<1>3. RunningIsOpen' /\ Fresh' = Fresh
  BY <1>1 DEF SummaryInv, RunningIsOpen, Fresh
<1>4. Hand'
  <2>1. \A n \in Oldest(Fresh) :
          /\ n \in DOMAIN turns /\ turns[n] = "completed"
          /\ \A s \in summaries : n > s.last
    BY <1>2 DEF Fresh
  <2>2. \A n \in Oldest(Fresh), s \in summaries : s.last < n
    BY <2>1
  <2>3. worker'.batch = Oldest(Fresh) /\ worker'.era = era /\ era' <= era'
    BY <1>1 DEF SummaryInv, TypeOK
  <2> QED
    BY <1>1, <1>2, <2>1, <2>2, <2>3 DEF Hand
<1>5. SummarisedInTable' /\ RangesAreDisjoint' /\ SummariesAreWhole'
  BY <1>1
     DEF SummaryInv, SummarisedInTable, RangesAreDisjoint, SummariesAreWhole
<1>6. SummariesKeepUp'
  BY <1>1, <1>3 DEF SummaryInv, SummariesKeepUp
<1>7. Slack'
  BY <1>1 DEF Slack
<1> QED
  BY <1>3, <1>4, <1>5, <1>6, <1>7 DEF SummaryInv

LEMMA ClearStep ==
  ASSUME SummaryInv, TypeOK', Clear
  PROVE  SummaryInv'
<1>1. /\ turns' = <<>> /\ running' = {} /\ era' = era + 1 /\ era \in Nat
      /\ UNCHANGED <<owed, jobs, worker, summaries, hiccup>>
  BY DEF Clear, SummaryInv, TypeOK
<1>2. RunningIsOpen'
  BY <1>1 DEF RunningIsOpen
<1>3. Fresh' = {} /\ Cardinality(Fresh)' = 0
  <2>1. DOMAIN turns' = {}
    BY <1>1
  <2>2. Fresh' = {}
    BY <2>1 DEF Fresh
  <2> QED
    BY <2>2, FS_EmptySet
<1>4. worker.era \in Nat /\ \A s \in summaries : s.era \in Nat
  BY SummaryBoundsAssumption DEF SummaryInv, TypeOK, Summary
<1>5. Hand'
  BY <1>1, <1>4 DEF SummaryInv, Hand
<1>6. SummarisedInTable' /\ RangesAreDisjoint' /\ SummariesAreWhole'
  <2>1. \A s \in summaries : s.era <= era' /\ s.era # era'
    BY <1>1, <1>4 DEF SummaryInv, SummarisedInTable
  <2>2. SummarisedInTable'
    BY <1>1, <2>1 DEF SummarisedInTable
  <2>3. SummariesAreWhole'
    BY <1>1, <2>1 DEF SummaryInv, SummariesAreWhole
  <2> QED
    BY <1>1, <2>2, <2>3 DEF SummaryInv, RangesAreDisjoint
<1>7. owed \in Nat /\ jobs \in Nat /\ (worker.stage # "idle" => jobs > 0)
  BY DEF SummaryInv, TypeOK
<1>8. SummariesKeepUp'
  BY <1>1, <1>3, <1>7, BatchAssumption DEF SummariesKeepUp
<1>9. Slack'
  BY <1>1, <1>3, <1>7 DEF Slack
<1> QED
  BY <1>2, <1>5, <1>6, <1>8, <1>9 DEF SummaryInv

LEMMA CrashStep ==
  ASSUME SummaryInv, TypeOK', CrashAndRestart
  PROVE  SummaryInv'
<1>1. /\ UNCHANGED <<turns, summaries, era>> /\ running' = {}
      /\ owed' = 0 /\ jobs' = 0 /\ worker'.stage = "idle"
      /\ hiccup' = (hiccup \/ owed > 0 \/ jobs > 0)
  BY IdleType DEF CrashAndRestart
<1>2. RunningIsOpen' /\ Fresh' = Fresh
  BY <1>1 DEF RunningIsOpen, Fresh
<1>3. Hand' /\ SummarisedInTable' /\ RangesAreDisjoint' /\ SummariesAreWhole'
  BY <1>1, TableSteps
<1>4. Slack'
  BY <1>1 DEF Slack
<1>5. SummariesKeepUp'
  <2> SUFFICES ASSUME ~hiccup' PROVE Cardinality(Fresh) < Batch + 0 + 0
    BY <1>1, <1>2 DEF SummariesKeepUp
  <2>1. ~hiccup /\ ~(owed > 0) /\ ~(jobs > 0)
    BY <1>1
  <2>2. owed = 0 /\ jobs = 0
    BY <2>1 DEF SummaryInv, TypeOK
  <2> QED
    BY <2>1, <2>2 DEF SummaryInv, SummariesKeepUp
<1> QED
  BY <1>2, <1>3, <1>4, <1>5 DEF SummaryInv
\* A summary made in its own era takes its whole batch from the fresh turns.
LEMMA StoreStep ==
  ASSUME SummaryInv, TypeOK', StoreSummary
  PROVE  SummaryInv'
<1>1. /\ UNCHANGED <<turns, running, owed, era, hiccup>>
      /\ worker.stage = "summarising" /\ worker'.stage = "idle"
      /\ summaries' = Put(Made) /\ jobs' = jobs - 1
  BY IdleType DEF StoreSummary, EndJob, threadVars, Made
<1>2. /\ worker.batch \in SUBSET TurnNumbers /\ worker.era \in 0..MaxEras
      /\ worker.batch \in SUBSET Nat
  BY DEF SummaryInv, TypeOK, TurnNumbers
<1>3. /\ Made.first \in worker.batch /\ Made.last \in worker.batch
      /\ \A m \in worker.batch : Made.first <= m /\ m <= Made.last
      /\ Made.turns = worker.batch /\ Made.era = worker.era
  BY <1>1, BatchEnds DEF Made, SummaryInv
<1>4. /\ Cardinality(worker.batch) = Batch
      /\ \A s \in summaries, n \in worker.batch : s.last < n
      /\ worker.era <= era
      /\ worker.era = era =>
           \A n \in worker.batch : n \in DOMAIN turns /\ turns[n] = "completed"
  BY <1>1 DEF SummaryInv, Hand
<1>5. /\ \A s \in summaries' : s \in summaries \/ s = Made
      /\ Made \in summaries'
      /\ \A s \in summaries : s \in summaries' \/ s.last = Made.last
  BY <1>1 DEF Put
<1>6. RunningIsOpen' /\ Hand' /\ Slack'
  BY <1>1 DEF SummaryInv, RunningIsOpen, Hand, Slack
<1>7. SummarisedInTable'
  <2> SUFFICES ASSUME NEW s \in summaries'
               PROVE  s.era <= era /\ (s.era = era => s.turns \subseteq DOMAIN turns)
    BY <1>1 DEF SummarisedInTable
  <2>1. CASE s \in summaries
    BY <2>1 DEF SummaryInv, SummarisedInTable
  <2>2. CASE s = Made
    BY <1>3, <1>4, <2>2
  <2> QED
    BY <1>5, <2>1, <2>2
<1>8. RangesAreDisjoint'
  <2> SUFFICES ASSUME NEW s \in summaries', NEW r \in summaries'
               PROVE  s = r \/ s.last < r.first \/ r.last < s.first
    BY DEF RangesAreDisjoint
  <2>1. CASE s \in summaries /\ r \in summaries
    BY <2>1 DEF SummaryInv, RangesAreDisjoint
  <2>2. CASE s \in summaries /\ r = Made
    BY <1>3, <1>4, <2>2
  <2>3. CASE s = Made /\ r \in summaries
    BY <1>3, <1>4, <2>3
  <2> QED
    BY <1>5, <2>1, <2>2, <2>3
<1>9. SummariesAreWhole'
  <2> SUFFICES ASSUME NEW s \in summaries'
               PROVE  /\ Cardinality(s.turns) = Batch
                      /\ {s.first, s.last} \subseteq s.turns
                      /\ s.turns \subseteq s.first..s.last
                      /\ s.era = era => \A n \in s.turns : turns[n] = "completed"
    BY <1>1 DEF SummariesAreWhole
  <2>1. CASE s \in summaries
    BY <2>1 DEF SummaryInv, SummariesAreWhole
  <2>2. CASE s = Made
    <3>1. s.turns \subseteq s.first..s.last
      BY <1>2, <1>3, <2>2
    <3> QED
      BY <1>3, <1>4, <2>2, <3>1
  <2> QED
    BY <1>5, <2>1, <2>2
<1>10. /\ IsFiniteSet(Fresh) /\ Cardinality(Fresh) \in Nat
       /\ Cardinality(Fresh)' \in Nat
       /\ owed \in Nat /\ jobs \in Nat /\ jobs > 0
  BY <1>1, FreshFinite, FreshFiniteNext DEF SummaryInv, TypeOK
<1>11. Fresh' \subseteq Fresh \ worker.batch
  <2> SUFFICES ASSUME NEW n \in Fresh' PROVE n \in Fresh /\ n \notin worker.batch
    OBVIOUS
  <2>1. /\ n \in DOMAIN turns /\ turns[n] = "completed"
        /\ \A s \in summaries' : n > s.last
    BY <1>1 DEF Fresh
  <2>2. n > Made.last
    BY <1>5, <2>1
  <2>3. n \notin worker.batch
    <3> SUFFICES ASSUME n \in worker.batch PROVE FALSE
      OBVIOUS
    <3>1. n <= Made.last /\ n \in Nat /\ Made.last \in Nat
      BY <1>2, <1>3
    <3> QED
      BY <2>2, <3>1
  <2>4. \A s \in summaries : n > s.last
    BY <1>5, <2>1, <2>2
  <2> QED
    BY <2>1, <2>3, <2>4 DEF Fresh
<1>12. SummariesKeepUp'
  <2> SUFFICES ASSUME ~hiccup
               PROVE  Cardinality(Fresh)' < Batch + owed + (jobs - 1)
    BY <1>1 DEF SummariesKeepUp
  <2>1. CASE worker.era = era
    <3>1. worker.batch \subseteq Fresh
      BY <1>2, <1>4, <2>1 DEF Fresh, SummaryInv, TypeOK, Summary, TurnNumbers
    <3>2. /\ IsFiniteSet(Fresh \ worker.batch)
          /\ Cardinality(Fresh \ worker.batch) = Cardinality(Fresh) - Batch
      <4>1. Fresh \cap worker.batch = worker.batch
        BY <3>1
      <4>2. IsFiniteSet(Fresh) /\ Cardinality(worker.batch) = Batch
        BY <1>4, <1>10
      <4>3. /\ IsFiniteSet(Fresh \ worker.batch)
            /\ Cardinality(Fresh \ worker.batch)
                 = Cardinality(Fresh) - Cardinality(Fresh \cap worker.batch)
        BY <4>2, FS_Difference, Zenon
      <4> QED
        BY <4>1, <4>2, <4>3
    <3>3. Cardinality(Fresh)' <= Cardinality(Fresh) - Batch
      BY <1>11, <3>2, FS_Subset
    <3>4. Cardinality(Fresh) < Batch + owed + jobs
      BY DEF SummaryInv, SummariesKeepUp
    <3> QED
      BY <1>10, <3>3, <3>4, BatchAssumption
  <2>2. CASE worker.era # era
    <3>1. Cardinality(Fresh) < owed + jobs
      BY <1>1, <2>2 DEF SummaryInv, Slack
    <3>2. Cardinality(Fresh)' <= Cardinality(Fresh)
      BY <1>10, <1>11, FS_Subset
    <3> QED
      BY <1>10, <3>1, <3>2, BatchAssumption
  <2> QED
    BY <2>1, <2>2
<1> QED
  BY <1>6, <1>7, <1>8, <1>9, <1>12 DEF SummaryInv

LEMMA InvNext ==
  ASSUME SummaryInv, [Next]_vars
  PROVE  SummaryInv'
<1>1. TypeOK'
  BY TypeNext DEF SummaryInv
<1>2. CASE UNCHANGED vars
  BY <1>1, <1>2
     DEF vars, SummaryInv, RunningIsOpen, Hand, SummarisedInTable, Fresh,
         RangesAreDisjoint, SummariesAreWhole, SummariesKeepUp, Slack
<1> QED
  BY <1>1, <1>2, BeginStep, CompleteStep, FailStep, SubmitStep, LeaveStep,
     PickStep, StoreStep, ClearStep, CrashStep
     DEF Next, Turn, Consolidate

LEMMA InvCorrect == Spec => []SummaryInv
<1>1. Init => SummaryInv
  BY InvInit
<1>2. SummaryInv /\ [Next]_vars => SummaryInv'
  BY InvNext
<1> QED
  BY <1>1, <1>2, PTL DEF Spec

\* No two summaries cover a common stretch of the conversation, whatever
\* completes or is cleared between reading a batch and storing its summary.
THEOREM RangesAlwaysDisjoint == Spec => []RangesAreDisjoint
BY InvCorrect, PTL DEF SummaryInv

\* Every summary is made from exactly Batch completed turns of its range.
THEOREM SummariesAlwaysWhole == Spec => []SummariesAreWhole
BY InvCorrect, PTL DEF SummaryInv

\* The consolidator keeps up: while every job ran through, a full batch is
\* only left waiting when a job is still to come.
THEOREM AlwaysKeepsUp == Spec => []SummariesKeepUp
BY InvCorrect, PTL DEF SummaryInv
=============================================================================
