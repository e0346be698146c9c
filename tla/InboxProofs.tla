---------------------------- MODULE InboxProofs ----------------------------
(***************************************************************************)
(* Theorems about Inbox, for every set of requests, every table size and   *)
(* any number of deliveries, threads and crashes.                          *)
(***************************************************************************)
EXTENDS Inbox, FiniteSetTheorems, FunctionTheorems, SequenceTheorems, TLAPS

-----------------------------------------------------------------------------
(* Type correctness. *)

LEMMA HandleType == \A p \in Posts : HandleOf(p) \in Handles \cup {NoHandle}
BY BodyAssumption DEF HandleOf, Request

\* Rowids never exceed the number of claims, and every set of rows has one
\* with the largest rowid (so that the next rowid exists).
RowidsOrdered ==
  /\ \A r \in seen : r.rowid <= claimed
  /\ \A T \in SUBSET seen :
       T # {} => \E r \in T : \A q \in T : q.rowid <= r.rowid

\* The rowid of a new row is above all others.
LEMMA NextRowidBounds ==
  ASSUME seen \subseteq Row, claimed \in Nat, RowidsOrdered
  PROVE  /\ NextRowid \in 1..claimed + 1
         /\ \A r \in seen : r.rowid < NextRowid
<1> DEFINE Candidates == {1} \cup {r.rowid + 1 : r \in seen}
           P(x) == \A r \in seen : r.rowid < x
<1>1. \A r \in seen : r.rowid \in Nat \ {0} /\ r.rowid <= claimed
  BY DEF Row, RowidsOrdered
<1>2. \E x \in Candidates : P(x)
  <2>1. CASE seen = {}
    BY <2>1
  <2>2. CASE seen # {}
    <3>1. PICK q \in seen : \A r \in seen : r.rowid <= q.rowid
      BY <2>2 DEF RowidsOrdered
    <3> QED
      BY <1>1, <3>1
  <2> QED
    BY <2>1, <2>2
<1>3. NextRowid = CHOOSE x \in Candidates : P(x)
  BY DEF NextRowid
<1>4. NextRowid \in Candidates /\ P(NextRowid)
  <2> HIDE DEF Candidates, P
  <2> QED
    BY <1>2, <1>3
<1> QED
  BY <1>1, <1>4

\* The row that Claim inserts.
ClaimRow(p, now) == [handle |-> HandleOf(p), at |-> now, rowid |-> NextRowid]

Queued(p, c) == [post |-> p, claim |-> c, state |-> "queued"]

\* The effect of a claim on the table and the tasks.
Claims(p, now) ==
  /\ HandleOf(p) \in Handles /\ ~IsClaimed(HandleOf(p))
  /\ ClockMayStepBack \/ now >= clock
  /\ clock' = now
  /\ seen' = Newest(seen \cup {ClaimRow(p, now)})
  /\ claimed' = claimed + 1
  /\ tasks' = Append(tasks, Queued(p, claimed + 1))

\* The tasks move on but stay the same tasks.
TasksMoveOn ==
  /\ DOMAIN tasks' = DOMAIN tasks
  /\ \A i \in DOMAIN tasks : /\ tasks'[i].post = tasks[i].post
                             /\ tasks'[i].claim = tasks[i].claim

BaseInv == TypeOK /\ RowidsOrdered

\* What a step does to the table and the tasks.
LEMMA Steps ==
  ASSUME TypeOK, [Next]_vars
  PROVE  \/ UNCHANGED dbVars /\ TasksMoveOn
         \/ \E p \in Posts : /\ HandleOf(p) = NoHandle
                             /\ tasks' = Append(tasks, Queued(p, 0))
                             /\ UNCHANGED dbVars
         \/ \E p \in Posts, now \in Times : Claims(p, now)
<1>1. ASSUME UNCHANGED tasks PROVE TasksMoveOn
  BY <1>1 DEF TasksMoveOn
<1>2. ASSUME NEW p \in Posts,
             \/ Send(p) \/ LoseRequest(p) \/ Reject(p) \/ Ignore(p)
             \/ IgnoreDuplicate(p) \/ ClaimFails(p)
      PROVE  UNCHANGED dbVars /\ TasksMoveOn
  BY <1>1, <1>2 DEF Send, LoseRequest, Reject, Ignore, IgnoreDuplicate,
                    ClaimFails
<1>3. ASSUME NEW p \in Posts, AcceptUnclaimed(p)
      PROVE  /\ HandleOf(p) = NoHandle
             /\ tasks' = Append(tasks, Queued(p, 0))
             /\ UNCHANGED dbVars
  BY <1>3 DEF AcceptUnclaimed, AddTask, Queued
<1>4. ASSUME NEW p \in Posts, Claim(p)
      PROVE  \E now \in Times : Claims(p, now)
  <2>1. HandleOf(p) \in Handles
    BY <1>4, HandleType DEF Claim
  <2> QED
    BY <1>4, <2>1 DEF Claim, Claims, ClaimRow, AddTask, Queued
<1>5. \A i \in DOMAIN tasks : tasks[i] \in Task
  BY DEF TypeOK
<1>6. ASSUME NEW i \in DOMAIN tasks, StartTask(i) \/ FinishTask(i)
      PROVE  UNCHANGED dbVars /\ TasksMoveOn
  BY <1>5, <1>6 DEF StartTask, FinishTask, TasksMoveOn, Task
<1>7. ASSUME Crash
      PROVE  UNCHANGED dbVars /\ TasksMoveOn
  BY <1>5, <1>7 DEF Crash, TasksMoveOn, Task
<1>8. CASE Restart \/ UNCHANGED vars
  BY <1>1, <1>8 DEF Restart, vars, dbVars
<1>9. CASE Environment
  BY <1>2, <1>9 DEF Environment
<1>10. CASE HandleReceive
  BY <1>2, <1>3, <1>4, <1>10 DEF HandleReceive
<1>11. CASE RunTasks
  BY <1>6, <1>11 DEF RunTasks
<1> QED
  BY <1>7, <1>8, <1>9, <1>10, <1>11 DEF Next

\* Appending a task keeps the earlier ones.
LEMMA AppendTask ==
  ASSUME tasks \in Seq(Task), NEW p \in Posts, NEW c \in Nat,
         tasks' = Append(tasks, Queued(p, c))
  PROVE  /\ tasks' \in Seq(Task)
         /\ DOMAIN tasks' = DOMAIN tasks \cup {Len(tasks) + 1}
         /\ tasks'[Len(tasks) + 1] = Queued(p, c)
         /\ \A i \in DOMAIN tasks : tasks'[i] = tasks[i]
         /\ \A i \in DOMAIN tasks : i \in Nat /\ i < Len(tasks) + 1
         /\ Len(tasks) + 1 \in Nat
<1> DEFINE new == Queued(p, c)
<1>1. new \in Task
  BY DEF Queued, Task
<1> HIDE DEF new
<1>2. tasks' = Append(tasks, new)
  BY DEF new
<1>3. tasks' \in Seq(Task) /\ Len(tasks') = Len(tasks) + 1
  BY <1>1, <1>2, AppendProperties
<1> QED
  BY <1>1, <1>2, <1>3, AppendProperties DEF new

LEMMA ClaimKeepsBase ==
  ASSUME BaseInv, NEW p \in Posts, NEW now \in Times, Claims(p, now)
  PROVE  /\ RowidsOrdered' /\ seen' \subseteq Row
         /\ clock' \in Times /\ claimed' \in Nat
<1> DEFINE new == ClaimRow(p, now)
<1>1. seen \subseteq Row /\ claimed \in Nat /\ RowidsOrdered
  BY DEF BaseInv, TypeOK
<1>2. /\ NextRowid \in 1..claimed + 1
      /\ \A r \in seen : r.rowid < NextRowid
  BY <1>1, NextRowidBounds
<1>3. new \in Row /\ new.rowid = NextRowid
  BY <1>1, <1>2 DEF ClaimRow, Row, Claims
<1> HIDE DEF new
<1>4. seen' \subseteq seen \cup {new}
  BY DEF Claims, Newest, new
<1>5. claimed' = claimed + 1 /\ clock' = now
  BY DEF Claims
<1>6. \A r \in seen : r.rowid \in Nat /\ r.rowid <= claimed
  BY <1>1 DEF Row, RowidsOrdered
<1>7. \A r \in seen' : r.rowid <= claimed'
  BY <1>1, <1>2, <1>3, <1>4, <1>5, <1>6
<1>8. ASSUME NEW T \in SUBSET seen', T # {}
      PROVE  \E r \in T : \A q \in T : q.rowid <= r.rowid
  <2>1. CASE new \in T
    <3>1. \A q \in T : q.rowid <= new.rowid
      BY <1>1, <1>2, <1>3, <1>4, <1>6
    <3> QED
      BY <2>1, <3>1
  <2>2. CASE new \notin T
    <3>1. T \in SUBSET seen
      BY <1>4, <2>2
    <3> QED
      BY <1>1, <1>8, <3>1 DEF RowidsOrdered
  <2> QED
    BY <2>1, <2>2
<1> QED
  BY <1>1, <1>3, <1>4, <1>5, <1>7, <1>8 DEF RowidsOrdered

\* The part of TypeOK that does not concern the table or the tasks.
EnvType ==
  /\ up \in BOOLEAN /\ transit \in [Posts -> Nat] /\ sent \in Nat
  /\ confirmed \subseteq Posts /\ crashes \in Nat
  /\ answer \in [post : Posts, verdict : Verdict] \cup {NoAnswer}

LEMMA BaseNext == BaseInv /\ [Next]_vars => BaseInv'
<1> SUFFICES ASSUME BaseInv, [Next]_vars PROVE BaseInv'
  OBVIOUS
<1> USE DEF BaseInv
<1>1. /\ RowidsOrdered' /\ seen' \subseteq Row /\ clock' \in Times
      /\ claimed' \in Nat
  <2>1. CASE UNCHANGED dbVars
    BY <2>1 DEF dbVars, TypeOK, RowidsOrdered
  <2> QED
    BY <2>1, Steps, ClaimKeepsBase
<1>2. \A i \in DOMAIN tasks : tasks[i] \in Task
  BY DEF TypeOK
<1>3. tasks' \in Seq(Task)
  <2>1. CASE UNCHANGED tasks
    BY <2>1 DEF TypeOK
  <2>2. ASSUME NEW p \in Posts, NEW c \in Nat,
               tasks' = Append(tasks, Queued(p, c))
        PROVE  tasks' \in Seq(Task)
    BY <2>2, AppendTask DEF TypeOK
  <2>3. ASSUME NEW i \in DOMAIN tasks, StartTask(i) \/ FinishTask(i)
        PROVE  tasks' \in Seq(Task)
    <3>1. [tasks[i] EXCEPT !.state = "running"] \in Task
          /\ [tasks[i] EXCEPT !.state = "done"] \in Task
      BY <1>2 DEF Task
    <3>2. tasks \in Seq(Task) /\ i \in 1..Len(tasks)
      BY DEF TypeOK
    <3>3. ASSUME NEW e \in Task PROVE [tasks EXCEPT ![i] = e] \in Seq(Task)
      BY <3>2, ExceptSeq
    <3>4. \/ tasks' = [tasks EXCEPT ![i] = [tasks[i] EXCEPT !.state = "running"]]
          \/ tasks' = [tasks EXCEPT ![i] = [tasks[i] EXCEPT !.state = "done"]]
      BY <2>3 DEF StartTask, FinishTask
    <3> QED
      BY <3>1, <3>3, <3>4
  <2>4. CASE Crash
    <3>1. \A i \in DOMAIN tasks : [tasks[i] EXCEPT !.state = "lost"] \in Task
      BY <1>2 DEF Task
    <3>2. tasks \in Seq(Task) /\ DOMAIN tasks = 1..Len(tasks) /\ Len(tasks) \in Nat
      BY DEF TypeOK
    <3>3. tasks' \in [1..Len(tasks) -> Task]
      BY <1>2, <2>4, <3>1, <3>2 DEF Crash
    <3> QED
      BY <3>2, <3>3
  <2>5. ASSUME NEW p \in Posts, AcceptUnclaimed(p) \/ Claim(p)
        PROVE  \E c \in Nat : tasks' = Append(tasks, Queued(p, c))
    BY <2>5 DEF AcceptUnclaimed, Claim, AddTask, Queued, TypeOK
  <2>6. CASE Environment
    BY <2>1, <2>6 DEF Environment, Send, LoseRequest
  <2>7. CASE HandleReceive
    BY <2>1, <2>2, <2>5, <2>7
       DEF HandleReceive, Reject, Ignore, IgnoreDuplicate, ClaimFails
  <2>8. CASE RunTasks
    BY <2>3, <2>8 DEF RunTasks
  <2>9. CASE Restart \/ UNCHANGED vars
    BY <2>1, <2>9 DEF Restart, vars
  <2> QED
    BY <2>4, <2>6, <2>7, <2>8, <2>9 DEF Next
<1>4. EnvType'
  <2> USE DEF EnvType, TypeOK
  <2>1. ASSUME NEW p \in Posts, Send(p) \/ LoseRequest(p) PROVE EnvType'
    BY <2>1 DEF Send, LoseRequest
  <2>2. ASSUME NEW p \in Posts, NEW verdict \in Verdict, Reply(p, verdict)
        PROVE  EnvType'
    <3>1. transit' \in [Posts -> Nat]
      BY <2>2 DEF Reply
    <3>2. confirmed' \subseteq Posts
      BY <2>2 DEF Reply
    <3>3. answer' \in [post : Posts, verdict : Verdict]
      BY <2>2 DEF Reply
    <3> QED
      BY <2>2, <3>1, <3>2, <3>3 DEF Reply
  <2>3. ASSUME NEW p \in Posts,
               \/ Reject(p) \/ Ignore(p) \/ AcceptUnclaimed(p)
               \/ IgnoreDuplicate(p) \/ Claim(p) \/ ClaimFails(p)
        PROVE  \E verdict \in Verdict : Reply(p, verdict)
    BY <2>3 DEF Reject, Ignore, AcceptUnclaimed, IgnoreDuplicate, Claim,
                ClaimFails, Verdict
  <2>4. CASE Environment
    BY <2>1, <2>4 DEF Environment
  <2>5. CASE HandleReceive
    BY <2>2, <2>3, <2>5 DEF HandleReceive
  <2>6. CASE RunTasks \/ Restart
    <3>1. UNCHANGED <<envVars, answer, crashes>> /\ up' \in BOOLEAN
      BY <2>6 DEF RunTasks, StartTask, FinishTask, Restart
    <3> QED
      BY <3>1 DEF envVars
  <2>7. CASE Crash
    <3>1. /\ UNCHANGED envVars /\ answer' = NoAnswer
          /\ crashes' = crashes + 1 /\ up' \in BOOLEAN
      BY <2>7 DEF Crash
    <3> QED
      BY <3>1 DEF envVars
  <2>8. CASE UNCHANGED vars
    BY <2>8 DEF vars
  <2> QED
    BY <2>4, <2>5, <2>6, <2>7, <2>8 DEF Next
<1> QED
  BY <1>1, <1>3, <1>4 DEF TypeOK, EnvType

LEMMA BaseInit == Init => BaseInv
BY TimesAssumption DEF Init, BaseInv, TypeOK, RowidsOrdered, NoAnswer

LEMMA BaseCorrect == Spec => []BaseInv
BY BaseInit, BaseNext, PTL DEF Spec

\* Every reachable state is well typed; in particular the table can always
\* give a new row its rowid (all operations of Inbox).
THEOREM TypeCorrect == Spec => []TypeOK
<1>1. BaseInv => TypeOK
  BY DEF BaseInv
<1> QED
  BY <1>1, BaseCorrect, PTL

-----------------------------------------------------------------------------
(* Counting rows: a set with exactly one row for each rowid in an interval *)
(* is as large as the interval.                                            *)

LEMMA CountByRowid ==
  ASSUME NEW S, NEW a \in Int, NEW b \in Int,
         \A q \in S : q.rowid \in a..b,
         \A x \in a..b : \E q \in S : q.rowid = x,
         \A q, r \in S : q.rowid = r.rowid => q = r
  PROVE  Cardinality(S) = IF a > b THEN 0 ELSE b - a + 1
<1> DEFINE f == [x \in a..b |-> CHOOSE q \in S : q.rowid = x]
<1>1. \A x \in a..b : f[x] \in S /\ f[x].rowid = x
  OBVIOUS
<1>2. f \in [a..b -> S]
  BY <1>1
<1>3. \A x, y \in a..b : f[x] = f[y] => x = y
  BY <1>1
<1>4. \A q \in S : \E x \in a..b : f[x] = q
  BY <1>1
<1> HIDE DEF f
<1>5. f \in Bijection(a..b, S)
  BY <1>2, <1>3, <1>4, Fun_IsBij
<1>6. IsFiniteSet(a..b) /\ Cardinality(a..b) = IF a > b THEN 0 ELSE b - a + 1
  BY FS_Interval
<1> QED
  BY <1>5, <1>6, FS_Bijection DEF ExistsBijection

-----------------------------------------------------------------------------
(***************************************************************************)
(* The table under a clock that does not step back.  The inductive         *)
(* invariant: the rows are exactly the last MaxEntries claims, one row for *)
(* each, stamped in the order of the claims, and each belongs to the task  *)
(* of that claim.                                                          *)
(***************************************************************************)

Numbered ==
  /\ \A i \in DOMAIN tasks :
       /\ tasks[i].claim <= claimed
       /\ tasks[i].claim = 0 <=> HandleOf(tasks[i].post) = NoHandle
  /\ \A n \in 1..claimed : \E i \in DOMAIN tasks : tasks[i].claim = n

RowsAreRecent ==
  /\ \A q, r \in seen : q.rowid = r.rowid => q = r
  /\ \A r \in seen : r.rowid > claimed - MaxEntries
  /\ \A n \in 1..claimed :
       n > claimed - MaxEntries => \E r \in seen : r.rowid = n

StampsOrdered ==
  /\ \A q, r \in seen : q.rowid < r.rowid => q.at <= r.at
  /\ \A r \in seen : r.at <= clock

RowsMatchTasks ==
  \A i \in DOMAIN tasks, r \in seen :
    tasks[i].claim = r.rowid => r.handle = HandleOf(tasks[i].post)

ClaimInv ==
  /\ BaseInv /\ Numbered /\ RowsAreRecent /\ StampsOrdered /\ RowsMatchTasks
  /\ AtMostOncePerWindow

\* The insertion and the eviction together keep the last MaxEntries claims.
LEMMA NewestAreRecent ==
  ASSUME ClaimInv, ~ClockMayStepBack,
         NEW p \in Posts, NEW now \in Times, Claims(p, now)
  PROVE  /\ NextRowid = claimed + 1
         /\ seen' = {r \in seen \cup {ClaimRow(p, now)} :
                       r.rowid > claimed' - MaxEntries}
         /\ \A r \in seen : r.at <= now
<1> DEFINE new == ClaimRow(p, now)
           all == seen \cup {new}
<1>1. /\ seen \subseteq Row /\ claimed \in Nat /\ clock \in Nat /\ now \in Nat
      /\ RowidsOrdered /\ RowsAreRecent /\ StampsOrdered
      /\ MaxEntries \in Nat \ {0}
  BY TimesAssumption, CapacityAssumption DEF ClaimInv, BaseInv, TypeOK
<1>2. \A r \in seen : /\ r.rowid \in Nat \ {0} /\ r.rowid <= claimed
                      /\ r.at \in Nat
  BY <1>1, TimesAssumption DEF Row, RowidsOrdered
<1>3. NextRowid = claimed + 1
  <2>1. /\ NextRowid \in 1..claimed + 1
        /\ \A r \in seen : r.rowid < NextRowid
    BY <1>1, NextRowidBounds
  <2>2. CASE claimed = 0
    BY <2>1, <2>2
  <2>3. CASE claimed > 0
    <3>1. PICK r \in seen : r.rowid = claimed
      BY <1>1, <2>3 DEF RowsAreRecent
    <3> QED
      BY <1>1, <2>1, <3>1
  <2> QED
    BY <1>1, <2>2, <2>3
<1>4. \A r \in seen : r.at <= now
  <2>1. clock <= now
    BY <1>1 DEF Claims
  <2> QED
    BY <1>1, <1>2, <2>1 DEF StampsOrdered
<1>5. new.rowid = claimed + 1 /\ new.at = now
  BY <1>3 DEF ClaimRow
<1> HIDE DEF new
<1>6. \A q, r \in all : /\ q.rowid = r.rowid => q = r
                        /\ q.rowid < r.rowid => q.at <= r.at
  BY <1>1, <1>2, <1>4, <1>5 DEF RowsAreRecent, StampsOrdered
<1>7. \A r \in all : /\ r.rowid \in Nat /\ r.at \in Nat
                     /\ r.rowid <= claimed + 1
                     /\ r.rowid > claimed - MaxEntries
  BY <1>1, <1>2, <1>5 DEF RowsAreRecent
<1>8. ASSUME NEW r \in all
      PROVE  Cardinality({q \in all : Newer(q, r)}) = claimed + 1 - r.rowid
  <2> DEFINE S == {q \in all : Newer(q, r)}
             a == r.rowid + 1
             b == claimed + 1
  <2>1. S = {q \in all : q.rowid > r.rowid}
    <3>1. ASSUME NEW q \in all PROVE Newer(q, r) <=> q.rowid > r.rowid
      BY <1>6, <1>7 DEF Newer
    <3> QED
      BY <3>1
  <2>2. \A q \in S : q.rowid \in a..b
    BY <1>7, <2>1
  <2>3. ASSUME NEW x \in a..b PROVE \E q \in S : q.rowid = x
    <3>1. x \in Nat /\ x > r.rowid /\ x <= claimed + 1 /\ r.rowid \in Nat
      BY <1>1, <1>7
    <3>2. CASE x = claimed + 1
      BY <1>5, <2>1, <3>1, <3>2
    <3>3. CASE x # claimed + 1
      <4>1. x \in 1..claimed /\ x > claimed - MaxEntries
        BY <1>1, <1>7, <3>1, <3>3
      <4>2. PICK q \in seen : q.rowid = x
        BY <1>1, <4>1 DEF RowsAreRecent
      <4> QED
        BY <2>1, <3>1, <4>2
    <3> QED
      BY <3>2, <3>3
  <2>4. \A q, s \in S : q.rowid = s.rowid => q = s
    BY <1>6
  <2>5. a \in Int /\ b \in Int
    BY <1>1, <1>7
  <2>6. Cardinality(S) = IF a > b THEN 0 ELSE b - a + 1
    <3> HIDE DEF S, a, b
    <3> QED
      BY <2>2, <2>3, <2>4, <2>5, CountByRowid
  <2> QED
    BY <1>1, <1>7, <2>6
<1>9. seen' = {r \in all : r.rowid > claimed' - MaxEntries}
  <2>1. seen' = {r \in all : Cardinality({q \in all : Newer(q, r)}) < MaxEntries}
    BY DEF Claims, Newest, new
  <2>2. claimed' = claimed + 1
    BY DEF Claims
  <2>3. \A r \in all : Cardinality({q \in all : Newer(q, r)}) < MaxEntries
                         <=> r.rowid > claimed' - MaxEntries
    BY <1>1, <1>7, <1>8, <2>2
  <2> QED
    BY <2>1, <2>3
<1> QED
  BY <1>3, <1>4, <1>9 DEF new

LEMMA ClaimKeeps ==
  ASSUME ClaimInv, ~ClockMayStepBack,
         NEW p \in Posts, NEW now \in Times, Claims(p, now)
  PROVE  /\ Numbered' /\ RowsAreRecent' /\ StampsOrdered' /\ RowsMatchTasks'
         /\ AtMostOncePerWindow'
<1> DEFINE new == ClaimRow(p, now)
           n == Len(tasks) + 1
<1>1. /\ seen \subseteq Row /\ claimed \in Nat /\ clock \in Nat /\ now \in Nat
      /\ tasks \in Seq(Task) /\ MaxEntries \in Nat \ {0}
      /\ RowidsOrdered
  BY TimesAssumption, CapacityAssumption DEF ClaimInv, BaseInv, TypeOK
<1>2. \A r \in seen : /\ r.rowid \in Nat \ {0} /\ r.rowid <= claimed
                      /\ r.at \in Nat
  BY <1>1, TimesAssumption DEF Row, RowidsOrdered
<1>3. /\ claimed' = claimed + 1 /\ clock' = now
      /\ HandleOf(p) \in Handles /\ HandleOf(p) # NoHandle
      /\ \A r \in seen : r.handle # HandleOf(p)
  BY NoHandleAssumption DEF Claims, IsClaimed
<1>4. /\ seen' = {r \in seen \cup {new} : r.rowid > claimed' - MaxEntries}
      /\ \A r \in seen : r.at <= now
      /\ new.rowid = claimed + 1 /\ new.at = now /\ new.handle = HandleOf(p)
  BY NewestAreRecent DEF ClaimRow
<1>5. /\ DOMAIN tasks' = DOMAIN tasks \cup {n}
      /\ tasks'[n].post = p /\ tasks'[n].claim = claimed + 1
      /\ \A i \in DOMAIN tasks : /\ tasks'[i] = tasks[i] /\ i \in Nat /\ i < n
                                 /\ tasks[i].claim \in Nat
      /\ n \in Nat
  <2>1. tasks' = Append(tasks, Queued(p, claimed + 1)) /\ claimed + 1 \in Nat
    BY <1>1 DEF Claims
  <2>2. \A i \in DOMAIN tasks : tasks[i] \in Task
    BY <1>1
  <2> QED
    BY <1>1, <2>1, <2>2, AppendTask DEF Queued, Task
<1> HIDE DEF new, n
<1>6. Numbered'
  <2>1. \A i \in DOMAIN tasks' :
          /\ tasks'[i].claim <= claimed'
          /\ tasks'[i].claim = 0 <=> HandleOf(tasks'[i].post) = NoHandle
    BY <1>1, <1>3, <1>5 DEF ClaimInv, Numbered, HandleOf
  <2>2. ASSUME NEW m \in 1..claimed'
        PROVE  \E i \in DOMAIN tasks' : tasks'[i].claim = m
    <3>1. CASE m = claimed + 1
      BY <1>5, <3>1
    <3>2. CASE m \in 1..claimed
      BY <1>5, <3>2 DEF ClaimInv, Numbered
    <3> QED
      BY <1>1, <1>3, <3>1, <3>2
  <2> QED
    BY <2>1, <2>2 DEF Numbered, HandleOf
<1>7. RowsAreRecent'
  <2>1. \A q, r \in seen' : q.rowid = r.rowid => q = r
    BY <1>1, <1>2, <1>4 DEF ClaimInv, RowsAreRecent
  <2>2. ASSUME NEW m \in 1..claimed', m > claimed' - MaxEntries
        PROVE  \E r \in seen' : r.rowid = m
    <3>1. CASE m = claimed + 1
      BY <1>1, <1>3, <1>4, <2>2, <3>1
    <3>2. CASE m \in 1..claimed
      <4>1. m > claimed - MaxEntries
        BY <1>1, <1>3, <2>2, <3>2
      <4>2. PICK r \in seen : r.rowid = m
        BY <3>2, <4>1 DEF ClaimInv, RowsAreRecent
      <4> QED
        BY <1>4, <2>2, <4>2
    <3> QED
      BY <1>1, <1>3, <3>1, <3>2
  <2> QED
    BY <1>4, <2>1, <2>2 DEF RowsAreRecent
<1>8. StampsOrdered'
  BY <1>1, <1>2, <1>3, <1>4 DEF ClaimInv, StampsOrdered
<1>9. RowsMatchTasks'
  <2> SUFFICES ASSUME NEW i \in DOMAIN tasks', NEW r \in seen',
                      tasks'[i].claim = r.rowid
               PROVE  r.handle = HandleOf(tasks'[i].post)
    BY DEF RowsMatchTasks, HandleOf
  <2>1. CASE i = n
    <3>1. r = new
      BY <1>1, <1>2, <1>4, <1>5, <2>1
    <3> QED
      BY <1>4, <1>5, <2>1, <3>1 DEF HandleOf
  <2>2. CASE i \in DOMAIN tasks
    <3>1. tasks[i].claim <= claimed
      BY <2>2 DEF ClaimInv, Numbered
    <3>2. r \in seen
      BY <1>1, <1>4, <1>5, <2>2, <3>1
    <3> QED
      BY <1>5, <2>2, <3>2 DEF ClaimInv, RowsMatchTasks, HandleOf
  <2> QED
    BY <1>5, <2>1, <2>2
<1>10. AtMostOncePerWindow'
  <2> SUFFICES ASSUME NEW i \in DOMAIN tasks', NEW j \in DOMAIN tasks', i < j,
                      HandleOf(tasks'[i].post) = HandleOf(tasks'[j].post),
                      HandleOf(tasks'[i].post) # NoHandle
               PROVE  tasks'[j].claim - tasks'[i].claim > MaxEntries
    BY DEF AtMostOncePerWindow, HandleOf
  <2>1. i \in DOMAIN tasks
    BY <1>5
  <2>2. CASE j \in DOMAIN tasks
    BY <1>5, <2>1, <2>2 DEF ClaimInv, AtMostOncePerWindow
  <2>3. CASE j = n
    <3>1. HandleOf(tasks[i].post) = HandleOf(p)
      BY <1>5, <2>1, <2>3
    <3>2. tasks[i].claim # 0 /\ tasks[i].claim <= claimed
      BY <1>3, <2>1, <3>1 DEF ClaimInv, Numbered
    <3>3. ~(tasks[i].claim > claimed - MaxEntries)
      <4> SUFFICES ASSUME tasks[i].claim > claimed - MaxEntries PROVE FALSE
        OBVIOUS
      <4>1. PICK r \in seen : r.rowid = tasks[i].claim
        BY <1>1, <1>5, <2>1, <3>2 DEF ClaimInv, RowsAreRecent
      <4>2. r.handle = HandleOf(p)
        BY <2>1, <3>1, <4>1 DEF ClaimInv, RowsMatchTasks
      <4> QED
        BY <1>3, <4>2
    <3> QED
      BY <1>1, <1>5, <2>1, <2>3, <3>3
  <2> QED
    BY <1>5, <2>2, <2>3
<1> QED
  BY <1>6, <1>7, <1>8, <1>9, <1>10

LEMMA ClaimInvNext ==
  ASSUME ~ClockMayStepBack
  PROVE  ClaimInv /\ [Next]_vars => ClaimInv'
<1> SUFFICES ASSUME ClaimInv, [Next]_vars PROVE ClaimInv'
  OBVIOUS
<1>1. BaseInv /\ BaseInv' /\ TypeOK /\ tasks \in Seq(Task)
  BY BaseNext DEF ClaimInv, BaseInv, TypeOK
<1>2. CASE UNCHANGED dbVars /\ TasksMoveOn
  <2>1. Numbered'
    BY <1>2 DEF ClaimInv, Numbered, TasksMoveOn, dbVars, HandleOf
  <2>2. RowsAreRecent' /\ StampsOrdered'
    BY <1>2 DEF ClaimInv, RowsAreRecent, StampsOrdered, dbVars
  <2>3. RowsMatchTasks' /\ AtMostOncePerWindow'
    BY <1>2 DEF ClaimInv, RowsMatchTasks, AtMostOncePerWindow, TasksMoveOn,
                dbVars, HandleOf
  <2> QED
    BY <1>1, <2>1, <2>2, <2>3 DEF ClaimInv
<1>3. ASSUME NEW p \in Posts, HandleOf(p) = NoHandle,
             tasks' = Append(tasks, Queued(p, 0)), UNCHANGED dbVars
      PROVE  ClaimInv'
  <2> DEFINE n == Len(tasks) + 1
  <2>1. /\ DOMAIN tasks' = DOMAIN tasks \cup {n}
        /\ tasks'[n].post = p /\ tasks'[n].claim = 0
        /\ \A i \in DOMAIN tasks : tasks'[i] = tasks[i]
    BY <1>1, <1>3, AppendTask DEF Queued
  <2> HIDE DEF n
  <2>2. seen' = seen /\ claimed' = claimed /\ clock' = clock
    BY <1>3 DEF dbVars
  <2>3. claimed \in Nat /\ \A r \in seen : r.rowid # 0
    BY <1>1 DEF TypeOK, Row
  <2>4. Numbered'
    BY <1>3, <2>1, <2>2, <2>3 DEF ClaimInv, Numbered, HandleOf
  <2>5. RowsAreRecent' /\ StampsOrdered'
    BY <2>2 DEF ClaimInv, RowsAreRecent, StampsOrdered
  <2>6. RowsMatchTasks'
    BY <2>1, <2>2, <2>3 DEF ClaimInv, RowsMatchTasks, HandleOf
  <2>7. AtMostOncePerWindow'
    BY <1>3, <2>1 DEF ClaimInv, AtMostOncePerWindow, HandleOf
  <2> QED
    BY <1>1, <2>4, <2>5, <2>6, <2>7 DEF ClaimInv
<1>4. ASSUME NEW p \in Posts, NEW now \in Times, Claims(p, now)
      PROVE  ClaimInv'
  BY <1>1, <1>4, ClaimKeeps DEF ClaimInv
<1> QED
  BY <1>1, <1>2, <1>3, <1>4, Steps

LEMMA ClaimCorrect ==
  ASSUME ~ClockMayStepBack
  PROVE  Spec => []ClaimInv
<1>1. Init => ClaimInv
  BY BaseInit DEF Init, ClaimInv, Numbered, RowsAreRecent, StampsOrdered,
                  RowsMatchTasks, AtMostOncePerWindow
<1> QED
  BY <1>1, ClaimInvNext, PTL DEF Spec

\* While the wall clock does not step back, a message is processed a second
\* time only after at least MaxEntries other messages were accepted, for any
\* number of repeated deliveries, threads and crashes (handle_receive with
\* is_duplicate_handle).
THEOREM OncePerWindow ==
  ASSUME ~ClockMayStepBack
  PROVE  Spec => []AtMostOncePerWindow
<1>1. ClaimInv => AtMostOncePerWindow
  BY DEF ClaimInv
<1> QED
  BY <1>1, ClaimCorrect, PTL

\* Under the same clock the table holds exactly the last MaxEntries claims
\* (the DELETE of is_duplicate_handle).
THEOREM LatestClaimsHeld ==
  ASSUME ~ClockMayStepBack
  PROVE  Spec => []TableHoldsLatestClaims
<1>1. ASSUME ClaimInv PROVE TableHoldsLatestClaims
  <2> DEFINE Recent == {k \in DOMAIN tasks : /\ tasks[k].claim > 0
                                             /\ tasks[k].claim > claimed - MaxEntries}
  <2>1. /\ claimed \in Nat /\ RowidsOrdered
        /\ \A r \in seen : r.rowid \in Nat \ {0}
        /\ \A i \in DOMAIN tasks : tasks[i].claim \in Nat
    <3>1. \A i \in DOMAIN tasks : tasks[i] \in Task
      BY <1>1 DEF ClaimInv, BaseInv, TypeOK
    <3> QED
      BY <1>1, <3>1 DEF ClaimInv, BaseInv, TypeOK, Row, Task
  <2>2. ASSUME NEW r \in seen
        PROVE  \E i \in Recent : r.handle = HandleOf(tasks[i].post)
    <3>1. r.rowid \in 1..claimed /\ r.rowid > claimed - MaxEntries
      BY <1>1, <2>1 DEF RowidsOrdered, ClaimInv, RowsAreRecent
    <3>2. PICK i \in DOMAIN tasks : tasks[i].claim = r.rowid
      BY <1>1, <3>1 DEF ClaimInv, Numbered
    <3>3. i \in Recent
      BY <2>1, <3>1, <3>2
    <3> QED
      BY <1>1, <3>2, <3>3 DEF ClaimInv, RowsMatchTasks
  <2>3. ASSUME NEW i \in Recent
        PROVE  \E r \in seen : r.handle = HandleOf(tasks[i].post)
    <3>1. tasks[i].claim \in 1..claimed
      BY <1>1, <2>1 DEF ClaimInv, Numbered
    <3>2. PICK r \in seen : r.rowid = tasks[i].claim
      BY <1>1, <3>1 DEF ClaimInv, RowsAreRecent
    <3> QED
      BY <1>1, <3>2 DEF ClaimInv, RowsMatchTasks
  <2>4. {r.handle : r \in seen} = {HandleOf(tasks[i].post) : i \in Recent}
    <3> HIDE DEF Recent
    <3> QED
      BY <2>2, <2>3
  <2> QED
    BY <2>4 DEF TableHoldsLatestClaims
<1> QED
  BY <1>1, ClaimCorrect, PTL

-----------------------------------------------------------------------------
(***************************************************************************)
(* The refinement of MessageWindow under a clock that does not step back.  *)
(* The rows are the last claims, one for each rowid, and their order is    *)
(* that of the rowids: a claim slides the window by one.                   *)
(***************************************************************************)

\* How many of c claims are remembered.
Held(c) == IF c > MaxEntries THEN MaxEntries ELSE c

\* S holds the last of c claims, in order.
HoldsLast(S, c) ==
  /\ S \subseteq Row
  /\ \A q, r \in S : /\ q.rowid = r.rowid => q = r
                     /\ q.rowid < r.rowid => q.at <= r.at
  /\ \A r \in S : r.rowid <= c /\ r.rowid > c - MaxEntries
  /\ \A n \in 1..c : n > c - MaxEntries => \E r \in S : r.rowid = n

LEMMA TableHoldsLast == ClaimInv => HoldsLast(seen, claimed)
BY DEF ClaimInv, BaseInv, TypeOK, RowidsOrdered, RowsAreRecent, StampsOrdered,
       HoldsLast

LEMMA LastRows ==
  ASSUME NEW S, NEW c \in Nat, HoldsLast(S, c)
  PROVE  \A n \in 1..c : n > c - MaxEntries => \E r \in S : r.rowid = n
BY DEF HoldsLast

\* The i-th oldest row is that of the i-th remembered claim.
LEMMA OldestByClaim ==
  ASSUME NEW S, NEW c \in Nat, HoldsLast(S, c)
  PROVE  /\ Held(c) \in Nat /\ Held(c) <= c
         /\ DOMAIN Oldest(S) = 1..Held(c)
         /\ \A r \in S : /\ r.rowid - (c - Held(c)) \in 1..Held(c)
                         /\ Oldest(S)[r.rowid - (c - Held(c))] = r.handle
<1> DEFINE first == c - Held(c) + 1
<1>1. /\ Held(c) \in Nat /\ Held(c) <= c /\ Held(c) <= MaxEntries
      /\ first \in Nat \ {0} /\ first <= c + 1
      /\ \A n \in first..c : n \in 1..c /\ n > c - MaxEntries
  BY CapacityAssumption DEF Held
<1>2. \A r \in S : /\ r.rowid \in first..c /\ r.at \in Nat /\ r.rowid \in Nat
  <2>1. \A r \in S : r.at \in Nat /\ r.rowid \in Nat /\ r.rowid > 0
    <3>1. \A r \in S : r \in Row
      BY DEF HoldsLast
    <3>2. \A r \in Row : r.at \in Times /\ r.rowid \in Nat /\ r.rowid > 0
      BY DEF Row
    <3>3. \A t \in Times : t \in Nat
      BY TimesAssumption
    <3> QED
      BY ONLY <3>1, <3>2, <3>3
  <2>2. \A r \in S : r.rowid <= c /\ r.rowid > c - MaxEntries
    BY DEF HoldsLast
  <2>3. first = IF c > MaxEntries THEN c - MaxEntries + 1 ELSE 1
    BY CapacityAssumption DEF Held
  <2> HIDE DEF first
  <2> QED
    BY <2>1, <2>2, <2>3, CapacityAssumption
<1>3. \A n \in first..c : \E r \in S : r.rowid = n
  BY <1>1 DEF HoldsLast
<1>4. \A q, r \in S : q.rowid = r.rowid => q = r
  BY DEF HoldsLast
<1>5. \A q, r \in S : Newer(r, q) <=> q.rowid < r.rowid
  BY <1>2 DEF HoldsLast, Newer
<1>6. Cardinality(S) = Held(c)
  <2>1. Cardinality(S) = IF first > c THEN 0 ELSE c - first + 1
    <3> HIDE DEF first
    <3> QED
      BY <1>1, <1>2, <1>3, <1>4, CountByRowid
  <2> QED
    BY <1>1, <2>1
<1>7. ASSUME NEW r \in S
      PROVE  Cardinality({q \in S : Newer(r, q)}) = r.rowid - first
  <2> DEFINE T == {q \in S : Newer(r, q)}
             last == r.rowid - 1
  <2>1. \A q \in T : q.rowid \in first..last
    BY <1>2, <1>5
  <2>2. \A n \in first..last : \E q \in T : q.rowid = n
    BY <1>1, <1>2, <1>3, <1>5
  <2>3. \A p, q \in T : p.rowid = q.rowid => p = q
    BY <1>4
  <2>4. first \in Int /\ last \in Int
    BY <1>1, <1>2
  <2>5. Cardinality(T) = IF first > last THEN 0 ELSE last - first + 1
    <3> HIDE DEF T, first, last
    <3> QED
      BY <2>1, <2>2, <2>3, <2>4, CountByRowid
  <2> QED
    BY <1>1, <1>2, <2>5
<1>8. ASSUME NEW r \in S
      PROVE  /\ r.rowid - (c - Held(c)) \in 1..Held(c)
             /\ Oldest(S)[r.rowid - (c - Held(c))] = r.handle
  <2> DEFINE i == r.rowid - (c - Held(c))
             P(q) == Cardinality({x \in S : Newer(q, x)}) = i - 1
  <2>1. i \in 1..Held(c) /\ i - 1 = r.rowid - first
    BY <1>1, <1>2
  <2>2. P(r) /\ \A q \in S : P(q) => q = r
    <3>1. \A q \in S : P(q) <=> q.rowid - first = r.rowid - first
      BY <1>7, <2>1
    <3>2. first \in Nat
      BY <1>1
    <3> HIDE DEF P, first
    <3> QED
      BY <1>2, <1>4, <3>1, <3>2
  <2>3. (CHOOSE q \in S : P(q)) = r
    <3> HIDE DEF P
    <3> QED
      BY <2>2
  <2>4. Oldest(S)[i] = (CHOOSE q \in S : P(q)).handle
    <3>1. i \in 1..Cardinality(S)
      BY <1>6, <2>1
    <3> HIDE DEF i
    <3> QED
      BY <3>1 DEF Oldest
  <2> QED
    BY <2>1, <2>3, <2>4
<1>9. DOMAIN Oldest(S) = 1..Held(c)
  BY <1>6 DEF Oldest
<1> QED
  BY <1>1, <1>8, <1>9

\* A row of the table is a remembered message.
LEMMA RememberedClaimed ==
  ASSUME ClaimInv, NEW h \in Handles, ~IsClaimed(h)
  PROVE  h \notin Promise!Remembered
<1>1. claimed \in Nat /\ HoldsLast(seen, claimed)
  BY TableHoldsLast DEF ClaimInv, BaseInv, TypeOK
<1>2. ASSUME NEW i \in DOMAIN Oldest(seen)
      PROVE  \E r \in seen : Oldest(seen)[i] = r.handle
  <2>1. /\ Held(claimed) \in Nat /\ Held(claimed) <= claimed
        /\ i \in 1..Held(claimed)
        /\ \A r \in seen :
             Oldest(seen)[r.rowid - (claimed - Held(claimed))] = r.handle
    BY <1>1, OldestByClaim
  <2> DEFINE n == claimed - Held(claimed) + i
  <2>2. n \in 1..claimed /\ n > claimed - MaxEntries
    BY <1>1, <2>1, CapacityAssumption DEF Held
  <2>3. PICK r \in seen : r.rowid = n
    BY <1>1, <2>2 DEF HoldsLast
  <2>4. r.rowid - (claimed - Held(claimed)) = i
    BY <1>1, <2>1, <2>3
  <2> QED
    BY <2>1, <2>4
<1> QED
  BY <1>2 DEF Promise!Remembered, IsClaimed

\* A claim slides the window.
LEMMA ClaimSlides ==
  ASSUME ClaimInv, ClaimInv', ~ClockMayStepBack,
         NEW p \in Posts, NEW now \in Times, Claims(p, now)
  PROVE  Oldest(seen)' = Promise!Slide(Append(Oldest(seen), HandleOf(p)))
<1> DEFINE w == Oldest(seen)
           v == Oldest(seen')
           h == HandleOf(p)
           k == Held(claimed)
           m == Held(claimed')
<1>1. /\ claimed \in Nat /\ claimed' \in Nat /\ claimed' = claimed + 1
      /\ HoldsLast(seen, claimed) /\ HoldsLast(seen', claimed')
  <2>1. HoldsLast(seen', claimed')
    BY DEF ClaimInv, BaseInv, TypeOK, RowidsOrdered, RowsAreRecent,
           StampsOrdered, HoldsLast
  <2> QED
    BY <2>1, TableHoldsLast DEF ClaimInv, BaseInv, TypeOK, Claims
<1>2. /\ k \in Nat /\ k <= claimed /\ DOMAIN w = 1..k
      /\ \A r \in seen : /\ r.rowid - (claimed - k) \in 1..k
                         /\ w[r.rowid - (claimed - k)] = r.handle
  BY <1>1, OldestByClaim
<1>3. /\ m \in Nat /\ m <= claimed' /\ DOMAIN v = 1..m
      /\ \A r \in seen' : /\ r.rowid - (claimed' - m) \in 1..m
                          /\ v[r.rowid - (claimed' - m)] = r.handle
  <2> HIDE DEF v
  <2>1. claimed' \in Nat
    BY <1>1
  <2> QED
    BY <1>1, <2>1, OldestByClaim DEF v
<1>4. /\ NextRowid = claimed + 1
      /\ \A r \in seen' : r \in seen \/ r = ClaimRow(p, now)
  BY NewestAreRecent
<1>5. \A n \in 1..claimed' :
        n > claimed' - MaxEntries => \E r \in seen' : r.rowid = n
  BY <1>1, LastRows
<1>6. \A r \in seen' : r.rowid = claimed + 1 => r.handle = h
  BY <1>1, <1>4 DEF ClaimRow, HoldsLast, Row
<1>7. \A r \in seen' : r.rowid # claimed + 1 => r \in seen
  BY <1>4 DEF ClaimRow
<1>8. MaxEntries \in Nat \ {0}
  BY CapacityAssumption
<1>9. \A i \in 1..k : w[i] \in Handles
  <2> SUFFICES ASSUME NEW i \in 1..k PROVE w[i] \in Handles
    OBVIOUS
  <2> DEFINE n == claimed - k + i
  <2>1. n \in 1..claimed /\ n > claimed - MaxEntries
    BY <1>1, <1>2, <1>8 DEF Held
  <2>2. PICK r \in seen : r.rowid = n
    BY <1>1, <2>1 DEF HoldsLast
  <2>3. r.rowid - (claimed - k) = i /\ r.handle \in Handles
    BY <1>1, <1>2, <2>2 DEF HoldsLast, Row
  <2> QED
    BY <1>2, <2>3
<1>10. h \in Handles
  BY DEF Claims
<1>11. w \in Seq(Handles) /\ Len(w) = k
  <2>1. w = [i \in 1..k |-> w[i]]
    BY <1>2 DEF Oldest
  <2> HIDE DEF w, k
  <2>2. w \in [1..k -> Handles]
    BY <1>9, <2>1
  <2> QED
    BY <1>2, <2>2
<1>12. v = [i \in 1..m |-> v[i]]
  <2>1. v = [i \in DOMAIN v |-> v[i]]
    BY DEF Oldest
  <2> QED
    BY <1>3, <2>1
<1> HIDE DEF w, v, h
<1>13. ASSUME NEW i \in 1..m
       PROVE  v[i] = IF i = m THEN h ELSE w[i + k + 1 - m]
  <2> DEFINE n == claimed' - m + i
  <2>1. n \in 1..claimed' /\ n > claimed' - MaxEntries
    BY <1>1, <1>3, <1>8 DEF Held
  <2>2. PICK r \in seen' : r.rowid = n
    BY <1>5, <2>1
  <2>3. v[i] = r.handle
    <3>1. r.rowid - (claimed' - m) = i
      BY <1>1, <1>3, <2>2
    <3> QED
      BY <1>3, <3>1
  <2>4. CASE i = m
    BY <1>1, <1>3, <1>6, <2>2, <2>3, <2>4
  <2>5. CASE i # m
    <3>1. r \in seen
      BY <1>1, <1>3, <1>7, <2>2, <2>5
    <3>2. r.rowid - (claimed - k) = i + k + 1 - m
      BY <1>1, <1>2, <1>3, <2>2
    <3> QED
      BY <1>2, <2>3, <2>5, <3>1, <3>2
  <2> QED
    BY <2>4, <2>5
<1>14. /\ Append(w, h) \in Seq(Handles) /\ Len(Append(w, h)) = k + 1
       /\ \A i \in 1..k : Append(w, h)[i] = w[i]
       /\ Append(w, h)[k + 1] = h
  BY <1>10, <1>11, AppendProperties
<1> DEFINE a == Append(w, h)
<1>15. v = Promise!Slide(a)
  <2>1. a \in Seq(Handles) /\ Len(a) = k + 1
    BY <1>14
  <2>2. \A i \in 1..k : a[i] = w[i]
    BY <1>14
  <2>3. a[k + 1] = h
    BY <1>14
  <2>4. Promise!Slide(a) = IF Len(a) > MaxEntries THEN Tail(a) ELSE a
    BY DEF Promise!Slide
  <2>5. CASE claimed < MaxEntries
    <3>1. k = claimed /\ m = k + 1
      BY <1>1, <1>8, <2>5 DEF Held
    <3> HIDE DEF a, k, m
    <3>2. Promise!Slide(a) = a
      BY <1>1, <1>8, <2>1, <2>4, <2>5, <3>1
    <3>3. a = [i \in 1..k + 1 |-> a[i]]
      BY <2>1
    <3>4. \A i \in 1..k + 1 : v[i] = a[i]
      BY <1>2, <1>13, <2>2, <2>3, <3>1
    <3> QED
      BY <1>12, <3>1, <3>2, <3>3, <3>4
  <2>6. CASE ~(claimed < MaxEntries)
    <3>1. k = MaxEntries /\ m = MaxEntries
      BY <1>1, <1>8, <2>6 DEF Held
    <3> HIDE DEF a, k, m
    <3>2. Promise!Slide(a) = Tail(a)
      BY <1>8, <2>1, <2>4, <3>1
    <3>3. Tail(a) = [i \in 1..k |-> a[i + 1]]
      <4>1. a # <<>>
        BY <1>2, <2>1
      <4>2. /\ Tail(a) \in Seq(Handles) /\ Len(Tail(a)) = k
            /\ \A i \in 1..Len(Tail(a)) : Tail(a)[i] = a[i + 1]
        BY <1>2, <2>1, <4>1, HeadTailProperties
      <4> DEFINE b == Tail(a)
      <4>3. /\ b \in Seq(Handles) /\ Len(b) = k
            /\ \A i \in 1..k : b[i] = a[i + 1]
        BY <4>2
      <4> HIDE DEF b
      <4>4. b = [i \in 1..k |-> b[i]]
        BY <4>3
      <4>5. b = [i \in 1..k |-> a[i + 1]]
        BY <4>3, <4>4
      <4> QED
        BY <4>5 DEF b
    <3>4. \A i \in 1..k : v[i] = a[i + 1]
      BY <1>2, <1>8, <1>13, <2>2, <2>3, <3>1
    <3> QED
      BY <1>12, <3>1, <3>2, <3>3, <3>4
  <2> QED
    BY <2>5, <2>6
<1> QED
  BY <1>15 DEF w, v, h

-----------------------------------------------------------------------------
(* The work owed. *)

LEMMA UnsettledFinite ==
  ASSUME TypeOK, NEW h
  PROVE  IsFiniteSet(Unsettled(h)) /\ Cardinality(Unsettled(h)) \in Nat
<1>1. IsFiniteSet(1..Len(tasks)) /\ DOMAIN tasks = 1..Len(tasks)
  BY FS_Interval DEF TypeOK
<1>2. Unsettled(h) \subseteq 1..Len(tasks)
  BY <1>1 DEF Unsettled
<1> QED
  BY <1>1, <1>2, FS_Subset, FS_CardinalityType

LEMMA OwedChanges ==
  ASSUME NEW d \in Int, NEW h0,
         \A h : Cardinality(Unsettled(h)) \in Nat,
         \A h : Cardinality(Unsettled(h)') =
                  Cardinality(Unsettled(h)) + (IF h = h0 THEN d ELSE 0)
  PROVE  OwedWork' = [OwedWork EXCEPT ![h0] = @ + d]
<1> DEFINE D == Handles \cup {NoHandle}
<1>1. DOMAIN OwedWork = D /\ DOMAIN OwedWork' = D
  BY DEF OwedWork
<1>2. OwedWork = [h \in D |-> OwedWork[h]] /\ OwedWork' = [h \in D |-> OwedWork'[h]]
  BY DEF OwedWork
<1>3. \A h \in D : /\ OwedWork[h] = Cardinality(Unsettled(h))
                   /\ OwedWork'[h] = Cardinality(Unsettled(h)')
  BY DEF OwedWork
<1>4. \A h \in D : /\ OwedWork[h] \in Nat
                   /\ OwedWork'[h] = OwedWork[h] + (IF h = h0 THEN d ELSE 0)
  BY <1>3
<1> HIDE DEF D
<1> QED
  BY <1>1, <1>2, <1>4

\* A new task is one more piece of work owed for its message.
LEMMA TakesOn ==
  ASSUME TypeOK, NEW p \in Posts, NEW c \in Nat,
         tasks' = Append(tasks, Queued(p, c))
  PROVE  OwedWork' = [OwedWork EXCEPT ![HandleOf(p)] = @ + 1]
<1> DEFINE n == Len(tasks) + 1
<1>1. /\ DOMAIN tasks' = DOMAIN tasks \cup {n}
      /\ tasks'[n].post = p /\ tasks'[n].state = "queued"
      /\ \A i \in DOMAIN tasks : tasks'[i] = tasks[i]
      /\ n \notin DOMAIN tasks
  BY AppendTask DEF TypeOK, Queued
<1> HIDE DEF n
<1>2. ASSUME NEW h
      PROVE  Cardinality(Unsettled(h)') =
               Cardinality(Unsettled(h)) + (IF h = HandleOf(p) THEN 1 ELSE 0)
  <2>1. /\ n \notin Unsettled(h) /\ IsFiniteSet(Unsettled(h))
        /\ Cardinality(Unsettled(h)) \in Nat
    BY <1>1, UnsettledFinite DEF Unsettled
  <2>2. CASE h = HandleOf(p)
    <3>1. Unsettled(h)' = Unsettled(h) \cup {n}
      BY <1>1, <2>2 DEF Unsettled, HandleOf
    <3> QED
      BY <2>1, <2>2, <3>1, FS_AddElement
  <2>3. CASE h # HandleOf(p)
    <3>1. Unsettled(h)' = Unsettled(h)
      BY <1>1, <2>3 DEF Unsettled, HandleOf
    <3> QED
      BY <2>1, <2>3, <3>1
  <2> QED
    BY <2>2, <2>3
<1>3. ASSUME NEW h PROVE Cardinality(Unsettled(h)) \in Nat
  BY UnsettledFinite
<1> QED
  BY <1>2, <1>3, OwedChanges

\* A task that starts is still owed; one that ends settles its message.
LEMMA Settles ==
  ASSUME TypeOK, NEW i \in DOMAIN tasks, FinishTask(i)
  PROVE  \E h \in Handles \cup {NoHandle} :
           /\ OwedWork[h] > 0
           /\ OwedWork' = [OwedWork EXCEPT ![h] = @ - 1]
<1> DEFINE h0 == HandleOf(tasks[i].post)
<1>1. /\ \A j \in DOMAIN tasks : tasks[j] \in Task
      /\ tasks[i].state = "running"
      /\ tasks' = [tasks EXCEPT ![i].state = "done"]
  BY DEF TypeOK, FinishTask
<1>2. h0 \in Handles \cup {NoHandle}
  BY <1>1, HandleType DEF Task
<1>3. /\ DOMAIN tasks' = DOMAIN tasks
      /\ tasks'[i].post = tasks[i].post /\ tasks'[i].state = "done"
      /\ \A j \in DOMAIN tasks : j # i => tasks'[j] = tasks[j]
  BY <1>1 DEF Task
<1> HIDE DEF h0
<1>4. i \in Unsettled(h0)
  BY <1>1 DEF Unsettled, h0
<1>5. ASSUME NEW h
      PROVE  Cardinality(Unsettled(h)') =
               Cardinality(Unsettled(h)) - (IF h = h0 THEN 1 ELSE 0)
  <2>1. IsFiniteSet(Unsettled(h)) /\ Cardinality(Unsettled(h)) \in Nat
    BY UnsettledFinite
  <2>2. CASE h = h0
    <3>1. Unsettled(h)' = Unsettled(h) \ {i}
      BY <1>3, <2>2 DEF Unsettled, HandleOf
    <3> QED
      BY <1>4, <2>1, <2>2, <3>1, FS_RemoveElement
  <2>3. CASE h # h0
    <3>1. Unsettled(h)' = Unsettled(h)
      BY <1>3, <2>3 DEF Unsettled, HandleOf, h0
    <3> QED
      BY <2>1, <2>3, <3>1
  <2> QED
    BY <2>2, <2>3
<1>6. Cardinality(Unsettled(h0)) \in Nat /\ Cardinality(Unsettled(h0)) > 0
  <2>1. IsFiniteSet(Unsettled(h0)) /\ Cardinality(Unsettled(h0)) \in Nat
    BY UnsettledFinite
  <2>2. Cardinality(Unsettled(h0)) # 0
    BY <1>4, <2>1, FS_EmptySet
  <2> QED
    BY <2>1, <2>2
<1>7. OwedWork[h0] > 0
  BY <1>2, <1>6 DEF OwedWork
<1>8. ASSUME NEW h PROVE Cardinality(Unsettled(h)) \in Nat
  BY UnsettledFinite
<1>9. OwedWork' = [OwedWork EXCEPT ![h0] = @ - 1]
  <2>1. \A h : Cardinality(Unsettled(h)') =
                Cardinality(Unsettled(h)) + (IF h = h0 THEN -1 ELSE 0)
    BY <1>5, <1>8
  <2>2. OwedWork' = [OwedWork EXCEPT ![h0] = @ + -1]
    BY <1>8, <2>1, OwedChanges
  <2> QED
    BY <1>2, <1>6, <2>2 DEF OwedWork
<1> QED
  BY <1>2, <1>7, <1>9

LEMMA StartKeepsOwed ==
  ASSUME TypeOK, NEW i \in DOMAIN tasks, StartTask(i)
  PROVE  OwedWork' = OwedWork
<1>1. \A j \in DOMAIN tasks : tasks[j] \in Task
  BY DEF TypeOK
<1>2. /\ DOMAIN tasks' = DOMAIN tasks /\ tasks[i].state = "queued"
      /\ tasks'[i].post = tasks[i].post /\ tasks'[i].state = "running"
      /\ \A j \in DOMAIN tasks : j # i => tasks'[j] = tasks[j]
  BY <1>1 DEF StartTask, Task
<1>3. ASSUME NEW h PROVE Unsettled(h)' = Unsettled(h)
  BY <1>2 DEF Unsettled, HandleOf
<1> QED
  BY <1>3 DEF OwedWork

\* A crash takes all work with it.
LEMMA CrashDropsAll ==
  ASSUME TypeOK, Crash
  PROVE  OwedWork' = [h \in DOMAIN OwedWork |-> 0]
<1>1. \A j \in DOMAIN tasks : tasks[j] \in Task
  BY DEF TypeOK
<1>2. /\ DOMAIN tasks' = DOMAIN tasks
      /\ \A j \in DOMAIN tasks : tasks'[j].state \notin {"queued", "running"}
  BY <1>1 DEF Crash, Task
<1>3. ASSUME NEW h PROVE Unsettled(h)' = {}
  BY <1>2 DEF Unsettled
<1> QED
  BY <1>3, FS_EmptySet DEF OwedWork

-----------------------------------------------------------------------------

LEMMA WindowInit == Init => Promise!Init
<1> SUFFICES ASSUME Init PROVE Promise!Init
  OBVIOUS
<1>1. seen = {} /\ tasks = <<>> /\ DOMAIN tasks = {}
  BY DEF Init
<1>2. Cardinality({}) = 0
  BY FS_EmptySet
<1>3. Oldest(seen) = <<>>
  BY <1>1, <1>2 DEF Oldest
<1>4. OwedWork = [h \in Handles \cup {NoHandle} |-> 0]
  <2>1. ASSUME NEW h PROVE Unsettled(h) = {}
    BY <1>1 DEF Unsettled
  <2> QED
    BY <1>2, <2>1 DEF OwedWork
<1> QED
  BY <1>3, <1>4 DEF Promise!Init

LEMMA WindowNext ==
  ASSUME ~ClockMayStepBack, ClaimInv, ClaimInv', [Next]_vars
  PROVE  [Promise!Next]_<<Oldest(seen), OwedWork>>
<1>1. TypeOK
  BY DEF ClaimInv, BaseInv
<1>2. ASSUME UNCHANGED seen PROVE Oldest(seen)' = Oldest(seen)
  BY <1>2
<1>3. ASSUME UNCHANGED tasks PROVE OwedWork' = OwedWork
  BY <1>3 DEF OwedWork, Unsettled, HandleOf
<1>4. CASE UNCHANGED <<seen, tasks>>
  BY <1>2, <1>3, <1>4
<1>5. ASSUME NEW p \in Posts, AcceptUnclaimed(p)
      PROVE  Promise!TakeAnonymous
  <2>1. /\ HandleOf(p) = NoHandle /\ UNCHANGED seen
        /\ tasks' = Append(tasks, Queued(p, 0))
    BY <1>5 DEF AcceptUnclaimed, AddTask, Queued, dbVars
  <2> QED
    BY <1>1, <1>2, <2>1, TakesOn DEF Promise!TakeAnonymous
<1>6. ASSUME NEW p \in Posts, Claim(p)
      PROVE  \E h \in Handles : Promise!Take(h)
  <2>1. HandleOf(p) \in Handles
    BY <1>6, HandleType DEF Claim
  <2>2. PICK now \in Times : Claims(p, now)
    BY <1>6, <2>1 DEF Claim, Claims, ClaimRow, AddTask, Queued
  <2>3. HandleOf(p) \notin Promise!Remembered
    BY <2>1, <2>2, RememberedClaimed DEF Claims
  <2>4. Oldest(seen)' = Promise!Slide(Append(Oldest(seen), HandleOf(p)))
    BY <2>2, ClaimSlides
  <2>5. OwedWork' = [OwedWork EXCEPT ![HandleOf(p)] = @ + 1]
    BY <1>1, <2>2, TakesOn DEF Claims, TypeOK
  <2> QED
    BY <2>1, <2>3, <2>4, <2>5 DEF Promise!Take
<1>7. CASE Environment
  BY <1>4, <1>7 DEF Environment, Send, LoseRequest, dbVars
<1>8. CASE HandleReceive
  <2>1. ASSUME NEW p \in Posts,
               Reject(p) \/ Ignore(p) \/ IgnoreDuplicate(p) \/ ClaimFails(p)
        PROVE  UNCHANGED <<seen, tasks>>
    BY <2>1 DEF Reject, Ignore, IgnoreDuplicate, ClaimFails, dbVars
  <2> QED
    BY <1>4, <1>5, <1>6, <1>8, <2>1 DEF HandleReceive, Promise!Next
<1>9. CASE RunTasks
  <2>1. PICK i \in DOMAIN tasks : StartTask(i) \/ FinishTask(i)
    BY <1>9 DEF RunTasks
  <2>2. UNCHANGED seen
    BY <2>1 DEF StartTask, FinishTask, dbVars
  <2>3. CASE StartTask(i)
    BY <1>1, <1>2, <2>2, <2>3, StartKeepsOwed
  <2>4. CASE FinishTask(i)
    <3>1. PICK h \in Handles \cup {NoHandle} :
            OwedWork[h] > 0 /\ OwedWork' = [OwedWork EXCEPT ![h] = @ - 1]
      BY <1>1, <2>4, Settles
    <3>2. Promise!Settle(h)
      BY <1>2, <2>2, <3>1 DEF Promise!Settle
    <3> QED
      BY <3>2 DEF Promise!Next
  <2> QED
    BY <2>1, <2>3, <2>4
<1>10. CASE Crash
  <2>1. UNCHANGED seen
    BY <1>10 DEF Crash, dbVars
  <2>2. Promise!Die
    BY <1>1, <1>2, <1>10, <2>1, CrashDropsAll DEF Promise!Die
  <2> QED
    BY <2>2 DEF Promise!Next
<1>11. CASE Restart \/ UNCHANGED vars
  BY <1>4, <1>11 DEF Restart, vars, dbVars
<1> QED
  BY <1>7, <1>8, <1>9, <1>10, <1>11 DEF Next

\* Under a clock that does not step back the webhook with its table is a
\* window of remembered messages: for every capacity, number of requests,
\* threads and crashes each step takes an unremembered message and forgets
\* at most the oldest, settles a piece of work, dies with all of it, or does
\* nothing the promise speaks of (handle_receive, is_duplicate_handle and
\* the background tasks).
THEOREM WindowImplemented ==
  ASSUME ~ClockMayStepBack
  PROVE  Spec => ImplementsWindow
<1>1. ClaimInv /\ ClaimInv' /\ [Next]_vars
        => [Promise!Next]_<<Oldest(seen), OwedWork>>
  BY WindowNext
<1> QED
  BY <1>1, WindowInit, ClaimCorrect, PTL DEF Spec, ImplementsWindow, Promise!Spec

=============================================================================
