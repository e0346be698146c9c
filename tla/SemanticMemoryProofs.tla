------------------------ MODULE SemanticMemoryProofs ------------------------
(***************************************************************************)
(* Theorems about SemanticMemory, for every set of owners, keys and values *)
(* and every bound.                                                        *)
(***************************************************************************)
EXTENDS SemanticMemory, SequenceTheorems, TLAPS

-----------------------------------------------------------------------------
(* What the operators on the table do. *)

\* Retiring rows keeps their number and type and changes nothing else.
LEMMA RetireType ==
  ASSUME rows \in Seq(Row), NEW old, NEW state \in States
  PROVE  /\ Retire(old, state) \in Seq(Row)
         /\ Len(Retire(old, state)) = Len(rows)
         /\ DOMAIN Retire(old, state) = RowIds
         /\ \A i \in RowIds :
              Retire(old, state)[i] = IF i \in old
                                      THEN [rows[i] EXCEPT !.state = state]
                                      ELSE rows[i]
<1>1. /\ RowIds = 1..Len(rows) /\ Len(rows) \in Nat
      /\ \A i \in RowIds : rows[i] \in Row
  BY DEF RowIds
<1>2. \A i \in RowIds : [rows[i] EXCEPT !.state = state] \in Row
  BY <1>1 DEF Row
<1>3. Retire(old, state) \in [1..Len(rows) -> Row]
  BY <1>1, <1>2 DEF Retire
<1>4. Retire(old, state) \in Seq(Row) /\ Len(Retire(old, state)) = Len(rows)
  BY <1>1, <1>3
<1> QED
  BY <1>1, <1>3, <1>4 DEF Retire

\* The row that Upsert appends.
NewRow(o, k, v, message, job) ==
  [owner |-> o, key |-> k, value |-> v, state |-> "active",
   said |-> message, job |-> job]

\* Appending a row to the table with some rows retired.
LEMMA AppendType ==
  ASSUME rows \in Seq(Row), NEW old, NEW r \in Row,
         rows' = Append(Retire(old, "superseded"), r)
  PROVE  /\ rows' \in Seq(Row)
         /\ Len(rows') = Len(rows) + 1
         /\ RowIds' = RowIds \cup {Len(rows) + 1}
         /\ Len(rows) + 1 \notin RowIds
         /\ rows'[Len(rows) + 1] = r
         /\ \A i \in RowIds : rows'[i] = IF i \in old
                                     THEN [rows[i] EXCEPT !.state = "superseded"]
                                     ELSE rows[i]
<1> DEFINE kept == Retire(old, "superseded")
<1>1. /\ kept \in Seq(Row) /\ Len(kept) = Len(rows)
      /\ \A i \in RowIds : kept[i] = IF i \in old
                                     THEN [rows[i] EXCEPT !.state = "superseded"]
                                     ELSE rows[i]
  BY RetireType DEF States
<1>2. RowIds = 1..Len(rows) /\ Len(rows) \in Nat
  BY DEF RowIds
<1> HIDE DEF kept
<1>3. rows' = Append(kept, r)
  BY DEF kept
<1>4. rows' \in Seq(Row) /\ Len(rows') = Len(rows) + 1
  <2>1. Append(kept, r) \in Seq(Row)
    BY <1>1
  <2>2. Len(Append(kept, r)) = Len(kept) + 1
    BY <1>1
  <2> QED
    BY <1>1, <1>3, <2>1, <2>2
<1>5. RowIds' = 1..(Len(rows) + 1)
  BY <1>4 DEF RowIds
<1>6. \A i \in RowIds : rows'[i] = kept[i]
  BY <1>1, <1>2, <1>3
<1>7. rows'[Len(rows) + 1] = r
  BY <1>1, <1>2, <1>3
<1> QED
  BY <1>1, <1>2, <1>4, <1>5, <1>6, <1>7

-----------------------------------------------------------------------------
(* Type correctness. *)

TableType == rows \in Seq(Row) /\ index \subseteq RowIds

LEMMA UpsertType ==
  ASSUME TableType,
         NEW o \in Owners, NEW k \in Keys, NEW v \in Values,
         NEW m \in Nat, NEW j \in Nat, Upsert(o, k, v, m, j)
  PROVE  TableType'
<1>1. CASE UNCHANGED table
  BY <1>1 DEF table, TableType, RowIds
<1>2. CASE /\ rows' = Append(Retire(ActiveRow(o, k), "superseded"),
                            NewRow(o, k, v, m, j))
           /\ index' = Unindex(ActiveRow(o, k)) \cup {Len(rows) + 1}
  <2>1. NewRow(o, k, v, m, j) \in Row
    BY DEF NewRow, Row, States
  <2>2. rows' \in Seq(Row) /\ RowIds' = RowIds \cup {Len(rows) + 1}
    BY <1>2, <2>1, AppendType DEF TableType
  <2> QED
    BY <1>2, <2>2 DEF TableType, Unindex
<1> QED
  BY <1>1, <1>2 DEF Upsert, NewRow

LEMMA ForgetType ==
  ASSUME TableType, NEW t, NEW k, Forget(t, k)
  PROVE  TableType'
<1>1. /\ rows' = Retire(ActiveRow(t.owner, k), "forgotten")
      /\ index' = Unindex(ActiveRow(t.owner, k))
  BY DEF Forget
<1>2. rows' \in Seq(Row) /\ RowIds' = RowIds
  BY <1>1, RetireType DEF TableType, States, RowIds
<1> QED
  BY <1>1, <1>2 DEF TableType, Unindex

LEMMA TypeInit == Init => TypeOK
BY SafeAssumption DEF Init, TypeOK, Idle, RowIds

LEMMA TypeNext == TypeOK /\ [Next]_vars => TypeOK'
<1> SUFFICES ASSUME TypeOK, [Next]_vars PROVE TypeOK'
  OBVIOUS
<1> USE DEF TypeOK, TableType
<1>1. ASSUME NEW o \in Owners, Arrive(o) PROVE TypeOK'
  <2>1. [owner |-> o, said |-> said + 1] \in OpenTurn
    BY DEF OpenTurn
  <2> QED
    BY <1>1, <2>1 DEF Arrive, table, RowIds
<1>2. ASSUME NEW t \in open, Complete(t) \/ Fail(t) PROVE TypeOK'
  <2>1. [owner |-> t.owner, said |-> t.said, number |-> completed + 1] \in FinishedTurn
    BY DEF OpenTurn, FinishedTurn
  <2> QED
    BY <1>2, <2>1 DEF Complete, Fail, table, RowIds
<1>13. ASSUME NEW t \in finishing, Submit(t) \/ SubmitNothing(t) PROVE TypeOK'
  <2> DEFINE job == [owner |-> t.owner, said |-> t.said,
                     number |-> Len(submissions) + 1]
  <2>1. job \in Job /\ queue \in Seq(Job) /\ t.number \in Nat
    BY DEF FinishedTurn, Job
  <2>2. \/ queue' = queue /\ submissions' = submissions
        \/ queue' = Append(queue, job) /\ submissions' = Append(submissions, t.number)
    BY <1>13 DEF Submit, SubmitNothing, Enqueue
  <2> HIDE DEF job
  <2>3. Append(queue, job) \in Seq(Job) /\ Append(queue, job) # <<>>
    BY <2>1, AppendProperties
  <2>4. Append(submissions, t.number) \in Seq(Nat)
    BY <2>1, AppendProperties
  <2>5. queue' \in Seq(Job) /\ (queue # <<>> => queue' # <<>>) /\ submissions' \in Seq(Nat)
    BY <2>1, <2>2, <2>3, <2>4
  <2> QED
    BY <1>13, <2>5 DEF Submit, SubmitNothing, table, RowIds
<1>3. ASSUME NEW t \in open, NEW k \in Keys, Forget(t, k) PROVE TypeOK'
  <2>1. TableType'
    BY <1>3, ForgetType
  <2> QED
    BY <1>3, <2>1 DEF Forget, turnVars
<1>4. ASSUME NEW t \in open, NEW k \in Keys, NEW v \in Values, Remember(t, k, v)
      PROVE  TypeOK'
  <2>1. t.owner \in Owners /\ t.said \in Nat
    BY DEF OpenTurn
  <2>2. TableType'
    BY <1>4, <2>1, UpsertType DEF Remember
  <2> QED
    BY <1>4, <2>2 DEF Remember, turnVars
<1>5. ASSUME Skip \/ AskFails PROVE TypeOK'
  <2>1. queue' \in Seq(Job)
    <3>1. queue \in Seq(Job) /\ queue # <<>> /\ queue' = Tail(queue)
      BY <1>5 DEF Skip, AskFails
    <3> QED
      BY <3>1, HeadTailProperties
  <2>2. Idle \in [stage : {"idle", "asking", "storing", "embedding"},
                  facts : Seq(Fact)]
    BY DEF Idle
  <2> QED
    BY <1>5, <2>1, <2>2 DEF Skip, AskFails, Idle, table, turnVars, RowIds
<1>6. CASE Ask
  BY <1>6 DEF Ask, table, turnVars, RowIds
<1>7. CASE Extract
  <2>0. PICK n \in 0..MaxFacts : \E facts \in [1..n -> Fact] :
          worker' = [worker EXCEPT !.stage = "storing", !.facts = facts]
    BY <1>7 DEF Extract
  <2>1. PICK facts \in [1..n -> Fact] :
          worker' = [worker EXCEPT !.stage = "storing", !.facts = facts]
    BY <2>0
  <2>2. facts \in Seq(Fact)
    <3>1. n \in Nat
      BY MemoryBoundsAssumption
    <3>2. facts \in UNION {[1..m -> Fact] : m \in Nat}
      BY <2>1, <3>1
    <3> QED
      BY <3>2, SeqDef
  <2> QED
    BY <1>7, <2>1, <2>2 DEF Extract, table, turnVars, RowIds
<1>8. ASSUME DropFact \/ EmbedFact PROVE TypeOK'
  <2>1. worker.facts # <<>>
    BY <1>8 DEF DropFact, EmbedFact
  <2>2. Tail(worker.facts) \in Seq(Fact)
    BY <2>1, HeadTailProperties
  <2> QED
    BY <1>8, <2>2 DEF DropFact, EmbedFact, NextFact, table, turnVars, RowIds
<1>9. CASE StoreFact
  <2> DEFINE f == Head(worker.facts)
             b == Head(queue)
  <2>1. /\ f \in Fact /\ b \in Job
        /\ Storable(f) /\ worker.facts # <<>> /\ queue # <<>>
        /\ Upsert(b.owner, Safe[f.key], f.value, b.said, b.number)
    BY <1>9 DEF StoreFact
  <2>2. /\ b.owner \in Owners /\ Safe[f.key] \in Keys /\ f.value \in Values
        /\ b.said \in Nat /\ b.number \in Nat
    BY <2>1, SafeAssumption DEF Storable, Fact, Job
  <2>3. TableType'
    BY <2>1, <2>2, UpsertType
  <2> HIDE DEF f, b
  <2> QED
    BY <1>9, <2>1, <2>3 DEF StoreFact, turnVars
<1>10. CASE EndJob
  <2>1. queue' \in Seq(Job)
    <3>1. queue \in Seq(Job) /\ queue # <<>> /\ queue' = Tail(queue)
      BY <1>10 DEF EndJob
    <3> QED
      BY <3>1, HeadTailProperties
  <2> QED
    BY <1>10, <2>1 DEF EndJob, Idle, table, turnVars, RowIds
<1>11. CASE CrashAndRestart
  BY <1>11 DEF CrashAndRestart, Idle, table, RowIds
<1>12. CASE UNCHANGED vars
  BY <1>12 DEF vars, RowIds
<1> QED
  BY <1>1, <1>2, <1>3, <1>4, <1>5, <1>6, <1>7, <1>8, <1>9, <1>10, <1>11, <1>12, <1>13
     DEF Next, Turn, Consolidate

\* Every reachable state is well typed, whatever tools, consolidator and
\* crashes do (all operations of SemanticMemory).
THEOREM TypeCorrect == Spec => []TypeOK
<1>1. Init => TypeOK
  BY TypeInit
<1>2. TypeOK /\ [Next]_vars => TypeOK'
  BY TypeNext
<1> QED
  BY <1>1, <1>2, PTL DEF Spec

-----------------------------------------------------------------------------
(* The three ways in which a step treats the table. *)

Inserts(o, k, v, m, j) ==
  /\ rows' = Append(Retire(ActiveRow(o, k), "superseded"), NewRow(o, k, v, m, j))
  /\ index' = Unindex(ActiveRow(o, k)) \cup {Len(rows) + 1}

Forgets(o, k) ==
  /\ rows' = Retire(ActiveRow(o, k), "forgotten")
  /\ index' = Unindex(ActiveRow(o, k))

\* A new row comes from the tool or from the job in front.
FromFront(j) == j = 0 \/ (queue # <<>> /\ j = Head(queue).number)

LEMMA TableSteps ==
  ASSUME TypeOK, [Next]_vars
  PROVE  \/ UNCHANGED table
         \/ \E o \in Owners, k \in Keys, v \in Values, m \in Nat, j \in Nat :
              /\ Inserts(o, k, v, m, j) /\ FromFront(j)
              /\ UNCHANGED <<queue, submissions>>
         \/ \E o \in Owners, k \in Keys : Forgets(o, k)
<1>1. ASSUME NEW o \in Owners, NEW k \in Keys, NEW v \in Values,
             NEW m \in Nat, NEW j \in Nat, Upsert(o, k, v, m, j)
      PROVE  UNCHANGED table \/ Inserts(o, k, v, m, j)
  BY <1>1 DEF Upsert, Inserts, NewRow
<1>2. ASSUME NEW t \in open, NEW k \in Keys, NEW v \in Values, Remember(t, k, v)
      PROVE  \/ UNCHANGED table
             \/ \E m \in Nat : /\ Inserts(t.owner, k, v, m, 0) /\ FromFront(0)
                              /\ UNCHANGED <<queue, submissions>>
  <2>1. t.owner \in Owners /\ t.said \in Nat
    BY DEF TypeOK, OpenTurn
  <2> QED
    BY <1>1, <1>2, <2>1 DEF Remember, FromFront, turnVars
<1>3. ASSUME NEW t \in open, NEW k \in Keys, Forget(t, k)
      PROVE  Forgets(t.owner, k) /\ t.owner \in Owners
  BY <1>3 DEF Forget, Forgets, TypeOK, OpenTurn
<1>4. CASE StoreFact
  <2> DEFINE f == Head(worker.facts)
             b == Head(queue)
  <2>1. /\ f \in Fact /\ b \in Job /\ Storable(f)
        /\ Upsert(b.owner, Safe[f.key], f.value, b.said, b.number)
    BY <1>4 DEF StoreFact, TypeOK
  <2>2. /\ b.owner \in Owners /\ Safe[f.key] \in Keys /\ f.value \in Values
        /\ b.said \in Nat /\ b.number \in Nat
    BY <2>1, SafeAssumption DEF Storable, Fact, Job
  <2>3. FromFront(b.number) /\ UNCHANGED <<queue, submissions>>
    <3>1. queue # <<>>
      BY <1>4 DEF StoreFact, TypeOK
    <3> QED
      BY <1>4, <3>1 DEF StoreFact, FromFront, turnVars
  <2> HIDE DEF f, b
  <2> QED
    BY <1>1, <2>1, <2>2, <2>3
<1>5. ASSUME \/ \E o \in Owners : Arrive(o)
             \/ \E t \in open : Complete(t) \/ Fail(t)
             \/ \E t \in finishing : Submit(t) \/ SubmitNothing(t)
             \/ Skip \/ Ask \/ AskFails \/ Extract \/ DropFact \/ EmbedFact
             \/ EndJob \/ CrashAndRestart \/ UNCHANGED vars
      PROVE  UNCHANGED table
  BY <1>5 DEF Arrive, Complete, Fail, Submit, SubmitNothing, Skip, Ask, AskFails, Extract, DropFact,
              EmbedFact, EndJob, CrashAndRestart, vars, table
<1>6. \A t \in open : t.owner \in Owners
  BY DEF TypeOK, OpenTurn
<1>7. CASE \E t \in open, k \in Keys, v \in Values : Remember(t, k, v)
  <2>1. 0 \in Nat
    OBVIOUS
  <2> QED
    BY <1>2, <1>6, <1>7, <2>1
<1>8. CASE \E t \in open, k \in Keys : Forget(t, k)
  BY <1>3, <1>8
<1> QED
  BY <1>4, <1>5, <1>7, <1>8 DEF Next, Turn, Consolidate

-----------------------------------------------------------------------------
(* What is active. *)

TableInv == TypeOK /\ LatestStands /\ IndexMatchesActive

\* After a retirement no row of the owner and key is active.
LEMMA RetiredIsInactive ==
  ASSUME TypeOK, NEW o, NEW k, NEW state \in {"superseded", "forgotten"}
  PROVE  \A i \in RowIds :
           LET r == Retire(ActiveRow(o, k), state)[i]
           IN  /\ r.owner = rows[i].owner /\ r.key = rows[i].key
               /\ i \in ActiveRow(o, k) => r.state = state
               /\ i \notin ActiveRow(o, k) => r = rows[i]
<1>1. state \in States /\ rows \in Seq(Row)
  BY DEF States, TypeOK
<1>2. SUFFICES ASSUME NEW i \in RowIds
               PROVE  LET r == Retire(ActiveRow(o, k), state)[i]
                      IN  /\ r.owner = rows[i].owner /\ r.key = rows[i].key
                          /\ i \in ActiveRow(o, k) => r.state = state
                          /\ i \notin ActiveRow(o, k) => r = rows[i]
  OBVIOUS
<1>3. rows[i] \in Row
  BY <1>1 DEF RowIds
<1>4. Retire(ActiveRow(o, k), state)[i] =
        IF i \in ActiveRow(o, k) THEN [rows[i] EXCEPT !.state = state]
                                 ELSE rows[i]
  BY <1>1, RetireType
<1> QED
  BY <1>3, <1>4 DEF Row

LEMMA ForgetKeeps ==
  ASSUME TableInv, NEW o \in Owners, NEW k \in Keys, Forgets(o, k)
  PROVE  LatestStands' /\ IndexMatchesActive'
<1>1. RowIds' = RowIds
  BY RetireType DEF Forgets, TableInv, TypeOK, States, RowIds
<1>2. \A i \in RowIds :
        /\ rows'[i].owner = rows[i].owner /\ rows'[i].key = rows[i].key
        /\ i \in ActiveRow(o, k) => rows'[i].state = "forgotten"
        /\ i \notin ActiveRow(o, k) => rows'[i] = rows[i]
  BY RetiredIsInactive DEF Forgets, TableInv
<1>3. LatestStands'
  BY <1>1, <1>2 DEF TableInv, LatestStands
<1>4. IndexMatchesActive'
  BY <1>1, <1>2 DEF TableInv, IndexMatchesActive, Forgets, Unindex, ActiveRow
<1> QED
  BY <1>3, <1>4

LEMMA InsertKeeps ==
  ASSUME TableInv, NEW o \in Owners, NEW k \in Keys, NEW v \in Values,
         NEW m \in Nat, NEW j \in Nat, Inserts(o, k, v, m, j)
  PROVE  LatestStands' /\ IndexMatchesActive'
<1> DEFINE n == Len(rows) + 1
<1>1. NewRow(o, k, v, m, j) \in Row
  BY DEF NewRow, Row, States
<1>2. /\ RowIds' = RowIds \cup {n} /\ n \notin RowIds
      /\ rows'[n] = NewRow(o, k, v, m, j)
      /\ \A i \in RowIds :
           rows'[i] = Retire(ActiveRow(o, k), "superseded")[i]
  <2>1. rows \in Seq(Row)
    BY DEF TableInv, TypeOK
  <2>2. rows' = Append(Retire(ActiveRow(o, k), "superseded"),
                       NewRow(o, k, v, m, j))
    BY DEF Inserts
  <2>3. /\ RowIds' = RowIds \cup {n} /\ n \notin RowIds
        /\ rows'[n] = NewRow(o, k, v, m, j)
        /\ \A i \in RowIds : rows'[i] = IF i \in ActiveRow(o, k)
                                THEN [rows[i] EXCEPT !.state = "superseded"]
                                ELSE rows[i]
    BY <1>1, <2>1, <2>2, AppendType
  <2>4. \A i \in RowIds : Retire(ActiveRow(o, k), "superseded")[i] =
                             IF i \in ActiveRow(o, k)
                             THEN [rows[i] EXCEPT !.state = "superseded"]
                             ELSE rows[i]
    BY <2>1, RetireType DEF States
  <2> QED
    BY <2>3, <2>4
<1>3. \A i \in RowIds :
        /\ rows'[i].owner = rows[i].owner /\ rows'[i].key = rows[i].key
        /\ i \in ActiveRow(o, k) => rows'[i].state = "superseded"
        /\ i \notin ActiveRow(o, k) => rows'[i] = rows[i]
  BY <1>2, RetiredIsInactive DEF TableInv
<1>4. n \in Nat /\ \A i \in RowIds : i < n /\ i \in Nat
  BY DEF RowIds, TableInv, TypeOK
<1>5. /\ rows'[n].owner = o /\ rows'[n].key = k /\ rows'[n].state = "active"
  BY <1>2 DEF NewRow
<1> HIDE DEF n
<1>6. LatestStands'
  <2> SUFFICES ASSUME NEW a \in RowIds', NEW b \in RowIds', a < b,
                      rows'[a].owner = rows'[b].owner,
                      rows'[a].key = rows'[b].key
               PROVE  rows'[a].state # "active"
    BY DEF LatestStands
  <2>1. a \in RowIds
    BY <1>2, <1>4
  <2>2. CASE b = n
    BY <1>3, <1>5, <2>1, <2>2 DEF ActiveRow
  <2>3. CASE b \in RowIds
    BY <1>3, <2>1, <2>3 DEF TableInv, LatestStands
  <2> QED
    BY <1>2, <2>2, <2>3
<1>7. IndexMatchesActive'
  <2>1. index' = (index \ ActiveRow(o, k)) \cup {n}
    BY DEF Inserts, Unindex, n
  <2>2. index = {i \in RowIds : rows[i].state = "active"}
    BY DEF TableInv, IndexMatchesActive
  <2>3. index' = {i \in RowIds' : rows'[i].state = "active"}
    BY <1>2, <1>3, <1>5, <2>1, <2>2
  <2> QED
    BY <2>3 DEF IndexMatchesActive
<1> QED
  BY <1>6, <1>7

LEMMA TableInvNext == TableInv /\ [Next]_vars => TableInv'
<1> SUFFICES ASSUME TableInv, [Next]_vars PROVE TableInv'
  OBVIOUS
<1>1. TypeOK'
  BY TypeNext DEF TableInv
<1>2. CASE UNCHANGED table
  BY <1>1, <1>2 DEF TableInv, LatestStands, IndexMatchesActive, RowIds, table
<1>3. CASE \E o \in Owners, k \in Keys, v \in Values, m \in Nat, j \in Nat :
             Inserts(o, k, v, m, j)
  BY <1>1, <1>3, InsertKeeps DEF TableInv
<1>4. CASE \E o \in Owners, k \in Keys : Forgets(o, k)
  BY <1>1, <1>4, ForgetKeeps DEF TableInv
<1> QED
  BY <1>2, <1>3, <1>4, TableSteps DEF TableInv

LEMMA TableCorrect == Spec => []TableInv
<1>1. Init => TableInv
  BY TypeInit DEF Init, TableInv, LatestStands, IndexMatchesActive, RowIds
<1> QED
  BY <1>1, TableInvNext, PTL DEF Spec

\* At most the newest memory of an owner under a key is active
\* (upsert_memory, forget_memory).
THEOREM LatestStandsAlways == Spec => []LatestStands
<1>1. TableInv => LatestStands
  BY DEF TableInv
<1> QED
  BY <1>1, TableCorrect, PTL

\* The full-text index holds exactly the active memories (the statements on
\* memories_fts).
THEOREM IndexAlwaysMatches == Spec => []IndexMatchesActive
<1>1. TableInv => IndexMatchesActive
  BY DEF TableInv
<1> QED
  BY <1>1, TableCorrect, PTL

\* A superseded or forgotten row is never touched again, and no row is ever
\* removed (every operation on memories).
THEOREM DeadAlwaysStaysDead == Spec => DeadStaysDead
<1> DEFINE Kept == \A i \in RowIds : rows[i].state # "active" => rows'[i] = rows[i]
<1>1. ASSUME TypeOK, [Next]_vars PROVE Kept
  <2>1. CASE UNCHANGED table
    BY <2>1 DEF table
  <2>2. ASSUME NEW o \in Owners, NEW k \in Keys, NEW v \in Values,
               NEW m \in Nat, NEW j \in Nat, Inserts(o, k, v, m, j)
        PROVE  Kept
    <3>1. rows \in Seq(Row)
      BY <1>1 DEF TypeOK
    <3>2. NewRow(o, k, v, m, j) \in Row
      BY <2>2 DEF NewRow, Row, States
    <3>3. \A i \in RowIds : rows'[i] = IF i \in ActiveRow(o, k)
                                THEN [rows[i] EXCEPT !.state = "superseded"]
                                ELSE rows[i]
      BY <2>2, <3>1, <3>2, AppendType DEF Inserts
    <3> QED
      BY <3>3 DEF ActiveRow
  <2>3. ASSUME NEW o \in Owners, NEW k \in Keys, Forgets(o, k)
        PROVE  Kept
    <3>1. \A i \in RowIds : i \notin ActiveRow(o, k) => rows'[i] = rows[i]
      BY <1>1, <2>3, RetiredIsInactive DEF Forgets
    <3> QED
      BY <3>1 DEF ActiveRow
  <2> QED
    BY <1>1, <2>1, <2>2, <2>3, TableSteps
<1>2. TypeOK /\ [Next]_vars => [Kept]_vars
  BY <1>1
<1> HIDE DEF Kept
<1>3. Spec => [][Kept]_vars
  BY <1>2, TypeCorrect, PTL DEF Spec
<1> QED
  BY <1>3 DEF Kept, DeadStaysDead

-----------------------------------------------------------------------------
(* The order of extraction. *)

Submitted == Len(submissions)

\* Extracted rows stand in the order in which their turns were Submitted.
JobsInOrder ==
  \A i, j \in RowIds :
    i < j /\ rows[i].job > 0 /\ rows[j].job > 0 => rows[i].job <= rows[j].job

\* Waiting jobs stand in the order of their numbers, and no row comes from a
\* later job than one that waits.
QueueOrdered ==
  /\ \A a, b \in DOMAIN queue : a < b => queue[a].number < queue[b].number
  /\ \A a \in DOMAIN queue : queue[a].number <= Submitted

RowsBehindQueue ==
  \A i \in RowIds :
    /\ rows[i].job <= Submitted
    /\ \A a \in DOMAIN queue : rows[i].job <= queue[a].number

OrderInv == TypeOK /\ QueueOrdered /\ RowsBehindQueue /\ JobsInOrder

\* What a step does to the queue: nothing, an arrival, a departure, a crash.
LEMMA QueueSteps ==
  ASSUME TypeOK, [Next]_vars
  PROVE  \/ UNCHANGED <<queue, submissions>>
         \/ \E o \in Owners, m \in Nat, n \in Nat :
              /\ queue' = Append(queue, [owner |-> o, said |-> m,
                                         number |-> Submitted + 1])
              /\ submissions' = Append(submissions, n)
              /\ UNCHANGED table
         \/ /\ queue # <<>> /\ queue' = Tail(queue)
            /\ UNCHANGED <<submissions, rows, index>>
         \/ /\ queue' = <<>>
            /\ UNCHANGED <<submissions, rows, index>>
<1>1. ASSUME NEW t \in finishing, Submit(t)
      PROVE  \E o \in Owners, m \in Nat, n \in Nat :
               /\ queue' = Append(queue, [owner |-> o, said |-> m,
                                          number |-> Submitted + 1])
               /\ submissions' = Append(submissions, n)
               /\ UNCHANGED table
  <2>1. t.owner \in Owners /\ t.said \in Nat /\ t.number \in Nat
    BY DEF TypeOK, FinishedTurn
  <2> QED
    BY <1>1, <2>1 DEF Submit, Enqueue, Submitted
<1>2. ASSUME \/ \E o \in Owners : Arrive(o)
             \/ \E t \in open : Complete(t) \/ Fail(t)
             \/ \E t \in finishing : SubmitNothing(t)
             \/ \E t \in open, k \in Keys : Forget(t, k)
             \/ \E t \in open, k \in Keys, v \in Values : Remember(t, k, v)
             \/ Ask \/ Extract \/ DropFact \/ StoreFact \/ EmbedFact
             \/ UNCHANGED vars
      PROVE  UNCHANGED <<queue, submissions>>
  BY <1>2 DEF Arrive, Complete, Fail, SubmitNothing, Forget, Remember, Ask, Extract, DropFact, StoreFact,
              EmbedFact, vars, turnVars
<1>3. ASSUME Skip \/ AskFails \/ EndJob
      PROVE  /\ queue # <<>> /\ queue' = Tail(queue)
             /\ UNCHANGED <<submissions, rows, index>>
  BY <1>3 DEF Skip, AskFails, EndJob, TypeOK, table, turnVars
<1>4. ASSUME CrashAndRestart
      PROVE  queue' = <<>> /\ UNCHANGED <<submissions, rows, index>>
  BY <1>4 DEF CrashAndRestart, table
<1> QED
  BY <1>1, <1>2, <1>3, <1>4 DEF Next, Turn, Consolidate

LEMMA OrderNext == OrderInv /\ [Next]_vars => OrderInv'
<1> SUFFICES ASSUME OrderInv, [Next]_vars PROVE OrderInv'
  OBVIOUS
<1>1. TypeOK /\ TypeOK'
  BY TypeNext DEF OrderInv
<1>2. /\ queue \in Seq(Job) /\ Submitted \in Nat /\ rows \in Seq(Row)
      /\ \A a \in DOMAIN queue : queue[a].number \in Nat
      /\ \A i \in RowIds : rows[i].job \in Nat
      /\ RowIds = 1..Len(rows) /\ Len(rows) \in Nat
  <2>1. queue \in Seq(Job) /\ Submitted \in Nat /\ rows \in Seq(Row)
    BY <1>1, LenProperties DEF TypeOK, Submitted
  <2>2. \A a \in DOMAIN queue : queue[a] \in Job
    BY <2>1
  <2>3. \A i \in RowIds : rows[i] \in Row
    BY <2>1 DEF RowIds
  <2>4. RowIds = 1..Len(rows) /\ Len(rows) \in Nat
    BY <2>1 DEF RowIds
  <2> QED
    BY <2>1, <2>2, <2>3, <2>4 DEF Job, Row
<1>3. ASSUME UNCHANGED <<queue, submissions>> PROVE QueueOrdered'
  BY <1>3 DEF OrderInv, QueueOrdered, Submitted
<1>4. CASE UNCHANGED table /\ UNCHANGED <<queue, submissions>>
  BY <1>1, <1>3, <1>4 DEF OrderInv, QueueOrdered, RowsBehindQueue,
                          JobsInOrder, RowIds, Submitted, table
<1>5. ASSUME NEW o \in Owners, NEW k \in Keys, NEW v \in Values,
             NEW m \in Nat, NEW j \in Nat,
             Inserts(o, k, v, m, j), FromFront(j), UNCHANGED <<queue, submissions>>
      PROVE  OrderInv'
  <2> DEFINE n == Len(rows) + 1
  <2>1. NewRow(o, k, v, m, j) \in Row
    BY DEF NewRow, Row, States
  <2>2. rows' = Append(Retire(ActiveRow(o, k), "superseded"),
                       NewRow(o, k, v, m, j))
    BY <1>5 DEF Inserts
  <2>3. /\ RowIds' = RowIds \cup {n}
        /\ rows'[n] = NewRow(o, k, v, m, j)
        /\ \A i \in RowIds : rows'[i] = IF i \in ActiveRow(o, k)
                                THEN [rows[i] EXCEPT !.state = "superseded"]
                                ELSE rows[i]
    BY <1>2, <2>1, <2>2, AppendType
  <2>4. rows'[n].job = j
    BY <2>3 DEF NewRow
  <2>5. \A i \in RowIds : rows'[i].job = rows[i].job
    <3>1. \A i \in RowIds : rows[i] \in Row
      BY <1>2
    <3> QED
      BY <2>3, <3>1 DEF Row
  <2>6. /\ j <= Submitted
        /\ \A a \in DOMAIN queue : j <= queue[a].number
        /\ j > 0 => \A i \in RowIds : rows[i].job <= j
    <3>1. CASE j = 0
      BY <1>2, <3>1
    <3>2. CASE queue # <<>> /\ j = Head(queue).number
      <4>1. 1 \in DOMAIN queue /\ j = queue[1].number
        BY <1>2, <3>2
      <4>2. \A a \in DOMAIN queue : a = 1 \/ 1 < a
        BY <1>2
      <4>3. j <= Submitted
        BY <4>1 DEF OrderInv, QueueOrdered
      <4>4. \A a \in DOMAIN queue : j <= queue[a].number
        <5>1. \A a \in DOMAIN queue : 1 < a => queue[1].number < queue[a].number
          BY <4>1 DEF OrderInv, QueueOrdered
        <5>2. \A a \in DOMAIN queue : queue[a].number \in Nat
          BY <1>2
        <5> QED
          BY <4>1, <4>2, <5>1, <5>2
      <4>5. \A i \in RowIds : rows[i].job <= j
        BY <4>1 DEF OrderInv, RowsBehindQueue
      <4> QED
        BY <4>3, <4>4, <4>5
    <3> QED
      BY <1>5, <3>1, <3>2 DEF FromFront
  <2>7. \A i \in RowIds : i < n /\ i \in Nat
    BY <1>2
  <2>8. n \in Nat
    BY <1>2
  <2> HIDE DEF n
  <2>9. RowsBehindQueue'
    BY <1>5, <2>3, <2>4, <2>5, <2>6 DEF OrderInv, RowsBehindQueue, Submitted
  <2>10. JobsInOrder'
    <3> SUFFICES ASSUME NEW a \in RowIds', NEW b \in RowIds', a < b,
                        rows'[a].job > 0, rows'[b].job > 0
                 PROVE  rows'[a].job <= rows'[b].job
      BY DEF JobsInOrder
    <3>1. a \in RowIds
      BY <2>3, <2>7, <2>8
    <3>2. CASE b = n
      BY <2>4, <2>5, <2>6, <3>1, <3>2
    <3>3. CASE b \in RowIds
      BY <2>5, <3>1, <3>3 DEF OrderInv, JobsInOrder
    <3> QED
      BY <2>3, <3>2, <3>3
  <2> QED
    BY <1>1, <1>3, <1>5, <2>9, <2>10 DEF OrderInv
<1>6. ASSUME NEW o \in Owners, NEW k \in Keys, Forgets(o, k),
             UNCHANGED <<queue, submissions>>
      PROVE  OrderInv'
  <2>1. RowIds' = RowIds
    BY <1>2, <1>6, RetireType DEF Forgets, States, RowIds
  <2>2. \A i \in RowIds : rows'[i] = IF i \in ActiveRow(o, k)
                                THEN [rows[i] EXCEPT !.state = "forgotten"]
                                ELSE rows[i]
    BY <1>2, <1>6, RetireType DEF Forgets, States
  <2>3. \A i \in RowIds : rows'[i].job = rows[i].job
    <3>1. \A i \in RowIds : rows[i] \in Row
      BY <1>2
    <3> QED
      BY <2>2, <3>1 DEF Row
  <2>4. RowsBehindQueue' /\ JobsInOrder'
    BY <1>6, <2>1, <2>3 DEF OrderInv, RowsBehindQueue, JobsInOrder, Submitted
  <2> QED
    BY <1>1, <1>3, <1>6, <2>4 DEF OrderInv
<1>7. ASSUME UNCHANGED table, submissions' = submissions,
             queue # <<>>, queue' = Tail(queue)
      PROVE  OrderInv'
  <2>1. \A a \in DOMAIN queue' :
          a \in Nat /\ a + 1 \in DOMAIN queue /\ queue'[a] = queue[a + 1]
    BY <1>2, <1>7
  <2>2. QueueOrdered'
    BY <1>7, <2>1 DEF OrderInv, QueueOrdered, Submitted
  <2>3. RowsBehindQueue' /\ JobsInOrder'
    BY <1>7, <2>1
       DEF OrderInv, RowsBehindQueue, JobsInOrder, RowIds, Submitted, table
  <2> QED
    BY <1>1, <2>2, <2>3 DEF OrderInv
<1>8. ASSUME NEW o \in Owners, NEW m \in Nat, NEW c \in Nat, UNCHANGED table,
             submissions' = Append(submissions, c),
             queue' = Append(queue, [owner |-> o, said |-> m,
                                     number |-> Submitted + 1])
      PROVE  OrderInv'
  <2>0. Submitted' = Submitted + 1
    BY <1>1, <1>8 DEF TypeOK, Submitted
  <2> DEFINE job == [owner |-> o, said |-> m, number |-> Submitted + 1]
             q == Len(queue) + 1
  <2>1. job \in Job /\ job.number = Submitted + 1
    BY <1>2 DEF Job
  <2> HIDE DEF job
  <2>2. /\ DOMAIN queue' = DOMAIN queue \cup {q} /\ queue'[q] = job
        /\ \A a \in DOMAIN queue : queue'[a] = queue[a] /\ a \in Nat /\ a < q
        /\ q \in Nat
    <3>1. queue' = Append(queue, job)
      BY <1>8 DEF job
    <3> QED
      BY <1>2, <2>1, <3>1, AppendProperties
  <2> HIDE DEF q
  <2>3. QueueOrdered'
    <3>1. \A a \in DOMAIN queue : queue[a].number < Submitted + 1
      BY <1>2 DEF OrderInv, QueueOrdered
    <3> QED
      BY <1>2, <2>0, <2>1, <2>2, <3>1 DEF OrderInv, QueueOrdered
  <2>4. RowsBehindQueue' /\ JobsInOrder'
    BY <1>2, <1>8, <2>0, <2>1, <2>2
       DEF OrderInv, RowsBehindQueue, JobsInOrder, RowIds, table
  <2> QED
    BY <1>1, <2>3, <2>4 DEF OrderInv
<1>9. ASSUME UNCHANGED table, submissions' = submissions, queue' = <<>>
      PROVE  OrderInv'
  BY <1>1, <1>9 DEF OrderInv, QueueOrdered, RowsBehindQueue, JobsInOrder,
                    RowIds, Submitted, table
<1> QED
  BY <1>1, <1>4, <1>5, <1>6, <1>7, <1>8, <1>9, TableSteps, QueueSteps DEF table

\* Extracted facts are stored in the order in which their turns completed,
\* but for a turn that was submitted before one that had completed earlier
\* (run_turn, MemoryConsolidator: one thread, first in first out).
THEOREM ExtractedAlwaysInOrder == Spec => []ExtractedInOrder
<1>1. Init => OrderInv
  BY TypeInit DEF Init, OrderInv, QueueOrdered, RowsBehindQueue,
                  JobsInOrder, RowIds, Submitted
<1>2. OrderInv => ExtractedInOrder
  <2> SUFFICES ASSUME OrderInv, NEW i \in RowIds, NEW j \in RowIds, i < j,
                      rows[i].job > 0, rows[j].job > 0,
                      submissions[rows[i].job] > submissions[rows[j].job]
               PROVE  Overtook(submissions[rows[i].job], submissions[rows[j].job])
    BY DEF ExtractedInOrder
  <2> DEFINE p == rows[i].job
             q == rows[j].job
  <2>1. /\ p \in Nat /\ q \in Nat /\ p <= Len(submissions) /\ q <= Len(submissions)
        /\ submissions \in Seq(Nat) /\ p > 0 /\ q > 0
    <3>1. rows[i] \in Row /\ rows[j] \in Row /\ submissions \in Seq(Nat)
      BY DEF OrderInv, TypeOK, RowIds
    <3> QED
      BY <3>1 DEF OrderInv, RowsBehindQueue, Submitted, Row
  <2>2. p <= q
    BY DEF OrderInv, JobsInOrder
  <2> HIDE DEF p, q
  <2>3. p \in DOMAIN submissions /\ q \in DOMAIN submissions
    BY <2>1
  <2>4. submissions[p] > submissions[q]
    BY DEF p, q
  <2>5. p # q
    <3>1. submissions[q] \in Nat
      BY <2>1, <2>3
    <3> QED
      BY <2>4, <3>1
  <2>6. p < q
    BY <2>1, <2>2, <2>5
  <2>7. Overtook(submissions[p], submissions[q])
    BY <2>3, <2>6 DEF Overtook
  <2> QED
    BY <2>7 DEF p, q
<1> QED
  BY <1>1, <1>2, OrderNext, PTL DEF Spec

=============================================================================
