--------------------------- MODULE SemanticMemory ---------------------------
(***************************************************************************)
(* Semantic memories: the rows of memories and of its full-text index      *)
(* (memory/repository.py, upsert_memory, forget_memory), the tool by which *)
(* a running turn changes them (tools/memory.py) and the background        *)
(* consolidator that extracts them from finished turns                     *)
(* (memory/consolidator.py).                                               *)
(*                                                                         *)
(* Each repository operation runs under the write lock in one transaction  *)
(* and is one action.  Storing the embedding of a row is a transaction of  *)
(* its own that changes no row; here it is only the time that passes, and  *)
(* the failure that is survived, between two rows (stage "embedding").     *)
(***************************************************************************)
EXTENDS Integers, Sequences

CONSTANTS
  Owners,        \* principals: normalized phone numbers
  Keys,          \* keys as the model or the user's agent writes them
  NoKey,         \* the empty key
  Safe,          \* Safe[k]: _safe_key(k), or NoKey when nothing is left
  Values,        \* remembered values
  Secrets,       \* values that match _SECRET_PATTERN
  MaxRows,       \* bound: rows in the table
  MaxStatements, \* bound: user messages that matter to memory
  MaxFacts       \* bound: facts in one extraction

ASSUME SafeAssumption == Safe \in [Keys -> Keys \cup {NoKey}]
ASSUME NoKeyAssumption == NoKey \notin Keys
ASSUME SecretsAssumption == Secrets \subseteq Values
ASSUME MemoryBoundsAssumption ==
  MaxRows \in Nat /\ MaxStatements \in Nat /\ MaxFacts \in Nat

VARIABLES
  rows,       \* memories in the order they were inserted
  index,      \* rows that memories_fts holds
  queue,      \* submitted jobs, oldest first, the running one in front
  worker,     \* the consolidator's thread
  open,       \* turns that run: [owner, said]
  finishing,  \* turns that completed and are not submitted yet
  said,       \* user messages so far; each has its number
  completed,  \* turns completed so far; each has its number
  submissions \* history: the completed turns submitted, in order

vars == <<rows, index, queue, worker, open, finishing, said, completed,
          submissions>>

table    == <<rows, index>>
turnVars == <<open, finishing, said, completed, submissions>>

States == {"active", "superseded", "forgotten"}
Row == [owner : Owners, key : Keys, value : Values, state : States,
        said : Nat,   \* history: the message it comes from
        job : Nat]    \* history: the submission it was extracted for, or 0
Fact == [key : Keys, value : Values]
OpenTurn == [owner : Owners, said : Nat]
FinishedTurn == [owner : Owners, said : Nat, number : Nat]
Job == [owner : Owners, said : Nat, number : Nat]

\* stage "idle" | "asking" (the model) | "storing" | "embedding"
Idle == [stage |-> "idle", facts |-> <<>>]

RowIds == DOMAIN rows

\* Mutant: superseded rows are found as well.
ActiveRow_AnyLeft(o, k) ==
  {i \in RowIds : /\ rows[i].owner = o /\ rows[i].key = k
                  /\ rows[i].state # "forgotten"}

ActiveRow(o, k) ==
  {i \in RowIds : /\ rows[i].owner = o /\ rows[i].key = k
                  /\ rows[i].state = "active"}

-----------------------------------------------------------------------------

Init ==
  /\ rows = <<>> /\ index = {}
  /\ queue = <<>> /\ worker = Idle
  /\ open = {} /\ finishing = {}
  /\ said = 0 /\ completed = 0 /\ submissions = <<>>

(***************************************************************************)
(* The repository.                                                         *)
(***************************************************************************)

\* Mutant: rows that the tool stored are never retired.
Retire_ExtractedOnly(old, state) ==
  [i \in RowIds |-> IF i \in old /\ rows[i].job > 0
                   THEN [rows[i] EXCEPT !.state = state] ELSE rows[i]]

\* The table with the rows in old moved to another state.
Retire(old, state) ==
  [i \in RowIds |-> IF i \in old THEN [rows[i] EXCEPT !.state = state]
                               ELSE rows[i]]

\* Mutant: the index entry stays.
Unindex_Nothing(old) == index

\* DELETE FROM memories_fts
Unindex(old) == index \ old

\* The active row already has the value: only its confidence is raised.
Confirms(o, k, v) == \E i \in ActiveRow(o, k) : rows[i].value = v

\* upsert_memory: the active row is superseded and leaves the index, the new
\* row enters both.
Upsert(o, k, v, message, job) ==
  \/ /\ Confirms(o, k, v)
     /\ UNCHANGED table
  \/ /\ ~Confirms(o, k, v)
     /\ Len(rows) < MaxRows
     /\ rows' = Append(Retire(ActiveRow(o, k), "superseded"),
                       [owner |-> o, key |-> k, value |-> v,
                        state |-> "active", said |-> message, job |-> job])
     /\ index' = Unindex(ActiveRow(o, k)) \cup {Len(rows) + 1}

(***************************************************************************)
(* A turn's thread: manage_memory, and the submission of finished turns.   *)
(***************************************************************************)

\* A user message starts a turn; turns overlap.
Arrive(o) ==
  /\ said < MaxStatements
  /\ said' = said + 1
  /\ open' = open \cup {[owner |-> o, said |-> said + 1]}
  /\ UNCHANGED <<table, queue, worker, finishing, completed, submissions>>

\* The agent runs the tool with operation "remember".
Remember(t, k, v) ==
  /\ t \in open
  /\ Upsert(t.owner, k, v, t.said, 0)
  /\ UNCHANGED <<queue, worker, turnVars>>

\* ... with operation "forget"; without an active row nothing happens.
Forget(t, k) ==
  /\ t \in open
  /\ ActiveRow(t.owner, k) # {}
  /\ rows' = Retire(ActiveRow(t.owner, k), "forgotten")
  /\ index' = Unindex(ActiveRow(t.owner, k))
  /\ UNCHANGED <<queue, worker, turnVars>>

\* Mutant: the newest job overtakes the others.
Enqueue_InFront(job) == queue' = <<job>> \o queue

\* The executor takes jobs from a first-in first-out queue.
Enqueue(job) == queue' = Append(queue, job)

\* complete_turn stores the turn as completed, under the history lock.
Complete(t) ==
  /\ t \in open
  /\ open' = open \ {t}
  /\ completed' = completed + 1
  /\ finishing' = finishing \cup {[owner |-> t.owner, said |-> t.said,
                                  number |-> completed + 1]}
  /\ UNCHANGED <<table, queue, worker, said, submissions>>

\* The turn or its commit fails: nothing is submitted.
Fail(t) ==
  /\ t \in open
  /\ open' = open \ {t}
  /\ UNCHANGED <<table, queue, worker, finishing, said, completed,
                 submissions>>

\* The thread that completed the turn submits its text, the lock released
\* before: another turn may complete and be submitted in between.
Submit(t) ==
  /\ t \in finishing
  /\ finishing' = finishing \ {t}
  /\ submissions' = Append(submissions, t.number)
  /\ Enqueue([owner |-> t.owner, said |-> t.said,
              number |-> Len(submissions) + 1])
  /\ UNCHANGED <<table, worker, open, said, completed>>

\* The message has no text, or the executor is shut down.
SubmitNothing(t) ==
  /\ t \in finishing
  /\ finishing' = finishing \ {t}
  /\ UNCHANGED <<table, queue, worker, open, said, completed, submissions>>

(***************************************************************************)
(* The consolidator: one thread, jobs in the order of submission.          *)
(***************************************************************************)

\* A text that matches the secret pattern ends the job before the model call.
Skip ==
  /\ queue # <<>> /\ worker.stage = "idle"
  /\ queue' = Tail(queue)
  /\ UNCHANGED <<table, worker, turnVars>>

Ask ==
  /\ queue # <<>> /\ worker.stage = "idle"
  /\ worker' = [worker EXCEPT !.stage = "asking"]
  /\ UNCHANGED <<table, queue, turnVars>>

\* Mutant: a failed job stays in the queue.
AskFails_Retries ==
  /\ worker.stage = "asking"
  /\ worker' = Idle
  /\ UNCHANGED <<queue, table, turnVars>>

\* The model raises or its answer is no JSON array.
AskFails ==
  /\ worker.stage = "asking"
  /\ worker' = Idle /\ queue' = Tail(queue)
  /\ UNCHANGED <<table, turnVars>>

Extract ==
  /\ worker.stage = "asking"
  /\ \E n \in 0..MaxFacts : \E facts \in [1..n -> Fact] :
       worker' = [worker EXCEPT !.stage = "storing", !.facts = facts]
  /\ UNCHANGED <<table, queue, turnVars>>

Storable(f) == Safe[f.key] # NoKey /\ f.value \notin Secrets

NextFact == [worker EXCEPT !.stage = "storing", !.facts = Tail(@)]

\* A fact with no key left or with a secret value, or a failing upsert.
DropFact ==
  /\ worker.stage = "storing" /\ worker.facts # <<>>
  /\ worker' = NextFact
  /\ UNCHANGED <<table, queue, turnVars>>

StoreFact ==
  /\ worker.stage = "storing" /\ worker.facts # <<>>
  /\ LET f == Head(worker.facts)
         o == Head(queue).owner
     IN  /\ Storable(f)
         /\ Upsert(o, Safe[f.key], f.value, Head(queue).said,
                   Head(queue).number)
         /\ worker' = [worker EXCEPT !.stage = "embedding"]
  /\ UNCHANGED <<queue, turnVars>>

\* The embedding is stored, or its server is down and the error is logged;
\* either way the next fact follows.
EmbedFact ==
  /\ worker.stage = "embedding"
  /\ worker' = NextFact
  /\ UNCHANGED <<table, queue, turnVars>>

\* All facts are through; the summary that follows is module Summaries.
EndJob ==
  /\ worker.stage = "storing" /\ worker.facts = <<>>
  /\ worker' = Idle /\ queue' = Tail(queue)
  /\ UNCHANGED <<table, turnVars>>

\* The process dies: turns, jobs and second steps are forgotten, the tables
\* are not.
CrashAndRestart ==
  /\ queue # <<>> \/ open # {} \/ finishing # {}
  /\ queue' = <<>> /\ worker' = Idle /\ open' = {} /\ finishing' = {}
  /\ UNCHANGED <<table, said, completed, submissions>>

-----------------------------------------------------------------------------

Turn ==
  \/ \E o \in Owners : Arrive(o)
  \/ \E t \in open :
       \/ Complete(t) \/ Fail(t)
       \/ \E k \in Keys : Forget(t, k) \/ \E v \in Values : Remember(t, k, v)
  \/ \E t \in finishing : Submit(t) \/ SubmitNothing(t)

Consolidate == \/ Skip \/ Ask \/ AskFails \/ Extract
               \/ DropFact \/ StoreFact \/ EmbedFact \/ EndJob

Next == Turn \/ Consolidate \/ CrashAndRestart

Spec == Init /\ [][Next]_vars

\* The consolidator's thread runs whenever it has a job; its calls return or
\* raise within their time limits.
FairSpec == Spec /\ WF_vars(Consolidate)

-----------------------------------------------------------------------------
(***************************************************************************)
(* Properties.                                                             *)
(***************************************************************************)

TypeOK ==
  /\ rows \in Seq(Row)
  /\ index \subseteq RowIds
  /\ queue \in Seq(Job)
  /\ worker \in [stage : {"idle", "asking", "storing", "embedding"},
                 facts : Seq(Fact)]
  /\ worker.stage # "idle" => queue # <<>>
  /\ worker.stage = "embedding" => worker.facts # <<>>
  /\ open \subseteq OpenTurn /\ finishing \subseteq FinishedTurn
  /\ said \in Nat /\ completed \in Nat /\ submissions \in Seq(Nat)

\* Of the memories an owner has under one key at most the newest is active:
\* tools and consolidator together never leave two values standing, and an
\* old value never comes back over a newer one (upsert_memory,
\* forget_memory).
LatestStands ==
  \A i, j \in RowIds :
    /\ i < j
    /\ rows[i].owner = rows[j].owner /\ rows[i].key = rows[j].key
    => rows[i].state # "active"

\* The full-text index holds exactly the active memories: nothing superseded
\* or forgotten can be found, nothing active is lost (the INSERT and DELETE
\* on memories_fts beside each change of state).
IndexMatchesActive == index = {i \in RowIds : rows[i].state = "active"}

\* A memory that was superseded or forgotten stays so, and keeps its text.
DeadStaysDead ==
  [][\A i \in RowIds :
       rows[i].state # "active" => rows'[i] = rows[i]]_vars

\* Turn a was submitted before turn b.
Overtook(a, b) ==
  \E p, q \in DOMAIN submissions :
    p < q /\ submissions[p] = a /\ submissions[q] = b

\* Facts the consolidator extracts are stored in the order in which their
\* turns completed, but for a turn that was submitted before one that had
\* completed earlier: complete_turn and submit are two steps of a turn's
\* thread, and between those of one turn another can do both.  Only there can
\* an older turn's fact be stored over a newer one's; the consolidator itself
\* never turns two jobs round (run_turn, submit, the executor's one thread).
ExtractedInOrder ==
  \A i, j \in RowIds :
    i < j /\ rows[i].job > 0 /\ rows[j].job > 0 =>
      LET a == submissions[rows[i].job]
          b == submissions[rows[j].job]
      IN  a > b => Overtook(a, b)

\* Extraction gets through its queue: no failure of the model, of the
\* database or of the embedding server blocks the jobs behind it.
QueueDrains == []<>(queue = <<>>)
=============================================================================
