------------------------------ MODULE Summaries ------------------------------
(***************************************************************************)
(* Periodic summaries of one conversation: the second half of a            *)
(* consolidation job (memory/consolidator.py, _maybe_summarize) over the   *)
(* turn table that the turns' threads write (memory/repository.py,         *)
(* begin_turn, complete_turn, summary_batch, put_summary).                 *)
(*                                                                         *)
(* Turns overlap, so a turn can complete after a later one.  The job reads *)
(* a batch, asks the model without holding a lock, and stores the summary; *)
(* turns complete and the conversation can be cleared meanwhile.           *)
(***************************************************************************)
EXTENDS Integers, FiniteSets, Sequences

CONSTANTS
  Batch,      \* summary_every_turns, at least 2
  MaxTurns,   \* bound: turns of one era that are begun
  MaxEras,    \* bound: times the conversation is cleared
  MaxCrashes  \* bound: crashes of the process

ASSUME BatchAssumption == Batch \in Nat /\ Batch >= 2
ASSUME SummaryBoundsAssumption ==
  MaxTurns \in Nat /\ MaxEras \in Nat /\ MaxCrashes \in Nat

VARIABLES
  turns,      \* turns[n]: status of the turn with sequence n
  running,    \* sequences of the turns that a thread is working on
  owed,       \* threads between complete_turn and submit
  jobs,       \* jobs in the executor, the running one included
  worker,     \* the consolidator's thread: [stage, batch, era]
  summaries,  \* rows [first, last] with the turns they were made from
  era,        \* history: times the conversation was cleared
  crashes,    \* crashes so far
  hiccup      \* history: some completed turn had no job that ran through

vars == <<turns, running, owed, jobs, worker, summaries, era, crashes, hiccup>>

threadVars == <<turns, running, owed>>

Statuses == {"processing", "completed", "failed"}
TurnNumbers == 1..MaxTurns
Summary == [first : TurnNumbers, last : TurnNumbers,
            turns : SUBSET TurnNumbers, era : 0..MaxEras]

\* stage "idle" | "extracting" | "summarising"
Idle == [stage |-> "idle", batch |-> {}, era |-> 0]

-----------------------------------------------------------------------------

Init ==
  /\ turns = <<>> /\ running = {} /\ owed = 0
  /\ jobs = 0 /\ worker = Idle
  /\ summaries = {}
  /\ era = 0 /\ crashes = 0 /\ hiccup = FALSE

(***************************************************************************)
(* The turns' threads.                                                     *)
(***************************************************************************)

\* begin_turn: the largest sequence of the conversation plus one.
BeginTurn ==
  /\ Len(turns) < MaxTurns
  /\ turns' = Append(turns, "processing")
  /\ running' = running \cup {Len(turns) + 1}
  /\ UNCHANGED <<owed, jobs, worker, summaries, era, crashes, hiccup>>

\* complete_turn with status "completed"; the job is submitted a step later.
CompleteTurn(n) ==
  /\ n \in running
  /\ turns' = [turns EXCEPT ![n] = "completed"]
  /\ running' = running \ {n}
  /\ owed' = owed + 1
  /\ UNCHANGED <<jobs, worker, summaries, era, crashes, hiccup>>

\* complete_turn with status "failed", or it raises and the row stays open.
FailTurn(n) ==
  /\ n \in running
  /\ \/ turns' = [turns EXCEPT ![n] = "failed"]
     \/ UNCHANGED turns
  /\ running' = running \ {n}
  /\ UNCHANGED <<owed, jobs, worker, summaries, era, crashes, hiccup>>

Submit ==
  /\ owed > 0
  /\ owed' = owed - 1
  /\ jobs' = jobs + 1
  /\ UNCHANGED <<turns, running, worker, summaries, era, crashes, hiccup>>

\* A message without text (a photo) is not submitted.
SubmitNothing ==
  /\ owed > 0
  /\ owed' = owed - 1
  /\ hiccup' = TRUE
  /\ UNCHANGED <<turns, running, jobs, worker, summaries, era, crashes>>

(***************************************************************************)
(* The consolidator's thread.                                              *)
(***************************************************************************)

StartJob ==
  /\ jobs > 0 /\ worker.stage = "idle"
  /\ worker' = [Idle EXCEPT !.stage = "extracting"]
  /\ UNCHANGED <<threadVars, jobs, summaries, era, crashes, hiccup>>

EndJob == worker' = Idle /\ jobs' = jobs - 1

\* The text matches the secret pattern, or extraction fails: consolidate
\* returns before _maybe_summarize.
LeaveEarly ==
  /\ worker.stage = "extracting"
  /\ EndJob
  /\ hiccup' = TRUE
  /\ UNCHANGED <<threadVars, summaries, era, crashes>>

\* Mutant: turns up to the start of the last summary are passed over.
Fresh_FromStart ==
  {n \in DOMAIN turns : /\ turns[n] = "completed"
                        /\ \A s \in summaries : n > s.first}

\* Mutant: every turn past the last summary is taken.
Fresh_AnyStatus ==
  {n \in DOMAIN turns : \A s \in summaries : n > s.last}

\* Completed turns with a sequence beyond the end of every summary.
Fresh ==
  {n \in DOMAIN turns : /\ turns[n] = "completed"
                        /\ \A s \in summaries : n > s.last}

\* ORDER BY sequence LIMIT batch_size
Oldest(ns) == {n \in ns : Cardinality({m \in ns : m < n}) < Batch}

\* Mutant: one turn more than a batch is waited for.
Due_OffByOne == Cardinality(Fresh) > Batch

Due == Cardinality(Fresh) >= Batch

\* summary_batch finds too few turns.
NothingDue ==
  /\ worker.stage = "extracting"
  /\ ~Due
  /\ EndJob
  /\ UNCHANGED <<threadVars, summaries, era, crashes, hiccup>>

\* summary_batch reads the turns and their messages in one transaction.
PickBatch ==
  /\ worker.stage = "extracting"
  /\ Due
  /\ worker' = [stage |-> "summarising", batch |-> Oldest(Fresh), era |-> era]
  /\ UNCHANGED <<threadVars, jobs, summaries, era, crashes, hiccup>>

\* The model raises or answers with nothing, or the row cannot be stored.
SummaryFails ==
  /\ worker.stage = "summarising"
  /\ EndJob
  /\ hiccup' = TRUE
  /\ UNCHANGED <<threadVars, summaries, era, crashes>>

FirstOf(ns) == CHOOSE n \in ns : \A m \in ns : n <= m
LastOf(ns)  == CHOOSE n \in ns : \A m \in ns : m <= n

\* put_summary: one row for a range, written again if it is there.
Put(new) ==
  {s \in summaries : <<s.first, s.last>> # <<new.first, new.last>>} \cup {new}

\* The embedding that follows fails or not; the job ends.
StoreSummary ==
  /\ worker.stage = "summarising"
  /\ summaries' = Put([first |-> FirstOf(worker.batch),
                       last  |-> LastOf(worker.batch),
                       turns |-> worker.batch, era |-> worker.era])
  /\ EndJob
  /\ UNCHANGED <<threadVars, era, crashes, hiccup>>

(***************************************************************************)
(* The conversation is cleared; the process dies and is started again.     *)
(***************************************************************************)

\* clear_history deletes the turns, not the summaries.  A thread that is
\* working on a deleted turn cannot complete it any more (KeyError).
Clear ==
  /\ era < MaxEras /\ turns # <<>>
  /\ era' = era + 1
  /\ turns' = <<>> /\ running' = {}
  /\ UNCHANGED <<owed, jobs, worker, summaries, crashes, hiccup>>

CrashAndRestart ==
  /\ crashes < MaxCrashes
  /\ crashes' = crashes + 1
  /\ running' = {} /\ owed' = 0 /\ jobs' = 0 /\ worker' = Idle
  /\ hiccup' = (hiccup \/ owed > 0 \/ jobs > 0)
  /\ UNCHANGED <<turns, summaries, era>>

-----------------------------------------------------------------------------

Turn == \/ BeginTurn \/ Submit \/ SubmitNothing
        \/ \E n \in running : CompleteTurn(n) \/ FailTurn(n)

Consolidate == \/ StartJob \/ LeaveEarly \/ NothingDue \/ PickBatch
               \/ SummaryFails \/ StoreSummary

Next == Turn \/ Consolidate \/ Clear \/ CrashAndRestart

Spec == Init /\ [][Next]_vars

-----------------------------------------------------------------------------
(***************************************************************************)
(* Properties.                                                             *)
(***************************************************************************)

TypeOK ==
  /\ turns \in Seq(Statuses) /\ Len(turns) <= MaxTurns
  /\ running \subseteq DOMAIN turns
  /\ owed \in Nat /\ jobs \in Nat
  /\ worker \in [stage : {"idle", "extracting", "summarising"},
                 batch : SUBSET TurnNumbers, era : 0..MaxEras]
  /\ worker.stage # "idle" => jobs > 0
  /\ worker.stage = "summarising" => worker.batch # {}
  /\ summaries \subseteq Summary
  /\ era \in 0..MaxEras /\ crashes \in Nat /\ hiccup \in BOOLEAN

\* No two summaries cover a common stretch of the conversation, although a
\* batch is read long before its summary is stored, turns complete out of
\* order and a clear makes sequences start again (summary_batch).
RangesAreDisjoint ==
  \A s, r \in summaries : s = r \/ s.last < r.first \/ r.last < s.first

\* A summary is made from exactly Batch turns, every one of them completed,
\* and claims no more than the span from the first to the last of them.
SummariesAreWhole ==
  \A s \in summaries :
    /\ Cardinality(s.turns) = Batch
    /\ {s.first, s.last} \subseteq s.turns /\ s.turns \subseteq s.first..s.last
    /\ s.era = era => \A n \in s.turns : turns[n] = "completed"

\* The consolidator keeps up: as long as every completed turn had a job that
\* ran through, a batch waits only while a job is still to come for it.  One
\* batch for each job is enough, however late turns complete.
SummariesKeepUp == ~hiccup => Cardinality(Fresh) < Batch + owed + jobs
=============================================================================
