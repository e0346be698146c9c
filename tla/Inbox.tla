------------------------------- MODULE Inbox -------------------------------
(***************************************************************************)
(* Intake of inbound messages: the Sendblue receive webhook                *)
(* (webhooks/sendblue.py, handle_receive), the durable table of claimed    *)
(* message handles (memory/repository.py, is_duplicate_handle) and the     *)
(* background tasks that the web framework runs once the answer is sent.   *)
(*                                                                         *)
(* handle_receive is a coroutine whose only await is the request body; what *)
(* follows runs on the event loop without a break, so one delivery is one  *)
(* action.  Sendblue, the network and process crashes are the environment: *)
(* a request can be repeated until an answer 200 arrives, can be delayed   *)
(* and can be lost, and an answer can be lost.                             *)
(***************************************************************************)
EXTENDS Integers, Sequences, FiniteSets

CONSTANTS
  Posts,            \* the webhook requests Sendblue has to deliver
  Body,             \* Body[p]: what handle_receive reads from request p
  Handles,          \* message_handle values
  NoHandle,         \* a request without message_handle
  Senders,          \* phone numbers
  NoSender,         \* a request without from_number and number
  Allowed,          \* settings.allowed_numbers_set; {} admits every number
  MaxEntries,       \* _SEEN_HANDLE_MAX
  Workers,          \* threads that run background tasks
  Times,            \* readings of the wall clock
  ClockMayStepBack, \* TRUE: a reading can be smaller than an earlier one
  MaxSent,          \* bound: copies of requests that are sent
  MaxCrashes        \* bound: crashes of the process

Request == [authentic : BOOLEAN, json : BOOLEAN, outbound : BOOLEAN,
            sender : Senders \cup {NoSender}, empty : BOOLEAN,
            handle : Handles \cup {NoHandle}]

ASSUME BodyAssumption == Body \in [Posts -> Request]
ASSUME NoHandleAssumption == NoHandle \notin Handles
ASSUME CapacityAssumption == MaxEntries \in Nat \ {0}
ASSUME TimesAssumption == Times \subseteq Nat
ASSUME BoundsAssumption ==
  /\ Workers \in Nat \ {0} /\ MaxSent \in Nat /\ MaxCrashes \in Nat
  /\ ClockMayStepBack \in BOOLEAN

VARIABLES
  up,         \* the process runs
  transit,    \* transit[p]: copies of request p on their way
  sent,       \* copies of requests sent so far
  confirmed,  \* requests whose answer 200 reached Sendblue
  clock,      \* last wall-clock reading a claim was stamped with
  seen,       \* seen_handles: rows [handle, at, rowid], durable
  tasks,      \* background tasks in the order they were added
  answer,     \* the verdict of the last delivery
  crashes,    \* crashes so far
  claimed     \* history: handles claimed so far

envVars == <<transit, sent, confirmed>>
dbVars  == <<clock, seen, claimed>>
vars    == <<up, transit, sent, confirmed, clock, seen, tasks, answer, crashes,
             claimed>>

Row  == [handle : Handles, at : Times, rowid : Nat \ {0}]
Task == [post : Posts, claim : Nat,
         state : {"queued", "running", "done", "lost"}]

Verdict == {"accepted", "duplicate", "ignored", "unauthorized", "error"}
NoAnswer == [post |-> "none", verdict |-> "none"]

HandleOf(p) == Body[p].handle

-----------------------------------------------------------------------------
(***************************************************************************)
(* The checks before the handle is looked at.                              *)
(***************************************************************************)

\* verify_secret fails: the configured secret is missing or does not match.
Unauthorized(p) == ~Body[p].authentic

\* A body that is not JSON, an outbound echo, a missing sender, an empty
\* message and a number outside the allowlist are answered 200 and dropped.
Ignorable(p) ==
  \/ ~Body[p].json
  \/ Body[p].outbound
  \/ Body[p].sender = NoSender
  \/ Body[p].empty
  \/ Allowed # {} /\ Body[p].sender \notin Allowed

Admitted(p) == ~Unauthorized(p) /\ ~Ignorable(p)

-----------------------------------------------------------------------------
(***************************************************************************)
(* The table of claimed handles.                                           *)
(***************************************************************************)

\* Mutant: only the newest claim is compared.
IsClaimed_LastOnly(h) ==
  \E r \in seen : r.handle = h /\ \A q \in seen : q.rowid <= r.rowid

IsClaimed(h) == \E r \in seen : r.handle = h

\* SQLite gives a new row the largest rowid in use plus one.
NextRowid ==
  CHOOSE n \in {1} \cup {r.rowid + 1 : r \in seen} :
    \A r \in seen : r.rowid < n

\* Mutant: rows with the same stamp are not told apart.
Newer_NoTieBreak(q, r) == q.at > r.at

\* q comes before r in ORDER BY created_at DESC, rowid DESC.
Newer(q, r) == q.at > r.at \/ (q.at = r.at /\ q.rowid > r.rowid)

\* Mutant: one row less than max_entries is kept.
Newest_OffByOne(rows) ==
  {r \in rows : Cardinality({q \in rows : Newer(q, r)}) < MaxEntries - 1}

\* The rows that DELETE ... NOT IN (... LIMIT max_entries) leaves.
Newest(rows) ==
  {r \in rows : Cardinality({q \in rows : Newer(q, r)}) < MaxEntries}

-----------------------------------------------------------------------------

Init ==
  /\ up = TRUE
  /\ transit = [p \in Posts |-> 0]
  /\ sent = 0
  /\ confirmed = {}
  /\ clock \in {t \in Times : \A u \in Times : t <= u}
  /\ seen = {}
  /\ tasks = <<>>
  /\ answer = NoAnswer
  /\ crashes = 0
  /\ claimed = 0

(***************************************************************************)
(* Environment: Sendblue and the network.                                  *)
(***************************************************************************)

\* Sendblue posts a request, the first time or again, until it sees a 200.
Send(p) ==
  /\ p \notin confirmed
  /\ sent < MaxSent
  /\ sent' = sent + 1
  /\ transit' = [transit EXCEPT ![p] = @ + 1]
  /\ UNCHANGED <<up, confirmed, dbVars, tasks, answer, crashes>>

\* A copy is lost on the way, or finds the process down.
LoseRequest(p) ==
  /\ transit[p] > 0
  /\ transit' = [transit EXCEPT ![p] = @ - 1]
  /\ UNCHANGED <<up, sent, confirmed, dbVars, tasks, answer, crashes>>

\* The delivery of p ends with this verdict; an answer 200 may get lost.
Reply(p, verdict) ==
  /\ up
  /\ transit[p] > 0
  /\ transit' = [transit EXCEPT ![p] = @ - 1]
  /\ answer' = [post |-> p, verdict |-> verdict]
  /\ \/ UNCHANGED confirmed
     \/ /\ verdict \notin {"unauthorized", "error"}
        /\ confirmed' = confirmed \cup {p}
  /\ UNCHANGED <<up, sent, crashes>>

(***************************************************************************)
(* handle_receive, one action per way out of it.                           *)
(***************************************************************************)

Reject(p) ==
  /\ Unauthorized(p)
  /\ Reply(p, "unauthorized")
  /\ UNCHANGED <<dbVars, tasks>>

Ignore(p) ==
  /\ ~Unauthorized(p) /\ Ignorable(p)
  /\ Reply(p, "ignored")
  /\ UNCHANGED <<dbVars, tasks>>

\* background_tasks.add_task(self.process_inbound, ...)
AddTask(p, claim) ==
  tasks' = Append(tasks, [post |-> p, claim |-> claim, state |-> "queued"])

\* Without a handle the message cannot be deduplicated and is processed.
AcceptUnclaimed(p) ==
  /\ Admitted(p) /\ HandleOf(p) = NoHandle
  /\ Reply(p, "accepted")
  /\ AddTask(p, 0)
  /\ UNCHANGED dbVars

\* The insert conflicts with a row: nothing changes in the table.
IgnoreDuplicate(p) ==
  /\ Admitted(p) /\ HandleOf(p) # NoHandle
  /\ IsClaimed(HandleOf(p))
  /\ Reply(p, "duplicate")
  /\ UNCHANGED <<dbVars, tasks>>

\* The insert succeeds; insert and eviction commit together, before the
\* task is added and long before it runs.
Claim(p) ==
  /\ Admitted(p) /\ HandleOf(p) # NoHandle
  /\ ~IsClaimed(HandleOf(p))
  /\ \E now \in Times :
       /\ ClockMayStepBack \/ now >= clock
       /\ clock' = now
       /\ seen' = Newest(seen \cup {[handle |-> HandleOf(p), at |-> now,
                                     rowid |-> NextRowid]})
  /\ claimed' = claimed + 1
  /\ AddTask(p, claimed + 1)
  /\ Reply(p, "accepted")

\* The database raises (locked, full): rolled back, answered 500.
ClaimFails(p) ==
  /\ Admitted(p) /\ HandleOf(p) # NoHandle
  /\ Reply(p, "error")
  /\ UNCHANGED <<dbVars, tasks>>

(***************************************************************************)
(* Background tasks and the life of the process.                           *)
(***************************************************************************)

Running == {i \in DOMAIN tasks : tasks[i].state = "running"}

StartTask(i) ==
  /\ up
  /\ tasks[i].state = "queued"
  /\ Cardinality(Running) < Workers
  /\ tasks' = [tasks EXCEPT ![i].state = "running"]
  /\ UNCHANGED <<up, envVars, dbVars, answer, crashes>>

\* process_inbound returns; it catches every exception of its own.
FinishTask(i) ==
  /\ up
  /\ tasks[i].state = "running"
  /\ tasks' = [tasks EXCEPT ![i].state = "done"]
  /\ UNCHANGED <<up, envVars, dbVars, answer, crashes>>

\* The process dies: tasks live in memory only, the table is on disk.
Crash ==
  /\ up
  /\ crashes < MaxCrashes
  /\ crashes' = crashes + 1
  /\ up' = FALSE
  /\ tasks' = [i \in DOMAIN tasks |->
                 IF tasks[i].state \in {"queued", "running"}
                 THEN [tasks[i] EXCEPT !.state = "lost"]
                 ELSE tasks[i]]
  /\ answer' = NoAnswer
  /\ UNCHANGED <<envVars, dbVars>>

Restart ==
  /\ ~up
  /\ up' = TRUE
  /\ UNCHANGED <<envVars, dbVars, tasks, answer, crashes>>

-----------------------------------------------------------------------------

Environment == \E p \in Posts : Send(p) \/ LoseRequest(p)

HandleReceive ==
  \E p \in Posts :
    \/ Reject(p) \/ Ignore(p)
    \/ AcceptUnclaimed(p) \/ IgnoreDuplicate(p) \/ Claim(p) \/ ClaimFails(p)

RunTasks == \E i \in DOMAIN tasks : StartTask(i) \/ FinishTask(i)

Next == Environment \/ HandleReceive \/ RunTasks \/ Crash \/ Restart

Spec == Init /\ [][Next]_vars

-----------------------------------------------------------------------------
(***************************************************************************)
(* Properties.                                                             *)
(***************************************************************************)

TypeOK ==
  /\ up \in BOOLEAN
  /\ transit \in [Posts -> Nat]
  /\ sent \in Nat
  /\ confirmed \subseteq Posts
  /\ clock \in Times
  /\ seen \subseteq Row
  /\ tasks \in Seq(Task)
  /\ answer \in [post : Posts, verdict : Verdict] \cup {NoAnswer}
  /\ crashes \in Nat
  /\ claimed \in Nat

\* A message is processed a second time only when at least MaxEntries other
\* messages were accepted in between: repeated, late and concurrent
\* deliveries, lost answers and restarts never make it run twice
\* (handle_receive together with is_duplicate_handle).
AtMostOncePerWindow ==
  \A i, j \in DOMAIN tasks :
    /\ i < j
    /\ HandleOf(tasks[i].post) = HandleOf(tasks[j].post)
    /\ HandleOf(tasks[i].post) # NoHandle
    => tasks[j].claim - tasks[i].claim > MaxEntries

\* The table is exactly the record of the last MaxEntries claims: eviction
\* by created_at and rowid never drops a newer claim for an older one, and
\* never keeps one too many (is_duplicate_handle, the DELETE).
TableHoldsLatestClaims ==
  {r.handle : r \in seen} =
    {HandleOf(tasks[i].post) :
       i \in {k \in DOMAIN tasks : /\ tasks[k].claim > 0
                                   /\ tasks[k].claim > claimed - MaxEntries}}

\* "Claim message_handle; return True if it was already processed": a
\* delivery is ignored as a duplicate only when some run of its message was
\* not lost in a crash.
DuplicateWasProcessed ==
  answer.verdict = "duplicate" =>
    \E i \in DOMAIN tasks :
      /\ HandleOf(tasks[i].post) = HandleOf(answer.post)
      /\ tasks[i].state # "lost"

-----------------------------------------------------------------------------
(***************************************************************************)
(* Refinement: the table, oldest row first, is the abstract window, and    *)
(* the tasks in memory are the work owed.                                  *)
(***************************************************************************)

Oldest(rows) ==
  [i \in 1..Cardinality(rows) |->
     (CHOOSE r \in rows :
        Cardinality({q \in rows : Newer(r, q)}) = i - 1).handle]

Unsettled(h) ==
  {i \in DOMAIN tasks : /\ HandleOf(tasks[i].post) = h
                        /\ tasks[i].state \in {"queued", "running"}}

OwedWork == [h \in Handles \cup {NoHandle} |-> Cardinality(Unsettled(h))]

Promise == INSTANCE MessageWindow
  WITH Messages <- Handles, Anonymous <- NoHandle, Size <- MaxEntries,
       window <- Oldest(seen), owed <- OwedWork

\* The webhook with its table implements the window of remembered messages:
\* each step takes an unremembered message, settles one, dies or stutters
\* (handle_receive with is_duplicate_handle, the background tasks).
ImplementsWindow == Promise!Spec
=============================================================================
