----------------------------- MODULE ChatTurns -----------------------------
(***************************************************************************)
(* The turns of one conversation, run by several worker threads at once    *)
(* (agents/chat_agent.py, _begin_turn, _commit_turn, clear_history), over  *)
(* the shared in-memory history and the durable turns                      *)
(* (memory/repository.py, begin_turn, complete_turn, load_history,         *)
(* clear_history).                                                         *)
(*                                                                         *)
(* _begin_turn and _commit_turn hold the history lock from their first to  *)
(* their last access to either copy, so each is one action; between them a *)
(* turn works on a private copy.  The in-memory copy is filled from the    *)
(* database when the conversation is first used after a start.             *)
(***************************************************************************)
EXTENDS History

CONSTANTS
  Turns,         \* turn ids, in the order they are numbered for the model
  MaxGroups,     \* bound: groups of tool calls in a turn
  MayFail,       \* TRUE: model and database calls can raise
  MayClear,      \* TRUE: clear_history can be called
  MaxRestarts    \* bound: restarts of the process

ASSUME ChatTurnsAssumption ==
  /\ Turns \subseteq Nat \ {0} /\ MaxGroups \in Nat /\ MaxRestarts \in Nat
  /\ MayFail \in BOOLEAN /\ MayClear \in BOOLEAN

VARIABLES
  cache,     \* _histories[session] after the system prompt, or Unloaded
  store,     \* durable turns by sequence: [turn, status, msgs]
  pc,        \* pc[t]: where the thread of turn t is
  working,   \* working[t]: its private copy of the history
  groups,    \* groups[t]: tool groups run so far
  restarts,  \* restarts so far
  drift      \* history: cache and store were changed by one step unequally

chatVars == <<cache, store, pc, working, groups, restarts, drift>>

Unloaded == "unloaded"

Places == {"new",        \* not accepted yet
           "working",    \* between _begin_turn and the end of the loop
           "answered",   \* the loop has returned
           "broken",     \* the loop raised or was closed
           "settled",    \* committed
           "raised",     \* _begin_turn or _commit_turn raised
           "lost"}       \* the process died under it

\* The messages of the durable turns, by turn and by place in the turn; all[i]
\* are those of the first i turns.
Listed(rows) ==
  LET all[i \in 0..Len(rows)] ==
        IF i = 0 THEN <<>> ELSE all[i-1] \o rows[i].msgs
  IN  all[Len(rows)]

\* load_history: the last MaxHistory - 1 messages, whatever turn they are of.
Load == LastN(Listed(store), MaxHistory - 1)

\* _history_unlocked
Hydrated == IF cache = Unloaded THEN Load ELSE cache

-----------------------------------------------------------------------------

ChatInit ==
  /\ cache = Unloaded
  /\ store = <<>>
  /\ pc = [t \in Turns |-> "new"]
  /\ working = [t \in Turns |-> <<>>]
  /\ groups = [t \in Turns |-> 0]
  /\ restarts = 0
  /\ drift = FALSE

(***************************************************************************)
(* _begin_turn.                                                            *)
(***************************************************************************)

\* The user message is appended to the shared history before it is stored.
WithUser(t) == Trim(Append(Hydrated, UserMessage(t)))

Begin(t) ==
  /\ pc[t] = "new"
  /\ cache' = WithUser(t)
  /\ working' = [working EXCEPT ![t] = WithUser(t)]
  /\ store' = Append(store, [turn |-> t, status |-> "processing",
                             msgs |-> <<UserMessage(t)>>])
  /\ pc' = [pc EXCEPT ![t] = "working"]
  /\ UNCHANGED <<groups, restarts, drift>>

\* begin_turn raises and rolls back; the shared history keeps the message.
BeginRaises(t) ==
  /\ MayFail
  /\ pc[t] = "new"
  /\ cache' = WithUser(t)
  /\ pc' = [pc EXCEPT ![t] = "raised"]
  /\ drift' = TRUE
  /\ UNCHANGED <<store, working, groups, restarts>>

(***************************************************************************)
(* The loop, on the private copy.                                          *)
(***************************************************************************)

\* One group of tool calls, answered; the copy is trimmed after it.
RunGroup(t) ==
  /\ pc[t] = "working" /\ groups[t] < MaxGroups
  /\ LET g == groups[t] + 1
     IN  working' = [working EXCEPT ![t] =
                       Trim(@ \o <<CallsMessage(t, g, 1), ToolMessage(t, g, 1)>>)]
  /\ groups' = [groups EXCEPT ![t] = @ + 1]
  /\ UNCHANGED <<cache, store, pc, restarts, drift>>

\* The final text.
Answer(t) ==
  /\ pc[t] = "working"
  /\ working' = [working EXCEPT ![t] = Trim(Append(@, TextMessage(t)))]
  /\ pc' = [pc EXCEPT ![t] = "answered"]
  /\ UNCHANGED <<cache, store, groups, restarts, drift>>

\* The model raises, or the acknowledgement cannot be sent and the loop is
\* closed with its tool calls unanswered.
Break(t) ==
  /\ MayFail
  /\ pc[t] = "working"
  /\ \/ UNCHANGED working
     \/ /\ groups[t] < MaxGroups
        /\ working' = [working EXCEPT ![t] =
                         Append(@, CallsMessage(t, groups[t] + 1, 1))]
  /\ pc' = [pc EXCEPT ![t] = "broken"]
  /\ UNCHANGED <<cache, store, groups, restarts, drift>>

(***************************************************************************)
(* _commit_turn.                                                           *)
(***************************************************************************)

NewMessages(t) == OutputOf(working[t], t)

Spliced(t) == Trim(Splice(Hydrated, t, NewMessages(t)))

UserInCache(t) == \E i \in DOMAIN Hydrated : Hydrated[i] = UserMessage(t)

RowOf(t) == {i \in DOMAIN store : store[i].turn = t}

\* Mutant: a broken loop is stored as completed.
StatusAfter_Completed(t) == "completed"

\* Mutant: the thread's state is stored instead of the turn's status.
StatusAfter_Raw(t) == pc[t]

StatusAfter(t) == IF pc[t] = "answered" THEN "completed" ELSE "failed"

Commit(t) ==
  /\ pc[t] \in {"answered", "broken"}
  /\ RowOf(t) # {}
  /\ cache' = Spliced(t)
  /\ store' = [i \in DOMAIN store |->
                 IF i \in RowOf(t)
                 THEN [store[i] EXCEPT !.status = StatusAfter(t),
                                       !.msgs = @ \o NewMessages(t)]
                 ELSE store[i]]
  /\ drift' = (drift \/ (~UserInCache(t) /\ NewMessages(t) # <<>>))
  /\ pc' = [pc EXCEPT ![t] = "settled"]
  /\ UNCHANGED <<working, groups, restarts>>

\* complete_turn raises: the database fails, or the turn was cleared away
\* (KeyError).  The shared history has been changed already.
CommitRaises(t) ==
  /\ pc[t] \in {"answered", "broken"}
  /\ MayFail \/ RowOf(t) = {}
  /\ cache' = Spliced(t)
  /\ drift' = TRUE
  /\ pc' = [pc EXCEPT ![t] = "raised"]
  /\ UNCHANGED <<store, working, groups, restarts>>

(***************************************************************************)
(* The conversation is cleared; the process dies and is started again.     *)
(***************************************************************************)

ClearHistory ==
  /\ MayClear
  /\ cache # Unloaded \/ store # <<>>
  /\ cache' = Unloaded /\ store' = <<>> /\ drift' = FALSE
  /\ UNCHANGED <<pc, working, groups, restarts>>

Active(t) == pc[t] \in {"working", "answered", "broken"}

Restart ==
  /\ restarts < MaxRestarts
  /\ restarts' = restarts + 1
  /\ cache' = Unloaded /\ drift' = FALSE
  /\ pc' = [t \in Turns |-> IF Active(t) THEN "lost" ELSE pc[t]]
  /\ UNCHANGED <<store, working, groups>>

-----------------------------------------------------------------------------

Run(t) == \/ Begin(t) \/ BeginRaises(t)
          \/ RunGroup(t) \/ Answer(t) \/ Break(t)
          \/ Commit(t) \/ CommitRaises(t)

ChatNext == (\E t \in Turns : Run(t)) \/ ClearHistory \/ Restart

ChatSpec == ChatInit /\ [][ChatNext]_chatVars

-----------------------------------------------------------------------------
(***************************************************************************)
(* Properties.                                                             *)
(***************************************************************************)

Message == [turn : Turns, role : Roles, group : 0..MaxGroups, n : 0..1]

ChatTypeOK ==
  /\ cache = Unloaded \/ cache \in Seq(Message)
  /\ store \in Seq([turn : Turns, msgs : Seq(Message),
                    status : {"processing", "completed", "failed"}])
  /\ pc \in [Turns -> Places]
  /\ working \in [Turns -> Seq(Message)]
  /\ groups \in [Turns -> 0..MaxGroups]
  /\ restarts \in 0..MaxRestarts
  /\ drift \in BOOLEAN

\* The history in memory is what a restart would load, message for message,
\* whatever order overlapping turns begin and end in (_begin_turn and
\* _commit_turn against begin_turn and complete_turn).  Three steps break
\* this and are excused until the next load (drift): begin_turn or
\* complete_turn fails when the shared history has changed already; a turn
\* ends after clear_history took its row away (KeyError); a turn ends after
\* its user message was trimmed, and its output goes to the end.
CacheMirrorsStore ==
  cache # Unloaded /\ ~drift => cache = Load

\* Overlapping turns never interleave: in the shared history the messages of
\* a turn stand together, failures and restarts included (_commit_turn).
TurnsStandTogether == cache # Unloaded => Contiguous(cache)

\* No two durable turns are the same.  The durable turn of a running thread is
\* open, that of a settled one is not.  An open turn, the one a crash left
\* open included, brings its user message into a loaded history and nothing
\* else; a completed turn ends with its answer and leaves no tool call
\* without its result: only a failed turn can do that (begin_turn,
\* complete_turn, load_history).
RowsFollowThreads ==
  /\ \A i, j \in DOMAIN store : store[i].turn = store[j].turn => i = j
  /\ \A i \in DOMAIN store :
       LET t == store[i].turn
       IN  /\ Active(t) => store[i].status = "processing"
           /\ pc[t] = "settled" => store[i].status # "processing"
           /\ store[i].status = "processing" => store[i].msgs = <<UserMessage(t)>>
           /\ store[i].status = "completed" =>
                /\ store[i].msgs[Len(store[i].msgs)] = TextMessage(t)
                /\ AllAnswered(store[i].msgs)
=============================================================================
