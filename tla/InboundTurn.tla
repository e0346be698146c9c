---------------------------- MODULE InboundTurn ----------------------------
(***************************************************************************)
(* One accepted message on its worker thread, from the background task to  *)
(* the end of the turn: process_inbound and _iter_inbound                  *)
(* (webhooks/sendblue.py), run_turn (agents/chat_agent.py) and             *)
(* run_tool_loop (agents/loop.py).                                         *)
(*                                                                         *)
(* run_turn and the loop are generators that process_inbound drives: each  *)
(* text they yield is sent to the user while they wait, and the statements *)
(* after a yield run only when the next text is asked for.  A send that    *)
(* raises closes the waiting generator, whose finally clause then commits. *)
(* A step of the model ends at a call that can fail or that another        *)
(* process can see: model, tool, Sendblue, database.                       *)
(***************************************************************************)
EXTENDS History

CONSTANTS
  MaxRounds,    \* max_agent_iterations
  MaxCalls,     \* bound: tool calls in one model answer
  MaxChunks,    \* bound: chunks of one text
  PriorHistories   \* histories the session can have before the turn

Me      == 1       \* this turn
Earlier == 0       \* any turn before it

Message == [turn : {Me, Earlier}, role : Roles, group : 0..MaxRounds,
            n : 0..MaxCalls]

ASSUME TurnBoundsAssumption ==
  /\ MaxRounds \in Nat /\ MaxCalls \in Nat \ {0}
  /\ MaxChunks \in Nat \ {0}

\* Earlier turns leave any messages behind: a failed turn's unanswered calls
\* are spliced in like the rest, and trimming cuts results from their calls.
ASSUME PriorAssumption ==
  PriorHistories \subseteq Seq({m \in Message : m.turn = Earlier})

VARIABLES
  pc,           \* what the thread does next
  media,        \* what the message carries beside its text
  caption,      \* TRUE: the message has text
  prior,        \* the shared history when the turn begins
  working,      \* the private copy of the history
  round,        \* iterations begun
  pending,      \* tool calls of the current group still to run
  acked,        \* before_tool has announced a delegation
  speech,       \* the text being handed to the user
  typing,       \* the typing pulse runs
  row,          \* the durable turn: [status, msgs]
  consolidated, \* the turn was handed to the memory consolidator
  yielded,      \* history: texts the generators yielded, and which were sent
  executed,     \* history: tool calls run, in order
  produced,     \* history: every message the turn appended
  trouble       \* history: which outside calls have failed

vars == <<pc, media, caption, prior, working, round, pending, acked, speech,
          typing, row, consolidated, yielded, executed, produced, trouble>>

input    == <<media, caption, prior>>

turnVars == <<working, round, pending, acked, executed, produced>>
dbVars   == <<row, consolidated>>

MediaKinds ==
  {"none",          \* no media_url
   "usable",        \* downloaded, and the model takes its kind
   "blind model",   \* has_multimodal() is false
   "other kind",    \* downloaded, but supports_media(kind) is false
   "unsupported",   \* UnsupportedAttachment: the caption alone is used
   "unreachable"}   \* MediaDownloadError

ToolNames == {"ack", "spawn", "other"}
Kinds     == {"ack", "fallback", "reply", "limit", "refusal", "error"}

NoSpeech == [kind |-> "none", chunks |-> 0, next |-> "none"]

Places == {"screen", "begin", "chat", "call", "execute", "speak", "send",
           "finish", "commit", "close", "consolidate", "apologise", "done",
           "dead"}

-----------------------------------------------------------------------------

Init ==
  /\ pc = "screen"
  /\ media \in MediaKinds /\ caption \in BOOLEAN
  /\ media = "none" => caption          \* handle_receive drops empty messages
  /\ prior \in PriorHistories
  /\ working = <<>> /\ round = 0 /\ pending = <<>> /\ acked = FALSE
  /\ speech = NoSpeech
  /\ typing = TRUE                      \* with pulse:
  /\ row = [status |-> "absent", msgs |-> <<>>]
  /\ consolidated = FALSE
  /\ yielded = <<>> /\ executed = <<>> /\ produced = <<>> /\ trouble = {}

\* The generator yields a text and waits; next is where it resumes.
Yield(kind, chunks, next) ==
  /\ speech' = [kind |-> kind, chunks |-> chunks, next |-> next]
  /\ pc' = "speak"

Texts      == 0..MaxChunks    \* formatting can leave nothing of a text
FixedTexts == 1..MaxChunks    \* the program's own texts never vanish

-----------------------------------------------------------------------------
(***************************************************************************)
(* _iter_inbound: attachments.                                             *)
(***************************************************************************)

Refuse ==
  /\ pc = "screen"
  /\ media \in {"blind model", "other kind"}
  /\ \E c \in FixedTexts : Yield("refusal", c, "done")
  /\ UNCHANGED <<input, turnVars, typing, dbVars, yielded, trouble>>

DownloadFails ==
  /\ pc = "screen"
  /\ media = "unreachable"
  /\ \E c \in FixedTexts : Yield("error", c, "done")
  /\ UNCHANGED <<input, turnVars, typing, dbVars, yielded, trouble>>

\* Nothing is left of the message: the generator returns at once.
DropUnusable ==
  /\ pc = "screen"
  /\ media = "unsupported" /\ ~caption
  /\ pc' = "done" /\ typing' = FALSE
  /\ UNCHANGED <<input, turnVars, speech, dbVars, yielded, trouble>>

Admit ==
  /\ pc = "screen"
  /\ \/ media \in {"none", "usable"}
     \/ media = "unsupported" /\ caption
  /\ pc' = "begin"
  /\ UNCHANGED <<input, turnVars, speech, typing, dbVars, yielded,
                 trouble>>

-----------------------------------------------------------------------------
(***************************************************************************)
(* run_turn: _begin_turn, and the loop.                                    *)
(***************************************************************************)

Begin ==
  /\ pc = "begin"
  /\ working' = Trim(Append(prior, UserMessage(Me)))
  /\ row' = [status |-> "processing", msgs |-> <<UserMessage(Me)>>]
  /\ pc' = "chat"
  /\ UNCHANGED <<input, round, pending, acked, executed, produced,
                 speech, typing, consolidated, yielded, trouble>>

\* Context, prompt or insert raises while working is still None: no commit.
BeginFails ==
  /\ pc = "begin"
  /\ pc' = "apologise" /\ typing' = FALSE
  /\ trouble' = trouble \cup {"begin"}
  /\ UNCHANGED <<input, turnVars, speech, dbVars, yielded>>

\* The calls of the tool name, in the order of the model's answer.
CallsOf(calls, name) ==
  Extract(calls, {i \in DOMAIN calls : calls[i].name = name})

\* Mutant: of several acknowledgements only the first is kept.
Ordered_OneAck(calls) ==
  Extract(CallsOf(calls, "ack"), {i \in DOMAIN CallsOf(calls, "ack") : i = 1})
    \o CallsOf(calls, "other") \o CallsOf(calls, "spawn")

\* _order_chat_tool_calls: acknowledgements first, delegations last, stable.
Ordered(calls) ==
  CallsOf(calls, "ack") \o CallsOf(calls, "other") \o CallsOf(calls, "spawn")

\* The model asks for tools.
ChatCalls ==
  /\ pc = "chat" /\ round < MaxRounds
  /\ \E k \in 1..MaxCalls : \E names \in [1..k -> ToolNames] :
       LET m == CallsMessage(Me, round + 1, k)
       IN  /\ working' = Append(working, m)
           /\ produced' = Append(produced, m)
           /\ pending' = Ordered([i \in 1..k |-> [name |-> names[i], n |-> i]])
  /\ round' = round + 1
  /\ pc' = "call"
  /\ UNCHANGED <<input, acked, executed, speech, typing, dbVars,
                 yielded, trouble>>

\* The turn ends with a text: the model's, or the notice that the rounds are
\* used up.  The message is in the working copy before it is yielded.
EndWith(kind, texts) ==
  /\ working' = Trim(Append(working, TextMessage(Me)))
  /\ produced' = Append(produced, TextMessage(Me))
  /\ \E c \in texts : Yield(kind, c, "finish")
  /\ UNCHANGED <<input, pending, acked, executed, typing, dbVars,
                 yielded, trouble>>

\* Mutant: the iterations are not counted.
ChatText_Unbounded ==
  /\ pc = "chat"
  /\ round' = round + 1
  /\ EndWith("reply", Texts)

ChatText ==
  /\ pc = "chat" /\ round < MaxRounds
  /\ round' = round + 1
  /\ EndWith("reply", Texts)

\* Mutant: one iteration too many is waited for.
GiveUp_OffByOne ==
  /\ pc = "chat" /\ round = MaxRounds + 1
  /\ EndWith("limit", FixedTexts)
  /\ UNCHANGED round

GiveUp ==
  /\ pc = "chat" /\ round = MaxRounds
  /\ EndWith("limit", FixedTexts)
  /\ UNCHANGED round

\* The model cannot be reached or times out: run_turn commits and re-raises.
ChatFails ==
  /\ pc = "chat" /\ round < MaxRounds
  /\ round' = round + 1
  /\ pc' = "close" /\ trouble' = trouble \cup {"chat"}
  /\ UNCHANGED <<input, working, pending, acked, executed, produced,
                 speech, typing, dbVars, yielded>>

\* Mutant: a delegation is never announced.
NeedsPing_AckOnly(call) == call.name = "ack"

\* before_tool yields for an acknowledgement, and for a delegation that was
\* not announced yet.
NeedsPing(call) == call.name = "ack" \/ (call.name = "spawn" /\ ~acked)

Ping ==
  /\ pc = "call" /\ NeedsPing(Head(pending))
  /\ acked' = TRUE
  /\ IF Head(pending).name = "ack"
     THEN \E c \in Texts : Yield("ack", c, "execute")
     ELSE \E c \in FixedTexts : Yield("fallback", c, "execute")
  /\ UNCHANGED <<input, working, round, pending, executed, produced,
                 typing, dbVars, yielded, trouble>>

\* The message of an acknowledgement is no string: strip raises in
\* before_tool, and with it the loop.
PingRaises ==
  /\ pc = "call" /\ Head(pending).name = "ack"
  /\ pc' = "close" /\ trouble' = trouble \cup {"ping"}
  /\ UNCHANGED <<input, turnVars, speech, typing, dbVars, yielded>>

\* tools.execute: an unknown tool, bad arguments and a tool that raises give
\* a string like any result.
Result(call) == ToolMessage(Me, round, call.n)

\* After the last call of a group the history is trimmed and the model is
\* asked again.
Execute ==
  /\ \/ pc = "execute"
     \/ pc = "call" /\ ~NeedsPing(Head(pending))
  /\ LET call   == Head(pending)
         result == Result(call)
         rest   == Tail(pending)
     IN  /\ executed' = Append(executed, [name |-> call.name, round |-> round])
         /\ produced' = Append(produced, result)
         /\ pending' = rest
         /\ working' = IF rest = <<>> THEN Trim(Append(working, result))
                                      ELSE Append(working, result)
         /\ pc' = IF rest = <<>> THEN "chat" ELSE "call"
  /\ UNCHANGED <<input, round, acked, speech, typing, dbVars, yielded,
                 trouble>>

-----------------------------------------------------------------------------
(***************************************************************************)
(* process_inbound: handing a yielded text to the user.                    *)
(***************************************************************************)

\* The text is done with: the generator is asked for the next one.
Resume ==
  /\ yielded' = Append(yielded, [kind |-> speech.kind, round |-> round,
                                 sent |-> pc = "send"])
  /\ pc' = speech.next
  /\ speech' = NoSpeech
  /\ typing' = (speech.next # "done")

\* Nothing remains after formatting: skipped with a warning, and the
\* generator is not told that the user saw nothing.
SkipBlank ==
  /\ pc = "speak" /\ speech.chunks = 0
  /\ Resume
  /\ UNCHANGED <<input, turnVars, dbVars, trouble>>

PausePulse ==
  /\ pc = "speak" /\ speech.chunks > 0
  /\ typing' = FALSE /\ pc' = "send"
  /\ UNCHANGED <<input, turnVars, speech, dbVars, yielded, trouble>>

SendChunk ==
  /\ pc = "send"
  /\ IF speech.chunks > 1
     THEN /\ speech' = [speech EXCEPT !.chunks = @ - 1]
          /\ UNCHANGED <<pc, typing, yielded>>
     ELSE Resume
  /\ UNCHANGED <<input, turnVars, dbVars, trouble>>

\* Mutant: the finally clause takes a closed loop for a completed one.
SendFails_Completes ==
  /\ pc = "send"
  /\ trouble' = trouble \cup {"send"}
  /\ pc' = IF speech.next = "done" THEN "apologise" ELSE "commit"
  /\ speech' = NoSpeech
  /\ UNCHANGED <<input, turnVars, typing, dbVars, yielded>>

\* send_message raises: the waiting generator is closed.  Inside run_turn its
\* finally clause commits; in _iter_inbound there is nothing to undo.
SendFails ==
  /\ pc = "send"
  /\ trouble' = trouble \cup {"send"}
  /\ pc' = IF speech.next = "done" THEN "apologise" ELSE "close"
  /\ speech' = NoSpeech
  /\ UNCHANGED <<input, turnVars, typing, dbVars, yielded>>

-----------------------------------------------------------------------------
(***************************************************************************)
(* The finally clause of run_turn, and what process_inbound does last.     *)
(***************************************************************************)

\* run_tool_loop has returned: completed = True.
Finish ==
  /\ pc = "finish"
  /\ pc' = "commit"
  /\ UNCHANGED <<input, turnVars, speech, typing, dbVars, yielded,
                 trouble>>

Store(status) ==
  row' = [status |-> status, msgs |-> row.msgs \o OutputOf(working, Me)]

CommitCompleted ==
  /\ pc = "commit"
  /\ Store("completed")
  /\ pc' = "consolidate"
  /\ UNCHANGED <<input, turnVars, speech, typing, consolidated,
                 yielded, trouble>>

\* Mutant: the exception of the loop is swallowed.
CommitFailed_Swallows ==
  /\ pc = "close"
  /\ Store("failed")
  /\ pc' = "done" /\ typing' = FALSE
  /\ UNCHANGED <<input, turnVars, speech, consolidated, yielded,
                 trouble>>

CommitFailed ==
  /\ pc = "close"
  /\ Store("failed")
  /\ pc' = "apologise" /\ typing' = FALSE
  /\ UNCHANGED <<input, turnVars, speech, consolidated, yielded,
                 trouble>>

\* complete_turn raises and rolls back.
CommitRaises ==
  /\ pc \in {"commit", "close"}
  /\ trouble' = trouble \cup {"commit"}
  /\ pc' = "apologise" /\ typing' = FALSE
  /\ UNCHANGED <<input, turnVars, speech, dbVars, yielded>>

\* Consolidation is enabled; submit ignores a message without text.
Consolidate ==
  /\ pc = "consolidate"
  /\ consolidated' = caption
  /\ pc' = "done" /\ typing' = FALSE
  /\ UNCHANGED <<input, turnVars, speech, row, yielded, trouble>>

\* The consolidator's executor is shut down.
ConsolidateRaises ==
  /\ pc = "consolidate" /\ caption
  /\ trouble' = trouble \cup {"shutdown"}
  /\ pc' = "apologise" /\ typing' = FALSE
  /\ UNCHANGED <<input, turnVars, speech, dbVars, yielded>>

Apologise ==
  /\ pc = "apologise"
  /\ \/ /\ yielded' = Append(yielded, [kind |-> "error", round |-> round,
                                       sent |-> TRUE])
        /\ UNCHANGED trouble
     \/ /\ trouble' = trouble \cup {"send"}
        /\ UNCHANGED yielded
  /\ pc' = "done"
  /\ UNCHANGED <<input, turnVars, speech, typing, dbVars>>

\* The process dies; only the row is left.
Crash ==
  /\ pc \notin {"done", "dead"}
  /\ pc' = "dead" /\ typing' = FALSE
  /\ UNCHANGED <<input, turnVars, speech, dbVars, yielded, trouble>>

-----------------------------------------------------------------------------

Screen == Refuse \/ DownloadFails \/ DropUnusable \/ Admit
Loop   == \/ ChatCalls \/ ChatText \/ GiveUp \/ ChatFails
          \/ Ping \/ PingRaises \/ Execute
Speak  == SkipBlank \/ PausePulse \/ SendChunk \/ SendFails
Settle == \/ Finish \/ CommitCompleted \/ CommitFailed \/ CommitRaises
          \/ Consolidate \/ ConsolidateRaises \/ Apologise

Step == Screen \/ Begin \/ BeginFails \/ Loop \/ Speak \/ Settle

Next == Step \/ Crash

Spec == Init /\ [][Next]_vars

\* Every call the thread makes returns or raises within its time limit.
FairSpec == Spec /\ WF_vars(Step)
-----------------------------------------------------------------------------
(***************************************************************************)
(* Properties.                                                             *)
(***************************************************************************)

TypeOK ==
  /\ pc \in Places
  /\ media \in MediaKinds /\ caption \in BOOLEAN /\ prior \in PriorHistories
  /\ working \in Seq(Message) /\ produced \in Seq(Message)
  /\ round \in 0..MaxRounds
  /\ pending \in Seq([name : ToolNames, n : 1..MaxCalls])
  /\ acked \in BOOLEAN /\ typing \in BOOLEAN /\ consolidated \in BOOLEAN
  /\ speech \in [kind : Kinds, chunks : 0..MaxChunks, next : Places]
                  \cup {NoSpeech}
  /\ row \in [status : {"absent", "processing", "completed", "failed"},
               msgs : Seq(Message)]
  /\ yielded \in Seq([kind : Kinds, round : 0..MaxRounds, sent : BOOLEAN])
  /\ executed \in Seq([name : ToolNames, round : 0..MaxRounds])
  /\ trouble \subseteq {"begin", "chat", "ping", "send", "commit",
                          "shutdown"}

Yielded(kinds) == {i \in DOMAIN yielded : yielded[i].kind \in kinds}

\* Texts that went out in full, and texts of which formatting left nothing.
Said(kinds)  == {i \in Yielded(kinds) : yielded[i].sent}
Blank(kinds) == {i \in Yielded(kinds) : ~yielded[i].sent}

\* Before a delegation runs, its announcement has gone out in full: the ping
\* of an earlier group, of the same group (whatever order the model asked
\* in), or the fallback.  The one exception is an acknowledgement of the
\* model's own of which formatting leaves nothing: it counts as given, and
\* the delegation runs unannounced.  And the fallback is sent only when the
\* model has written no ping up to and including that group of calls
\* (before_tool, _order_chat_tool_calls and the send in process_inbound).
SpawnIsAnnounced ==
  /\ (\E i \in DOMAIN executed : executed[i].name = "spawn")
       => Said({"ack", "fallback"}) # {} \/ Blank({"ack"}) # {}
  /\ \A i \in Said({"fallback"}), k \in DOMAIN executed :
       executed[k].name = "ack" => executed[k].round > yielded[i].round

\* Whenever the model is asked, this turn has opened no gap in the history it
\* is shown: a call without its result is an earlier turn's and lacked it
\* already in the shared history, and no result of this turn stands without
\* its call unless the turn has outgrown the limit.  What earlier turns left
\* unanswered is shown as it is (_begin_turn, run_tool_loop, _trim_history).
PromptIsWellFormed ==
  pc = "chat" =>
    /\ \A i \in DOMAIN working :
         working[i].role = "calls" /\ ~Answered(working, i) =>
           \E j \in DOMAIN prior :
             prior[j] = working[i] /\ ~Answered(prior, j)
    /\ Len(produced) < MaxHistory =>
         \A i \in DOMAIN working :
           working[i].turn = Me /\ working[i].role = "tool"
             => Asked(working, i)

\* A turn is durable as completed only after its final text went out in full,
\* or after a reply of which formatting left nothing: that one is stored and
\* mined for memories although the user heard nothing.  Only completed turns
\* are mined; and when the thread is through, its durable turn is settled
\* unless storing it failed (run_turn and its finally clause: no way out
\* skips it).
CompletedMeansAnswered ==
  /\ row.status = "completed"
       => Said({"reply", "limit"}) # {} \/ Blank({"reply"}) # {}
  /\ consolidated => row.status = "completed"
  /\ pc = "done" /\ row.status = "processing" => "commit" \in trouble

\* The texts that end a turn.
Endings == {"reply", "limit", "refusal", "error"}

\* The user gets the apology after a final text only when storing the turn
\* or handing it to the consolidator failed; and a turn ends without any
\* text beyond pings only if sending failed, formatting left nothing of the
\* model's reply, or the message was an attachment nobody can use
\* (process_inbound).
UserHearsOnce ==
  pc = "done" =>
    /\ Cardinality(Said(Endings)) > 1
         => trouble \cap {"commit", "shutdown"} # {}
    /\ Said(Endings) = {} => \/ "send" \in trouble
                            \/ Blank({"reply"}) # {}
                            \/ (media = "unsupported" /\ ~caption)

\* A completed turn that fits the history limit is stored whole, however much
\* of the older history was trimmed on the way: its user message and
\* everything the loop appended, calls and results included, in order.  A
\* turn of MaxHistory messages or more loses its oldest ones, its own calls
\* among them (run_tool_loop, _commit_turn, complete_turn).
CompletedTurnIsWhole ==
  row.status = "completed" /\ Len(produced) < MaxHistory =>
    row.msgs = <<UserMessage(Me)>> \o produced

\* Every accepted message comes to an end: the loop is bounded, no generator
\* is left waiting and no exception escapes (run_tool_loop, run_turn,
\* process_inbound).
TurnEnds == <>(pc \in {"done", "dead"})

=============================================================================
