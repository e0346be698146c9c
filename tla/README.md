# Baka agent: a TLA+ verification project

Baka agent is a personal assistant behind an iMessage number. Sendblue posts
each inbound message to a FastAPI webhook; a worker thread runs a tool-calling
conversation with a local model and sends the texts back; what was said is kept
as durable turns in SQLite, from which a background thread extracts facts and
summaries; an MCP hub on a thread of its own connects external tools. The
program is small and almost all of its difficulty is in how these threads,
generators, transactions and network calls fit together. That is what is
modelled here. Line numbers below refer to the files of `src/`.

## 1. Inventory

| Component | State it keeps | Operations | Talks to |
|---|---|---|---|
| Receive webhook (`webhooks/sendblue.py`, `memory/repository.py` `is_duplicate_handle`) | table `seen_message_handles`, queued background tasks | `handle_receive`, claim with eviction | Sendblue (requests, retries), the message worker (background task) |
| Message worker (`process_inbound`, `_iter_inbound`; `agents/chat_agent.py` `run_turn`; `agents/loop.py`) | working copy of the history, round, pending tool calls, what was announced | screen attachments, begin, ask the model, run tools, speak, commit, apologise | history, database, model, tools, Sendblue, typing pulse, consolidator |
| Chat history and durable turns (`agents/chat_agent.py`, `memory/repository.py`) | `_histories` in memory; `conversation_turns`, `turn_messages` | `_begin_turn`, `_commit_turn`, `load_history`, `begin_turn`, `complete_turn`, `clear_history` | all message workers of one number share it |
| Semantic memory (`memory/repository.py`, `memory/consolidator.py`, `tools/memory.py`) | `memories`, its FTS5 index, the executor's queue | `upsert_memory`, `forget_memory`, `manage_memory`, `submit`, `_consolidate` | running turns and the consolidator write concurrently |
| Summaries (`memory/consolidator.py`, `memory/repository.py`) | `conversation_summaries` | `summary_batch`, `put_summary` | reads the turns that message workers write |
| Typing indicator (`_TypingPulse`) | `_active`, `_stop`, `_thread` | `start`, `stop`, `_run` | worker thread and pulse threads |
| MCP hub, OAuth device link, token store (`mcp_client/`, `tools/snaptrade.py`) | sessions, tool index, link tasks on one event loop; token files | link, poll, connect, discover, unlink, refresh, restart | tool threads submit coroutines; the application's registry is called back |
| Tool registry and wiring (`tools/registry.py`, `app.py`) | dictionary of tools | register, unregister, view | hub thread writes, turns read |
| Retrieval (`memory/retrieval.py`, `memory/repository.py`) | `embeddings`, `memory_vectors` beside memories and summaries | lexical search, embedding call, vector search, merge, `put_embedding` | turns read what turns and the consolidator write meanwhile |
| Skill index (`memory/skills.py`) | `skills`, FTS index | `sync` at start | directory of skills |
| Delegation (`tools/spawn_agent.py`, `agents/executor_agent.py`) | none beyond the call | one blocking worker loop | model, granted tools |
| Sendblue adapter, media, formatting (`messaging/`) | none | send, typing, download, transcode, chunk | Sendblue |
| Model client, performance log (`llm/`) | cache of input modalities and its time, counters | `input_modalities`, `health_check`, chat | llama.cpp, which can be exchanged under its URL; every request thread |
| Database, migrations (`memory/database.py`, `models.py`, `migrate.py`) | schema | sessions | all of the above |
| Service script (`run.sh`) | pid files | start, stop, status | processes |

What is hard in it, and what makes each component correct:

- **Receive webhook.** Sendblue repeats a request until it sees a 200; copies
  are late, lost and concurrent, answers are lost, the process dies between the
  claim of a message and its task. Correct: a message runs once within the
  window of remembered messages, and eviction keeps exactly the newest claims.
- **Message worker.** A chain of three generators in which a failed send closes
  the ones that wait, and a `finally` clause commits whatever there is. Correct:
  the user is told of a delegation before it blocks, hears one ending and not
  two, a turn never stays open, a stored "completed" turn was answered, and no
  turn leaves a tool call without its result unless it failed. The code keeps
  the first and the fourth but for texts of which formatting leaves nothing.
- **Chat history.** A cache and a table changed by overlapping turns, each from
  a private copy taken earlier. Correct: the cache is what a restart would load,
  and turns do not interleave in it.
- **Semantic memory.** Two writers, soft-deleted rows, a separate index, and
  facts extracted late. Correct: one value stands per key, the index equals the
  active rows, dead rows stay dead, facts are stored in the order their turns
  were submitted, the queue drains.
- **Summaries.** A batch is read, the model is asked without a lock, turns
  complete out of order, the conversation is cleared in between. Correct:
  disjoint ranges of whole batches, and summaries that keep up.
- **Typing indicator.** A join with a timeout, an event that is cleared for the
  next thread, a signal sent after the lock is released. Correct: silence after
  stop, threads that end, a start that is seen.
- **Skill index.** The directory is edited while it is read, each file is three
  transactions, and the vector table may be there or not. Correct: the search
  tables agree with what they were made from, and once edits cease the agent
  finds what the files say.
- **Retrieval.** Four reads in transactions of their own with a call to another
  server between them; the hits of the first are old when the last is done, the
  server fails, dead rows and other people's crowd the nearest neighbours.
  Correct: the model is told only what was in force during this retrieval, no
  failure loses what the words find, a near memory is found unless crowded out.
- **Model client.** A value and its time are written one after the other by any
  thread, without a lock, after requests between which the server changes; a
  failed probe is cached like an answer. Correct: an answer is never older than
  the cache allows, and follows the server once that is stable.
- **MCP hub.** Coroutines interleave at every await and are cancelled at any of
  them. Correct: every running link can be cancelled, an unlink is final, the
  application offers the tools the hub has.

`PROJECT.json` lists 40 hazards at their lines, with the properties that would
catch each. Seven have no property: in six the code does what one would not
wish, and the note says where the model has the case; one lies below the steps
of the models.

## 2. Modules

| Module | Models | Checked by | Proved in |
|---|---|---|---|
| `MessageWindow` | abstract promise of the inbox | refined by `Inbox` | `InboxProofs` |
| `Inbox`, `MCInbox` | `handle_receive`, handle table, background tasks, crashes, network | `MCInbox_dedupe`, `MCInbox_crash` | `InboxProofs` |
| `History` | messages, trimming, splicing (`_trim_history`, `_commit_turn`) | through the two below | `HistoryProofs` |
| `InboundTurn`, `MCInboundTurn` | one message on its worker thread | `MCInboundTurn_turn` | `WorkerProofs` |
| `ChatTurns` | overlapping turns over cache and table | `ChatTurns_session` | `ConversationProofs` |
| `SemanticMemory`, `MCSemanticMemory` | memories, index, tool, consolidator | `MCSemanticMemory_rows` | `SemanticMemoryProofs` |
| `Summaries` | turns, jobs, batches, summaries | `Summaries_periodic` | `ConversationProofs` |
| `TypingPulse` | the pulse object and its threads | `TypingPulse` | `WorkerProofs` |
| `Recall`, `MCRecall` | a retrieval beside writers, with vectors and without | `MCRecall_context`, `MCRecall_ranking` | `RecallProofs` |
| `ModelClient`, `MCModelClient` | the modality cache, its probes, an exchanged server | `MCModelClient_probe` | `ServerProofs` |
| `McpHub` | one OAuth server on the hub's loop | `McpHub_link` | `ServerProofs` |
| `SkillIndex`, `MCSkillIndex` | skill files, their tables, what a search finds | `MCSkillIndex_sync` | `SkillIndexProofs` |

Components that are proved together have their definitions in one name space, so
the parts of a specification carry the component's name where they would clash:
`ChatInit`, `ChatNext`, `ChatSpec`, `PulseSpec`, `ClientSpec` and so on.

### How state and actions correspond to the code

**Inbox.** `seen` is `seen_message_handles` (handle, `created_at`, rowid),
`tasks` the background tasks, `transit` and `confirmed` belong to Sendblue.
`handle_receive` awaits the body and then runs without a break on the event
loop, so a delivery is one action, one for each way out: `Reject`, `Ignore`,
`AcceptUnclaimed`, `IgnoreDuplicate`, `Claim`, `ClaimFails`. `Newest` is the
`DELETE ... NOT IN (... ORDER BY created_at DESC, rowid DESC LIMIT n)`.

**InboundTurn.** `pc` is the place in the chain of generators. A text is handed
over by `Yield` and the statement after the `yield` runs only when all its
chunks went out; a send that fails goes to the `finally` clause. A text of which
formatting leaves nothing is skipped (`SkipBlank`), and the statement after its
`yield` runs as if it had been sent. `prior` is the shared history when the turn
begins, and may be any messages of earlier turns: calls of a failed turn without
their results, results whose calls were trimmed away. `working` is the private
copy, `row` the durable turn; `yielded`, `executed`, `produced` and `trouble` are
history variables the properties speak of, and `yielded` says of each text
whether it was sent. The model answers with any ordering of acknowledgements,
delegations and other calls.

**ChatTurns.** `cache` is `_histories[session]`, `store` the durable turns,
`working[t]` a turn's copy. `_begin_turn` and `_commit_turn` hold the history
lock for all their accesses, so each is one action; each can fail at its
database call, after the cache was changed or before, as in the code. `Splice`
is the search for the turn's own user message in the shared list, with the
append at the end when it was trimmed away. `Listed` is the messages of all
durable turns in a row, of which `load_history` takes the last. `drift` is
history: a database call failed after the shared history had changed, or a turn
committed whose user message was no longer there.

**SemanticMemory.** `rows` is `memories` in insertion order, `index`
`memories_fts`; every repository call holds the write lock for one transaction
and is one action. `queue` and `worker` are the one-thread executor; the stages
of `worker` are the points between its transactions and model calls. A turn is
in `open` while it runs and in `finishing` between the two steps of its end:
`Complete` (`complete_turn`, under the history lock) and `Submit` (after its
release). Turns are numbered in the order they completed; `submissions` lists
them in the order they were submitted, which can be another.

**Summaries.** `turns[n]` is the status of the turn with sequence n, `worker`
holds the batch read before the model is asked. `era` counts
`clear_history` calls, which delete the turns and keep the summaries.

**TypingPulse.** A step is a critical section, a Sendblue call or a wait.
`joined` is the thread that `stop()` waits for, `overruns` counts joins that
timed out.

**McpHub.** A step is what a coroutine does between two awaits. `call[c]` is the
coroutine a tool thread submitted, `poll[i]` the task `_poll_and_connect` of
link i, `cancelled` the tasks that were sent a cancellation. `session`, `index`
and `registered` name the link whose connection, tool index and registry
entries they are; `tokens` names the link whose approval produced the file.

**Recall.** `entries` is `memories` and `conversation_summaries` in one sequence,
`embedded` and `vectors` say which have a row in `embeddings` and in
`memory_vectors`. A write is its transaction (`Remember`, `Summarise`, `Forget`)
and, after the call to the embedding server, `PutEmbedding` or
`EmbeddingFails`. `stage` is the place in `retrieve`; a search is one action,
since a repository call is one transaction. Relevance is data: each text has a
lexical strength, a cosine and a distance. `Best` gives every answer that
`ORDER BY ... LIMIT n` may give, ties broken either way. `alive`, `steady`,
`reachable` and `touched` are history, of the retrieval under way.

**ModelClient.** `modalities` is `_modalities`; `stampAge` is the age of
`_modalities_fetched_at`, since a distance in time is all the code looks at. A
thread's steps are the requests and the accesses to the two attributes: the read
that tests the cache (`Ask`) and the one that returns it (`Take`) are two, and so
are the writes of value (`Store`) and time (`Stamp`). `Exchange` puts another
server, or none, behind the URL. `seenAge`, a thread's `seen` and `calm` are
history.

**SkillIndex.** `dir` is the directory, `skills`, `fts`, `embeddings` and
`vectors` the tables `skills`, `skills_fts`, `embeddings` and `memory_vectors`.
`sync` is `Start` (list), then for each file `Index` (`parse_skill` and
`upsert_skill`, one transaction) and `Embed` (`put_embedding`), then `Prune`
(`remove_missing_skills`). `Edit` can come between any two, a parsed document
being held in `current` meanwhile. A file is its name, what is indexed (`text`)
and what is only hashed (`tools`).

Two kinds of definitions are not the program: history variables (marked
"history" at their declaration), which no guard reads, and operators named
after a definition with a suffix (`Newest_OffByOne`), each marked "Mutant". The
latter are plausible mistakes that `PROJECT.json` pairs with the property that
notices them; no specification uses them.

## 3. Runs

Ten runs pass and two show disagreements between the code and its own texts. The
type invariants of the modules with proofs are mostly proved and not run; the
proof says the same for every instance.

| Run | Question | Bounds, and why they are enough |
|---|---|---|
| `MCInbox_dedupe` | Is a message run once per window, whatever is repeated, late or lost? Does the webhook implement `MessageWindow`? | three handles over a table of two, so that a handle can be evicted and claimed again; a request without handle, a forged and an empty one; four copies in all, one crash, two clock readings so that stamps tie |
| `MCInbox_crash` (violated) | Was a duplicate really processed? | as above |
| `MCInboundTurn_turn` | What does the user hear, what runs, what is stored? Does the turn end? | two rounds of two calls is the least with an announcement before and after a delegation, in one group and across groups; texts of no chunk, one or two, so that one is skipped or fails half way; seven histories before the turn, among them unanswered calls at the end and in the middle, a half-answered group, an orphaned result; limit 6, so that with up to five earlier messages they are trimmed, and the turn alone can outgrow it |
| `ChatTurns_session` | Does the cache equal what a restart loads? Do turns stay together? | three overlapping turns (one before, one behind, one between), limit 5, one tool group, failures, a clear, a crash |
| `MCSemanticMemory_rows` | Does one value stand per key; does the index follow; does the queue drain? | two owners, two spellings that normalise to one key, a secret, three rows (the least to supersede twice), two statements, so that two turns complete in one order and are submitted in the other |
| `Summaries_periodic` | Are ranges disjoint and batches whole; do summaries keep up? | five turns in batches of two (two batches and a rest), one clear, one crash |
| `TypingPulse` | Is it silent after stop; do threads end; is a start seen? | four starts: three old threads can be alive behind one that starts |
| `MCSkillIndex_sync` | Do the search tables agree at any moment? Is what is retrieved what the files say? | two paths with folder names, names, texts and tool lists that collide or differ, any first directory, one edit at any moment, three starts: one before the edit and the two that are needed after it |
| `MCRecall_context` | Is everything shown to the model in force? Is anything lost by a failure, a late embedding or crowding? | two owners over one key and three rows (old value, new value, and one of someone else or a summary), a text found by words and meaning and one found by meaning only, two results, two nearest vectors so that a third row crowds, one writer |
| `MCRecall_ranking` (violated) | Does the fallback rank by FTS5? | two memories that match unequally |
| `MCModelClient_probe` | Is an answer recent? Does it follow the server? | two threads (one writes the value, the other its time), a server that names its inputs only in `/props`, one with two models, one that is up and lists none, one that is down; entries last two ticks and a request at most one, so that a probe outlasts an entry |
| `McpHub_link` | Which races break linking, and is all well without them? | two threads, three links (one ending, one running, one starting), one restart |

Deadlock is checked where the system goes on for ever (`McpHub_link`). The other
models end when their bounded inputs are used up.

### Fairness

- `InboundTurn`: weak fairness of a step of the thread. Calls to the model,
  to Sendblue and to the database have timeouts, tools return, and the loop is
  bounded by `max_agent_iterations`. `TurnEnds` needs no more.
- `SemanticMemory`: weak fairness of the consolidator. Its thread waits only for
  calls with timeouts, and catches what they raise. Turns and crashes have no
  fairness. `QueueDrains` says jobs get done, or are lost in a crash.
- `TypingPulse`: weak fairness for each thread, whose waits all have timeouts.
- `McpHub` has none: the connection and the discovery have no timeout of their
  own, so the code does not promise that a link ends.

### What the runs show in disagreement

1. `DuplicateWasProcessed`: the handle is committed before the background task
   exists; a crash in between loses the message, and its retry is dropped
   (`webhooks/sendblue.py:309`).
2. `FallbackKeepsLexicalRanking`: `1 / (1 + abs(rank))` turns the better match
   into the smaller score, so that the fallback to FTS5 ranks backwards and the
   limit keeps the worst hits (`memory/repository.py:465`).

Seen while modelling, with no run of its own:

- A clock that steps back makes eviction delete the row just inserted
  (`memory/repository.py:144`); `Inbox` has the case under `ClockMayStepBack`.
- Trimming counts messages and drops a running turn's own oldest ones, calls and
  results included, once there are `max_history_messages` of them
  (`chat_agent.py:108`, against `docs/architecture.md:85` and the repository's
  `README.md:90`, by which the complete turn is stored). `CompletedTurnIsWhole` is for turns that
  fit the limit.
- An acknowledgement or a reply of which formatting leaves nothing is never sent,
  and the generator does not learn of it (`sendblue.py:185`): a delegation can
  run unannounced, and a turn is stored as completed and mined for memories
  although nothing was heard. The properties name the case as their exception.
- The unanswered calls of a failed turn stay in the shared history and are shown
  to the model in later prompts (`chat_agent.py:142`, `:260`), and so are results
  whose calls were trimmed away by a later turn (`:108`).
- A turn can be submitted for extraction after one that completed later, and its
  fact stored over the newer one's (`chat_agent.py:262`, `:265`).
- The shared history differs from the table after `begin_turn` or
  `complete_turn` has failed, or a turn has ended that was cleared away
  (`chat_agent.py:153`, `:195`), until the process starts again or the
  conversation is cleared.
- An attachment that is refused or unreachable ends the message before a turn
  exists, so it is not stored (`sendblue.py:219`).
- Output of a turn whose user message was trimmed goes to the end of the shared
  history (`chat_agent.py:190`).
- A history reloaded after a crash includes incomplete turns
  (`repository.py:178`, against `docs/architecture.md:79`).
- The typing signal "start" can be sent after "stop" when a call outlasts the
  join (`sendblue.py:75`, `:86`).
- One start is not enough after an edit: a skill file moved unchanged to another
  folder is removed by the sync that has just seen it (`repository.py:789`,
  `skills.py:113`) and comes back at the next start. A skill renamed in place
  stays under its old name too, as long as the file exists.
- An embedding made by a process without sqlite-vec is never given a vector:
  `put_embedding` returns early when the content is known (`repository.py:723`),
  and the vector search of a later process passes the skill over.
- Unlinking SnapTrade is not final in three races (section 4, `raced`), and a
  link whose discovery fails is confirmed without tools (`hub.py:538`, against
  `README.md:247` of the repository).
- When an acknowledgement cannot be sent the turn is stored, as failed, with tool
  calls that have no results (`agents/loop.py:76`).
- A late extraction revives a key the user had forgotten in the meantime
  (`memory/consolidator.py:94`).
- A turn that completes behind the end of a stored summary is never summarised
  (`memory/repository.py:543`).
- With `max_history_messages` = 1 the slice `rest[-0:]` keeps everything
  (`chat_agent.py:108`).
- The memory tool keeps the spelling of a key, the consolidator normalises it:
  `Tea` and `tea` are two memories (`tools/memory.py:59`).
- An embedding that fails after the memory is committed is reported as an error
  of the tool, although the memory is saved (`tools/memory.py:90`).
- A request without `message_handle` is run each time it is repeated
  (`webhooks/sendblue.py:304`).
- Without a metric in its table sqlite-vec measures an L2 distance; one minus it
  is compared with the same minimum, 0.3, as a cosine
  (`memory/repository.py:504`).
- A task cancelled while it closes the old connection leaves tools that no
  connection serves (`hub.py:456`).
- `/health` describes the first listed model when several are served, and caches
  its inputs for the configured one (`llama_server.py:310`); a context size once
  read is kept for the life of the process (`:244`).

## 4. Proofs

TLAPS proves every safety property that a passing run checks, for every value of
the constants: any number of messages, turns, tool calls, links, files and
crashes, any limit and any capacity, with two hypotheses where they are named below
(a clock that does not step back, a history limit other than 1). The theorems
stand in eight modules; `PROJECT.json` lists them.

### HistoryProofs: the operations on histories

Lemmas only, for any sequences and any limit. `Nth` ranks the members of a finite
set of positions (`NthProperties`), so `Extract` keeps order and loses nothing
(`ExtractProperties`). `Trim` always leaves an end of what it is given
(`TrimIsEnd`), `Kept(n)` messages of n, and trimming an end that is long enough is
trimming the whole (`TrimOfEnd`). `SpliceProperties` says that `Splice` inserts
its output directly behind the turn's own messages if there are any, and at the
end if not; `ContiguousSplice` that turns which stood together before stand
together after it. `OwnAnswered` and what follows it say the same of results: a
turn's own calls that have their results keep them in every end, concatenation
and extraction.

### WorkerProofs: the turn of one message, and the typing pulse

All six invariants of `MCInboundTurn_turn`, for any history before the turn. `TypeInv` adds to the types which
generator waits for which (`PlaceInv`): what is being spoken determines where the
loop resumes. On top of it:

- `SpawnIsAnnounced`: `_order_chat_tool_calls` puts acknowledgements first
  (`OrderedProperties`), so what is left of a group never has an acknowledgement
  behind a delegation; `PingInv` keeps this for the rest of a group while its
  members run.
- `CompletedMeansAnswered` and `UserHearsOnce`: `RowInv` ties the durable row to
  the place of the thread, `FinalInv` says at which places an ending has been
  yielded and that there has been at most one unless storing or consolidating
  failed after it; `SentInv` that every text yielded and not sent is an
  acknowledgement or a reply of the model's.
- `PromptIsWellFormed`: `GroupInv` describes everything the turn has told the
  model, untrimmed: each group of calls stands behind its predecessors, and its
  results follow it up to the call that runs now. `WorkInv` says that the private
  copy is an end of the prior history and that together. A result in the copy may
  have lost its calls to trimming, but calls in the copy have all that follows
  them: what lacks a result there lacked it in the prior history.
- `CompletedTurnIsWhole`: extracting the turn's own messages from the private copy
  gives one trimming of everything the turn appended (`OutputOfEnd`), although
  the copy was trimmed after every group together with older messages.
  `StoredInv` carries that to the stored row, and a turn that fits the limit is
  what its trimming leaves.

Of `TypingPulse`: type correctness, `SilentAfterStop` and `FewPulses`, for any
number of starts. `Focus` accounts every live thread but the one in the worker's
hands to a join that timed out; lemmas on cardinality turn that into the bound.

### ConversationProofs: overlapping turns, and summaries

All four invariants of `ChatTurns_session`, for any number of overlapping turns.
The invariant is `ChatInv`, whose parts need each other:

- `RowsInv`, `AnswerInv`: rows and threads agree, and an open row, that of a
  running thread or of one lost in a crash, holds its user message alone; a loop
  that returned left its text last.
- `WholeInv`: in a private copy every call of the running turn has its result.
  Trimming keeps this (`AnsweredEnd`), and so does extraction (`AnsweredOutput`),
  so a completed row has the result of every call it holds.
- `HistoryInv`: the stored turns listed in a row and the shared history both fit
  the threads (`Fits`): turns stand together, and of a running turn there is at
  most the user message. That is why a commit inserts in both at the same place,
  behind the user message, if this is in both.
- `MirrorInv`: the shared history is the trimmed stored one. Beginning a turn
  appends to both (`TrimAppend`), committing it splices the same messages into
  both (`TrimSplice`), and whether one trims before or after makes no difference.

`TurnsStandTogether` and `RowsFollowThreads` hold for every limit.
`CacheMirrorsStore` excuses three steps, from each to the next load: a
`begin_turn` or `complete_turn` that fails, the end of a turn whose row was
cleared away, the end of a turn whose user message was trimmed. What is proved is
that nothing else parts the two, however turns overlap.
It is proved under `MaxHistory # 1`, and is false for 1: in memory
the slice `rest[-0:]` keeps everything, from the table `limit=0` loads nothing.

Of `Summaries`: type correctness, `RangesAreDisjoint`, `SummariesAreWhole` and
`SummariesKeepUp`, for every batch size of two or more. `SummaryInv` adds that a
batch in the worker's hand lies beyond all stored ranges while its era lasts, and
counts completed turns against jobs.

### InboxProofs

Type correctness, `AtMostOncePerWindow`, `TableHoldsLatestClaims` and the
refinement `ImplementsWindow`, the last three assuming a clock that does not step
back. The inductive invariant relates the rows of the table, ordered by stamp and
rowid, to the claim numbers of the tasks: order of rows is order of claims, the
table holds the last `MaxEntries` of them. Lemmas on rank in a finite ordered set
show that `Newest` drops exactly the oldest row. For the refinement the row with
the i-th rowid is shown to be the i-th oldest (`OldestByClaim`), so that a claim
slides the abstract window by one (`ClaimSlides`), and the steps of the tasks are
counted.

### SemanticMemoryProofs

Type correctness, `LatestStands`, `IndexMatchesActive`, `DeadStaysDead` and
`ExtractedInOrder`. `OrderInv` strengthens the last: jobs are numbered in the
order of the queue, and every row comes from a job not behind the one in front.
So a row of an older turn behind one of a newer turn means that the newer was
submitted first (`Overtook`), which the code allows between `complete_turn` and
`submit`; the theorem is that there is no other way.
Nothing is assumed beyond the types of the constants.

### SkillIndexProofs

Type correctness, `SearchTablesAgree` and `FoundOnceSettled`. `Rows` strengthens
the first two: the largest row number of `embeddings` is only ever replaced by a
larger one, and no vector lies above it. `FoundInv` is for the last:

- `SyncInv`: in an undisturbed sync the files visited come before those to visit,
  `seen` is exactly the visited ones, and the last visited of each name stands
  (`Stands`): a skill has its name and content, and unless the embedding server
  failed it is embedded, or the step that does so comes next. When nothing is
  left to visit, the last file visited is the last there is.
- `ServeInv`: after one undisturbed sync every skill has its file, so the next
  prunes nothing. This is why one start is not enough and two are: a file moved
  unchanged leaves the row with its old path, which the first of them prunes.
- `PairInv`: while every process had the extension, vectors and embeddings are
  paired by number (`PutEffect`), so what is embedded is found by vector.

Assumed are the types of the constants.

### RecallProofs

Type correctness and all four properties of the run. `WriteEffect` says once what
a step of any writer does to a retrieval under way: rows are only appended or
retired, what is retired leaves `steady`, what is added joins `alive`.
`RecalledInv` says the same of the hits found so far. `LexicalInv` follows an
entry that stays active from its first match: it is among the hits, or these
already fill the result. `NearInv` does so for the vector searches; the crowd
around a vector only grows while a retrieval runs, so one that is not hidden at
the end was not hidden at its search. The four orders of search and write, the
merge's weights and ties are all arbitrary.

### ServerProofs: the MCP hub and the model client

Of `McpHub`: type correctness, `NoOrphanPolls`, `UnlinkIsFinal`,
`ConnectedHasTokens`, `RegistryMatchesIndex`. The properties are stated for
behaviours in which none of four races has happened, and the variable `raced`
records them: overlapping link requests, a cancelled task that still unwinds when
a new link is stored, tokens deleted during a refresh of them, and a link started
while an unlink awaits the revocation. `Orderly`, the invariant outside the races,
says that at most one poll is active, that no poll is active while an
authorization is awaited or after an unlink, and what that means for tokens and
tools. The proofs therefore show that these four are the only ways to break the
hub's promises. It is assumed that callers are not numbers of links.

Of `ModelClient`: type correctness, `AnswerIsRecent` and `AnswerFollowsServer`.
`RecentInv` bounds what a thread carries by how long it has waited and at which
request it is, and the cached value by its time plus one probe. The value and the
time can come from two threads; the bound holds because time does not pass inside
a thread's own steps. `FollowInv` says that whatever was seen more recently than
the server changed is the server's truth.

### Only model-checked

The liveness properties `TurnEnds`, `QueueDrains`, `PulsesEnd` and `StartIsSent`:
fairness is out of the prover's reach. The induction theorems of the library are
too, since they take an operator as a parameter. What needs induction over data is
therefore proved by the least number that refutes it (`Smallest`: that `Listed` is
well defined, and how it changes with one row), or is defined without recursion:
the extraction of a turn's messages and the order of its tool calls pick by rank
in a finite set.

## 5. Not modelled, and why

- HTTP, MIME tables, transcoding, the formatting of texts and configuration are
  input and output without state. `POST /webhooks/register` blocks the event loop
  while it runs, so that two registrations never overlap.
- In `SemanticMemory` an embedding is time that passes and a failure that is
  survived; what it is for is in `Recall`. The text of the prompt block and its
  character budgets are layout. What `memory_vectors` returns is bounded by one
  number for each kind of search, as `max(256, min(4096, 32 * limit))` is.
- The worker agent runs the loop of `InboundTurn` over a private history, inside
  one blocking call.
- The hub is modelled for one OAuth server and one phone. Servers without OAuth
  connect once at the start. A start that times out leaves a process in which none
  of the hub's actions happens. `_connect_named` cleans up after an `Exception`;
  a `CancelledError` inside it leaves its exit stack open, a leaked transport
  that no dictionary of the hub names, and the model does not have it.
- Of the model client the chat call is a step of the turn that makes it; the
  performance log and the context size are counters and a constant nobody
  decides by.
- Reads of the registry and of the hub's dictionaries by other threads are single
  steps; the data race below that (`tools/registry.py:24`) is listed as a hazard.
- The service script works on pid files and ports by commands of the shell; what
  could go wrong in it is what the operating system does with a reused pid, of
  which the repository says nothing to check against.

## 6. Plan

Done in this order: Inbox and its window; the turn of one message; overlapping
turns; semantic memory; summaries; the typing pulse; the MCP hub; the skill
index; retrieval; the model client; proofs of every safety property the passing
runs check.

What would come next, most important first:

1. Composition: `Inbox` with the turns of `ChatTurns` (a message claimed, begun,
   committed, with a crash anywhere), implementing an abstract transcript in
   which every message has at most one turn.
2. `ChatTurns` as a refinement of that transcript. `ChatInv` already gives the
   mapping: cache and store as functions of the turns committed.
3. `InboundTurn` as what one thread of `ChatTurns` does: the lemmas on ends and
   extraction are shared, the mapping of the places is not written.
4. A second server and servers without OAuth in `McpHub`.
