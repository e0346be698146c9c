------------------------------- MODULE McpHub -------------------------------
(***************************************************************************)
(* The hub that connects the program to one MCP server with OAuth (the     *)
(* server "snaptrade" and the phone of its owner): linking, polling,       *)
(* unlinking, refreshing and restarting.                                   *)
(*                                                                         *)
(* Everything runs on the hub's one event loop, so a step of this module   *)
(* is what a coroutine does between two awaits.  The tools link_snaptrade  *)
(* and unlink_snaptrade run in threads of their own and only submit        *)
(* coroutines.  Which coroutine goes on next, and whether a network call   *)
(* succeeds, is open.  A cancelled task gets its CancelledError at the     *)
(* await where it is; how long it then takes to unwind is open too.        *)
(*                                                                         *)
(* Left out: which server and phone (one of each), the wording of results, *)
(* servers without OAuth, pages of the OAuth metadata.                     *)
(***************************************************************************)
EXTENDS Naturals

CONSTANTS
    Callers,      \* threads that run link_snaptrade or unlink_snaptrade
    MaxLinks,     \* bound: links that get as far as a user code
    MaxRestarts   \* bound: restarts of the process

ASSUME McpHubAssumption ==
    MaxLinks \in Nat \ {0} /\ MaxRestarts \in Nat /\ Callers \cap 1..MaxLinks = {}

VARIABLES
    tokens,       \* the file of the token store: the link it comes from, 0 if absent
    session,      \* _sessions and _server_stacks: the link connected, 0 if none
    index,        \* _tool_index and _tools: the link that discovered them, 0 if empty
    pendingAuth,  \* the server is in _pending_auth
    linkSession,  \* _link_sessions: the link shown as pending, 0 if none
    linkTask,     \* _link_tasks: the link whose task can be cancelled, 0 if none
    registered,   \* the same for the application's registry
    call,         \* where the coroutine submitted by each caller is
    poll,         \* where _poll_and_connect of each link is
    cancelled,    \* links whose task has been sent a cancellation
    removing,     \* callers and links whose _disconnect_server found tools
    refreshing,   \* link whose tokens a request is refreshing, 0 if none
    restarts,
    lastAsked,    \* history: the last completed start, "link" or "unlink"
    raced         \* history: one of the races named below has happened

hub == <<session, index, pendingAuth, linkSession, linkTask, registered>>
vars == <<tokens, hub, call, poll, cancelled, removing, refreshing, restarts,
          lastAsked, raced>>

Links == 1..MaxLinks

Live(i) == poll[i] \notin {"none", "ended"}
Unlinking == \E c \in Callers : call[c] \in {"revoking", "closing"}

\* The token store: load and find_for_server; save, which replaces the file
\* as a whole.
HasTokens     == tokens # 0
SaveTokens(i) == tokens' = i

\* What the application does to its registry: at the start, and in
\* _on_mcp_tools_changed.
StartMcp          == registered' = index'
OnToolsChanged(i) == registered' = i

\* What link_status answers.
LinkStatus ==
    CASE session # 0 -> "linked"
      [] session = 0 /\ (linkSession # 0 \/ linkTask # 0) -> "pending"
      [] session = 0 /\ linkSession = 0 /\ linkTask = 0 /\ HasTokens -> "token_present"
      [] OTHER -> "unlinked"

(***************************************************************************)
(* Starting.  With tokens on disk the server is connected and its tools    *)
(* are discovered before any tool can run; a refresh, a connection or a    *)
(* discovery may fail.  The application registers what the hub then has.   *)
(***************************************************************************)
Starting ==
    /\ \/ session' = 0 /\ index' = 0 /\ pendingAuth' = TRUE
       \/ /\ HasTokens
          /\ session' = tokens /\ index' \in {0, tokens} /\ pendingAuth' = FALSE
    /\ StartMcp

Init ==
    /\ tokens = 0
    /\ session = 0 /\ index = 0 /\ registered = 0 /\ pendingAuth = TRUE
    /\ linkSession = 0 /\ linkTask = 0
    /\ call = [c \in Callers |-> "idle"]
    /\ poll = [i \in Links |-> "none"]
    /\ cancelled = {} /\ removing = {}
    /\ refreshing = 0
    /\ restarts = 0
    /\ lastAsked = "none" /\ raced = FALSE

\* The process ends, by stop() or by a crash, and starts again: only the
\* tokens survive.
Restart ==
    /\ restarts < MaxRestarts
    /\ restarts' = restarts + 1
    /\ Starting
    /\ linkSession' = 0 /\ linkTask' = 0
    /\ call' = [c \in Callers |-> "idle"]
    /\ poll' = [i \in Links |-> IF poll[i] = "none" THEN "none" ELSE "ended"]
    /\ cancelled' = {} /\ removing' = {}
    /\ refreshing' = 0
    /\ lastAsked' = IF Unlinking THEN "none" ELSE lastAsked
    /\ UNCHANGED <<tokens, raced>>

(***************************************************************************)
(* _disconnect_server by actor a (a caller or a link).  The tools to       *)
(* remove are noted before the connection is closed and taken out of the   *)
(* index, and of the registry, after it.                                   *)
(***************************************************************************)
\* Mutant: the application is not told.
DropTools_Silently(found) ==
    /\ index' = IF found THEN 0 ELSE index
    /\ UNCHANGED registered

DropTools(found) ==
    /\ index' = IF found THEN 0 ELSE index
    /\ IF found THEN OnToolsChanged(0) ELSE UNCHANGED registered

StartDisconnect(a) ==
    /\ session' = 0
    /\ IF session = 0
         THEN DropTools(index # 0) /\ UNCHANGED removing
         ELSE /\ removing' = IF index # 0 THEN removing \cup {a} ELSE removing
              /\ UNCHANGED <<index, registered>>

EndDisconnect(a) ==
    /\ DropTools(a \in removing)
    /\ removing' = removing \ {a}

\* Mutant: the entry is popped and the task goes on.
CancelLinkTask_PopsOnly ==
    /\ linkTask' = 0
    /\ UNCHANGED cancelled

\* task = _link_tasks.pop(server, None), and task.cancel() if there was one.
CancelLinkTask ==
    /\ linkTask' = 0
    /\ cancelled' = IF linkTask = 0 THEN cancelled ELSE cancelled \cup {linkTask}

(***************************************************************************)
(* link_snaptrade: the tool asks link_status in its own thread and then    *)
(* submits _begin_device_link.                                             *)
(***************************************************************************)
AskLink(c) ==
    /\ call[c] = "idle"
    /\ LinkStatus # "linked"
    /\ call' = [call EXCEPT ![c] = "asked"]
    /\ UNCHANGED <<tokens, hub, poll, cancelled, removing, refreshing, restarts,
                   lastAsked, raced>>

\* Up to the await of begin_device_authorization.
BeginLink(c) ==
    /\ call[c] = "asked"
    /\ CancelLinkTask
    /\ call' = [call EXCEPT ![c] = "authorizing"]
    /\ raced' = (raced \/ \E d \in Callers : call[d] = "authorizing")
    /\ UNCHANGED <<tokens, session, index, pendingAuth, linkSession, registered,
                   poll, removing, refreshing, restarts, lastAsked>>

\* The server has answered with a user code: the poll task is created.
StoreLink(c) ==
    /\ call[c] = "authorizing"
    /\ \E i \in Links :
         /\ poll[i] = "none" /\ \A j \in 1..(i - 1) : poll[j] # "none"
         /\ poll' = [poll EXCEPT ![i] = "created"]
         /\ linkSession' = i
         /\ linkTask' = i
    /\ pendingAuth' = TRUE
    /\ call' = [call EXCEPT ![c] = "idle"]
    /\ lastAsked' = "link"
    /\ raced' = (raced \/ \E j \in cancelled : Live(j))
    /\ UNCHANGED <<tokens, session, index, registered, cancelled, removing,
                   refreshing, restarts>>

\* The authorization request fails: the tool answers with an error.
RefuseLink(c) ==
    /\ call[c] = "authorizing"
    /\ call' = [call EXCEPT ![c] = "idle"]
    /\ UNCHANGED <<tokens, hub, poll, cancelled, removing, refreshing, restarts,
                   lastAsked, raced>>

(***************************************************************************)
(* _poll_and_connect of link i.                                            *)
(***************************************************************************)
\* Mutant: the cancellation is swallowed.
Runs_Uncancelled(i, at) == poll[i] = at

\* The task of link i goes on from the await where it is.
Runs(i, at) == poll[i] = at /\ i \notin cancelled

\* The finally clause: it pops the entries of the server, whosever they are.
PollEnds(i) ==
    /\ poll' = [poll EXCEPT ![i] = "ended"]
    /\ linkSession' = 0
    /\ linkTask' = 0

\* The task's first step, up to the first request for tokens.
PollStart(i) ==
    /\ Runs(i, "created")
    /\ poll' = [poll EXCEPT ![i] = "polling"]
    /\ UNCHANGED <<tokens, hub, call, cancelled, removing, refreshing, restarts,
                   lastAsked, raced>>

\* The user has approved: the tokens are saved, then the client is closed.
PollApproved(i) ==
    /\ Runs(i, "polling")
    /\ SaveTokens(i)
    /\ poll' = [poll EXCEPT ![i] = "saved"]
    /\ UNCHANGED <<hub, call, cancelled, removing, refreshing, restarts, lastAsked,
                   raced>>

\* The code has expired or was refused, the deadline has passed or the
\* request failed; or, further on, the connection could not be made.
PollFails(i) ==
    /\ Runs(i, "polling") \/ Runs(i, "connecting")
    /\ pendingAuth' = TRUE
    /\ PollEnds(i)
    /\ UNCHANGED <<tokens, session, index, registered, call, cancelled, removing,
                   refreshing, restarts, lastAsked, raced>>

\* _disconnect_server; without a connection it goes straight on.
PollDisconnects(i) ==
    /\ Runs(i, "saved")
    /\ StartDisconnect(i)
    /\ poll' = [poll EXCEPT ![i] = IF session = 0 THEN "connecting" ELSE "closing"]
    /\ UNCHANGED <<tokens, pendingAuth, linkSession, linkTask, call, cancelled,
                   refreshing, restarts, lastAsked, raced>>

\* The old connection is closed; _connect_named returns at once when another
\* link has connected in the meantime.
PollDisconnected(i) ==
    /\ Runs(i, "closing")
    /\ EndDisconnect(i)
    /\ poll' = [poll EXCEPT ![i] = IF session = 0 THEN "connecting" ELSE "listing"]
    /\ UNCHANGED <<tokens, session, pendingAuth, linkSession, linkTask, call,
                   cancelled, refreshing, restarts, lastAsked, raced>>

PollConnected(i) ==
    /\ Runs(i, "connecting")
    /\ session' = i
    /\ pendingAuth' = FALSE
    /\ poll' = [poll EXCEPT ![i] = "listing"]
    /\ UNCHANGED <<tokens, index, registered, linkSession, linkTask, call, cancelled,
                   removing, refreshing, restarts, lastAsked, raced>>

\* list_tools has answered with some tools or none, or has failed; the user
\* is told that the link is complete in each case.
PollListed(i) ==
    /\ Runs(i, "listing")
    /\ \/ index' = i /\ OnToolsChanged(i)
       \/ index' = 0 /\ UNCHANGED registered
       \/ UNCHANGED <<index, registered>>
    /\ PollEnds(i)
    /\ UNCHANGED <<tokens, session, pendingAuth, call, cancelled, removing,
                   refreshing, restarts, lastAsked, raced>>

\* CancelledError: a task that has not taken its first step has no finally
\* clause to run yet.
PollCancelled(i) ==
    /\ i \in cancelled /\ Live(i)
    /\ IF poll[i] = "created"
         THEN /\ poll' = [poll EXCEPT ![i] = "ended"]
              /\ UNCHANGED <<linkSession, linkTask>>
         ELSE PollEnds(i)
    /\ removing' = removing \ {i}
    /\ UNCHANGED <<tokens, session, index, pendingAuth, registered, call, cancelled,
                   refreshing, restarts, lastAsked, raced>>

(***************************************************************************)
(* unlink_snaptrade.                                                       *)
(***************************************************************************)
\* Mutant: the tokens are deleted after a successful revocation only.
DeleteTokens_IfRevoked == tokens' \in {0, tokens}

\* The finally clause of revoke.
DeleteTokens == tokens' = 0

\* Up to the first await: with tokens that is the revocation, else the close
\* of the connection, and there may be neither.
BeginUnlink(c) ==
    /\ call[c] = "idle"
    /\ CancelLinkTask
    /\ linkSession' = 0
    /\ lastAsked' = "unlink"
    /\ IF HasTokens
         THEN /\ call' = [call EXCEPT ![c] = "revoking"]
              /\ UNCHANGED <<session, index, registered, removing, pendingAuth>>
         ELSE /\ StartDisconnect(c)
              /\ call' = [call EXCEPT ![c] = IF session = 0 THEN "idle" ELSE "closing"]
              /\ pendingAuth' = (pendingAuth \/ session = 0)
    /\ UNCHANGED <<tokens, poll, refreshing, restarts, raced>>

\* The revocation has ended, well or not: the tokens are deleted.
Revoked(c) ==
    /\ call[c] = "revoking"
    /\ DeleteTokens
    /\ StartDisconnect(c)
    /\ call' = [call EXCEPT ![c] = IF session = 0 THEN "idle" ELSE "closing"]
    /\ pendingAuth' = (pendingAuth \/ session = 0)
    /\ raced' = (raced \/ refreshing # 0 \/ \E i \in Links : Live(i) /\ i \notin cancelled)
    /\ UNCHANGED <<linkSession, linkTask, poll, cancelled, refreshing, restarts,
                   lastAsked>>

Unlinked(c) ==
    /\ call[c] = "closing"
    /\ EndDisconnect(c)
    /\ pendingAuth' = TRUE
    /\ call' = [call EXCEPT ![c] = "idle"]
    /\ UNCHANGED <<tokens, session, linkSession, linkTask, poll, cancelled,
                   refreshing, restarts, lastAsked, raced>>

(***************************************************************************)
(* A request of a connection finds its access token expired, or is         *)
(* answered 401: refresh_tokens loads the tokens, awaits the server and    *)
(* saves what it got.                                                      *)
(***************************************************************************)
BeginRefresh ==
    /\ refreshing = 0
    /\ session # 0 \/ \E i \in Links : poll[i] \in {"connecting", "listing"}
    /\ HasTokens
    /\ refreshing' = tokens
    /\ UNCHANGED <<tokens, hub, call, poll, cancelled, removing, restarts, lastAsked,
                   raced>>

EndRefresh ==
    /\ refreshing # 0
    /\ refreshing' = 0
    /\ \/ SaveTokens(refreshing)
       \/ UNCHANGED tokens
    /\ UNCHANGED <<hub, call, poll, cancelled, removing, restarts, lastAsked, raced>>

Next ==
    \/ Restart
    \/ \E c \in Callers : AskLink(c) \/ BeginLink(c) \/ StoreLink(c) \/ RefuseLink(c)
                          \/ BeginUnlink(c) \/ Revoked(c) \/ Unlinked(c)
    \/ \E i \in Links : PollStart(i) \/ PollApproved(i) \/ PollFails(i)
                        \/ PollDisconnects(i) \/ PollDisconnected(i)
                        \/ PollConnected(i) \/ PollListed(i) \/ PollCancelled(i)
    \/ BeginRefresh
    \/ EndRefresh

Spec == Init /\ [][Next]_vars

-----------------------------------------------------------------------------
\* Every variable has its type.
TypeOK ==
    /\ tokens \in 0..MaxLinks /\ session \in 0..MaxLinks /\ refreshing \in 0..MaxLinks
    /\ linkSession \in 0..MaxLinks /\ linkTask \in 0..MaxLinks
    /\ index \in 0..MaxLinks /\ registered \in 0..MaxLinks
    /\ pendingAuth \in BOOLEAN /\ raced \in BOOLEAN
    /\ call \in [Callers -> {"idle", "asked", "authorizing", "revoking", "closing"}]
    /\ poll \in [Links -> {"none", "created", "polling", "saved", "closing",
                           "connecting", "listing", "ended"}]
    /\ cancelled \subseteq Links
    /\ removing \subseteq Callers \cup Links
    /\ restarts \in 0..MaxRestarts
    /\ lastAsked \in {"none", "link", "unlink"}

(***************************************************************************)
(* The races the code does not handle, remembered in raced:                *)
(*   - _begin_device_link is entered while another one awaits its          *)
(*     authorization: the first one's task is overwritten in _link_tasks;  *)
(*   - a new link is stored while a cancelled task still unwinds: the old  *)
(*     task's finally clause pops the new link's entries;                  *)
(*   - the tokens are deleted while a refresh of them is under way: the    *)
(*     refresh saves them again;                                           *)
(*   - a link is started while an unlink awaits the revocation: the unlink *)
(*     deletes the tokens of the new link.                                 *)
(***************************************************************************)

\* Without those races every poll that runs can be cancelled: it is the one
\* _link_tasks names, whatever links, unlinks and restarts came before
\* (_begin_device_link: "Cancel any in-flight link for this server").
NoOrphanPolls ==
    ~raced => \A i \in Links : (Live(i) /\ i \notin cancelled) => linkTask = i

\* Without those races an unlink is final: once it has ended no tokens are
\* on disk until another link is started, so no restart connects again.
UnlinkIsFinal ==
    (~raced /\ lastAsked = "unlink" /\ ~Unlinking) => tokens = 0

\* Without those races a connected server has its tokens on disk: no poll
\* connects after an unlink has deleted them.
ConnectedHasTokens ==
    (~raced /\ session # 0) => tokens # 0

\* The registry offers every tool of the hub's index, and without those races
\* no other: what the hub drops the application drops in the same step.
RegistryMatchesIndex ==
    /\ index # 0 => registered = index
    /\ ~raced => registered = index
=============================================================================
