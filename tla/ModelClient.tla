---------------------------- MODULE ModelClient ----------------------------
(***************************************************************************)
(* What the application believes the served model can look at or listen    *)
(* to: LlamaServerAdapter's cache of input modalities                      *)
(* (llm/llama_server.py), filled by turns that carry an attachment         *)
(* (input_modalities) and by GET /health (health_check), without a lock.   *)
(*                                                                         *)
(* A probe is a sequence of requests to a server that can be exchanged or  *)
(* stopped between any two of them; what the server says of itself is a    *)
(* list of models and a record of properties, each of which may be         *)
(* missing or disagree.  Time is counted in ticks, as the ages of stamps   *)
(* and observations; a request takes at most Slow of them.                 *)
(***************************************************************************)
EXTENDS Integers, Sequences

CONSTANTS
  Threads,      \* request threads that ask or probe
  Servers,      \* what may answer at the base URL
  Listing,      \* Servers -> their /v1/models: a sequence of entries
  Properties,   \* Servers -> their /props: kinds of input, or Absent
  Answering,    \* Servers of which some health URL answers with 200
  Absent,       \* a payload or a value that is not there
  Names, None,  \* names of models, and no name
  Name,         \* Servers -> the served_model that _fetch_served_model reads
  Configured,   \* the model name of the settings
  TTL,          \* _MODALITIES_TTL_S
  Slow          \* bound: ticks a request lasts

Kinds == {"image", "audio", "video"}

\* architecture.input_modalities of an entry, {} if it has none, and whether
\* its capabilities name "multimodal".
Entry == [id : Names, arch : SUBSET Kinds, capable : BOOLEAN]

ASSUME ServerAssumption ==
  /\ Listing \in [Servers -> Seq(Entry)]
  /\ Properties \in [Servers -> {Absent} \cup SUBSET Kinds]
  /\ Name \in [Servers -> Names \cup {None}] /\ None \notin Names
  /\ \A K \in SUBSET Kinds : Absent # K

\* /models is a health URL too.
ASSUME AnsweringAssumption ==
  /\ Answering \subseteq Servers
  /\ {s \in Servers : Listing[s] # <<>>} \subseteq Answering

ASSUME TimeAssumption == TTL \in Nat \ {0} /\ Slow \in Nat

\* After this long nothing is left of what was seen before.
Horizon == TTL + 3 * Slow

VARIABLES
  server,       \* what answers now
  modalities,   \* _modalities
  stampAge,     \* ticks since _modalities_fetched_at, up to TTL
  thread,       \* what each thread is at
  seenAge,      \* history: age of the oldest answer that modalities rests on
  calm          \* history: ticks since the server last changed or failed to
                \* answer

clientVars == <<server, modalities, stampAge, thread, seenAge, calm>>

Idle == [pc |-> "idle", role |-> "ask", served |-> None, listing |-> <<>>,
         props |-> Absent, wait |-> 0, now |-> 0, seen |-> 0, answer |-> {}]

\* Waiting for a response with a time or an answer taken before; how long
\* health_check waits until then does not matter.
Early == {"idle", "health", "served"}
Waiting == {"models", "props", "got"}
\* Steps of the thread between two requests.
Within == {"take", "stamp", "answered"}

Goto(t, r) == thread' = [thread EXCEPT ![t] = r]

-----------------------------------------------------------------------------
(***************************************************************************)
(* _parse_input_modalities.                                                *)
(***************************************************************************)

\* _pick_model_entry: the first entry with one of the wanted names, or the
\* first one.
Picked(listing, wanted) ==
  LET named == {i \in DOMAIN listing : listing[i].id \in wanted}
      first == IF named = {} THEN 1
               ELSE CHOOSE i \in named : \A j \in named : i <= j
  IN  listing[first]

\* _architecture_from_payload: the first entry that has one.
FirstArchitecture(listing) ==
  LET with == {i \in DOMAIN listing : listing[i].arch # {}}
  IN  IF with = {} THEN {}
      ELSE listing[CHOOSE i \in with : \A j \in with : i <= j].arch

Capable(listing) == \E i \in DOMAIN listing : listing[i].capable

\* Mutant: the names of an architecture are not normalised.
Parse_Raw(listing, props, served) ==
  LET arch == FirstArchitecture(listing) IN
  IF arch # {} THEN arch \cup {"text"} ELSE IF props = Absent THEN {} ELSE props

Parse(listing, props, served) ==
  LET arch == IF listing = <<>> THEN {}
              ELSE Picked(listing, {Configured, served} \ {None}).arch
  IN  CASE arch # {} -> arch
        [] arch = {} /\ FirstArchitecture(listing) # {} -> FirstArchitecture(listing)
        [] OTHER -> IF props # Absent THEN props
                    ELSE IF Capable(listing) THEN {"image"} ELSE {}

-----------------------------------------------------------------------------

ClientInit ==
  /\ server \in Servers /\ calm = 0
  /\ modalities = Absent /\ stampAge = TTL /\ seenAge = 0
  /\ thread = [t \in Threads |-> Idle]

Fresh == modalities # Absent /\ stampAge < TTL

\* Mutant: an answer from the cache renews its time.
Ask_Renews(t) ==
  /\ thread[t].pc = "idle"
  /\ Goto(t, [Idle EXCEPT !.pc = IF Fresh THEN "take" ELSE "models"])
  /\ stampAge' = IF Fresh THEN 0 ELSE stampAge
  /\ UNCHANGED <<server, modalities, seenAge, calm>>

\* input_modalities: the cache answers, or a probe begins; its time is taken
\* before the first request.
Ask(t) ==
  /\ thread[t].pc = "idle"
  /\ Goto(t, [Idle EXCEPT !.pc = IF Fresh THEN "take" ELSE "models"])
  /\ UNCHANGED <<server, modalities, stampAge, seenAge, calm>>

\* The attribute is read a second time to be returned.
Take(t) ==
  /\ thread[t].pc = "take"
  /\ Goto(t, [Idle EXCEPT !.pc = "answered", !.answer = modalities,
                          !.seen = seenAge])
  /\ UNCHANGED <<server, modalities, stampAge, seenAge, calm>>

StartHealth(t) ==
  /\ thread[t].pc = "idle"
  /\ Goto(t, [Idle EXCEPT !.pc = "health", !.role = "health"])
  /\ UNCHANGED <<server, modalities, stampAge, seenAge, calm>>

\* One of the health URLs answers, whatever /models then lists.
Ready(t) ==
  /\ thread[t].pc = "health" /\ server \in Answering
  /\ Goto(t, [thread[t] EXCEPT !.pc = "served", !.wait = 0])
  /\ UNCHANGED <<server, modalities, stampAge, seenAge, calm>>

\* None does: an error is reported and the cache left as it is.
NotReady(t) ==
  /\ thread[t].pc = "health"
  /\ Goto(t, Idle)
  /\ UNCHANGED <<server, modalities, stampAge, seenAge, calm>>

\* _get_json: whatever goes wrong is a missing payload.
Get(payload, missing, result) ==
  \/ result = payload /\ UNCHANGED calm
  \/ result = missing /\ calm' = 0

\* _fetch_served_model; its two requests are one step here, and either names
\* the model.
FetchServed(t) ==
  /\ thread[t].pc = "served"
  /\ \E name \in {Name[server], None} :
       /\ Get(Name[server], None, name)
       /\ Goto(t, [thread[t] EXCEPT !.pc = "models", !.wait = 0,
                                    !.served = name, !.seen = 0])
  /\ UNCHANGED <<server, modalities, stampAge, seenAge>>

GetModels(t) ==
  /\ thread[t].pc = "models"
  /\ \E listing \in {Listing[server], <<>>} :
       /\ Get(Listing[server], <<>>, listing)
       /\ Goto(t, [thread[t] EXCEPT
                     !.pc = "props", !.wait = 0, !.listing = listing,
                     !.seen = IF thread[t].role = "health" THEN @ ELSE 0])
  /\ UNCHANGED <<server, modalities, stampAge, seenAge>>

GetProps(t) ==
  /\ thread[t].pc = "props"
  /\ \E props \in {Properties[server], Absent} :
       /\ Get(Properties[server], Absent, props)
       /\ Goto(t, [thread[t] EXCEPT !.pc = "got", !.wait = 0, !.props = props])
  /\ UNCHANGED <<server, modalities, stampAge, seenAge>>

\* Mutant: nothing found does not replace what was known.
Store_KeepsKnown(t) ==
  LET parsed == Parse(thread[t].listing, thread[t].props, thread[t].served) IN
  /\ thread[t].pc = "got"
  /\ modalities' = IF parsed = {} /\ modalities # Absent THEN modalities ELSE parsed
  /\ seenAge' = thread[t].seen
  /\ Goto(t, [thread[t] EXCEPT !.pc = "stamp", !.wait = 0, !.answer = parsed,
                 !.listing = <<>>, !.props = Absent, !.served = None])
  /\ UNCHANGED <<server, stampAge, calm>>

\* The payloads are parsed and the result is written to the attribute ...
Store(t) ==
  LET parsed == Parse(thread[t].listing, thread[t].props, thread[t].served) IN
  /\ thread[t].pc = "got"
  /\ modalities' = parsed
  /\ seenAge' = thread[t].seen
  /\ Goto(t, [thread[t] EXCEPT !.pc = "stamp", !.wait = 0, !.answer = parsed,
                 !.listing = <<>>, !.props = Absent, !.served = None])
  /\ UNCHANGED <<server, stampAge, calm>>

\* ... and then the time: of the start of the probe, in health_check of now.
Stamp(t) ==
  /\ thread[t].pc = "stamp"
  /\ stampAge' = IF thread[t].role = "health" THEN 0 ELSE thread[t].now
  /\ Goto(t, IF thread[t].role = "health" THEN Idle
             ELSE [thread[t] EXCEPT !.pc = "answered", !.now = 0])
  /\ UNCHANGED <<server, modalities, seenAge, calm>>

\* has_multimodal, supports_media: the caller uses the answer at once.
Return(t) ==
  /\ thread[t].pc = "answered"
  /\ Goto(t, Idle)
  /\ UNCHANGED <<server, modalities, stampAge, seenAge, calm>>

\* Another server is started at the URL, or none answers any more.
Exchange ==
  /\ server' \in Servers \ {server}
  /\ calm' = 0
  /\ UNCHANGED <<modalities, stampAge, thread, seenAge>>

Older(age, bound) == IF age < bound THEN age + 1 ELSE age

Aged(r) ==
  IF r.pc \notin Waiting THEN r
  ELSE [r EXCEPT !.wait = @ + 1, !.now = Older(@, TTL),
                 !.seen = Older(@, Horizon)]

\* Time passes while threads wait for responses, never within their steps.
Tick ==
  /\ \A t \in Threads :
       /\ thread[t].pc \notin Within
       /\ thread[t].pc \in Waiting => thread[t].wait < Slow
  /\ stampAge' = Older(stampAge, TTL)
  /\ seenAge' = Older(seenAge, Horizon)
  /\ calm' = Older(calm, Horizon)
  /\ thread' = [t \in Threads |-> Aged(thread[t])]
  /\ UNCHANGED <<server, modalities>>

InputModalities(t) == Ask(t) \/ Take(t) \/ Return(t)
HealthCheck(t) == StartHealth(t) \/ Ready(t) \/ NotReady(t) \/ FetchServed(t)
Probe(t) == GetModels(t) \/ GetProps(t) \/ Store(t) \/ Stamp(t)

ClientNext == \/ \E t \in Threads : InputModalities(t) \/ HealthCheck(t) \/ Probe(t)
        \/ Exchange \/ Tick

ClientSpec == ClientInit /\ [][ClientNext]_clientVars

-----------------------------------------------------------------------------
(***************************************************************************)
(* Properties.                                                             *)
(***************************************************************************)

Thread == [pc : Waiting \cup Within \cup Early, role : {"ask", "health"},
           served : Names \cup {None}, listing : Seq(Entry),
           props : {Absent} \cup SUBSET Kinds, wait : 0..Slow, now : 0..TTL,
           seen : 0..Horizon, answer : SUBSET Kinds]

ClientTypeOK ==
  /\ server \in Servers
  /\ modalities \in {Absent} \cup SUBSET Kinds
  /\ stampAge \in 0..TTL /\ seenAge \in 0..Horizon /\ calm \in 0..Horizon
  /\ thread \in [Threads -> Thread]

Answered(t) == thread[t].pc = "answered"

\* No answer rests on what a server said longer ago than a cache entry lasts
\* and the requests of one probe take, although threads write the value and
\* its time separately and without a lock, and health_check and
\* input_modalities take that time at different ends of a probe.
AnswerIsRecent == \A t \in Threads : Answered(t) => thread[t].seen < Horizon

\* What the server now at the URL says of itself; with the name that
\* health_check passes the entry may be another than without.
Truth(s) == {Parse(Listing[s], Properties[s], n) : n \in {None, Name[s]}}

\* Once the server has stayed the same and answered for that long, an answer
\* is what this server says: a failed probe that was cached as "no input", a
\* guess made without /props and a probe that saw the models of one server
\* and the properties of the next are all forgotten.
AnswerFollowsServer ==
  calm = Horizon => \A t \in Threads : Answered(t) => thread[t].answer \in Truth(server)
=============================================================================
