---------------------------- MODULE ServerProofs ----------------------------
(***************************************************************************)
(* Proofs about the two clients of other servers.                          *)
(*                                                                         *)
(* ModelClient, for every set of threads and servers, whatever the servers *)
(* list, and for every life of a cache entry and of a request: its answers *)
(* are recent and follow the server.                                       *)
(*                                                                         *)
(* McpHub, for any number of callers, links and restarts: its types, and   *)
(* that outside the races it names every poll can be cancelled, an unlink  *)
(* is final, a connected server has its tokens, and the registry offers    *)
(* what the hub indexes.                                                   *)
(***************************************************************************)
EXTENDS ModelClient, McpHub, WellFoundedInduction, TLAPS

-----------------------------------------------------------------------------
(* What a probe finds is a set of kinds of input. *)

LEMMA FirstExists ==
  ASSUME NEW listing \in Seq(Entry), NEW S \in SUBSET (DOMAIN listing), S # {}
  PROVE  (CHOOSE i \in S : \A j \in S : i <= j) \in DOMAIN listing
<1>1. S \in SUBSET Nat
  OBVIOUS
<1>2. \E i \in S : \A j \in S : ~ (<<j, i>> \in OpToRel(<, Nat))
  BY <1>1, WFMin, NatLessThanWellFounded, Zenon
<1>3. \E i \in S : \A j \in S : ~ (j < i)
  BY <1>1, <1>2, Zenon DEF OpToRel
<1>4. \E i \in S : \A j \in S : i <= j
  BY <1>1, <1>3
<1> QED
  BY <1>4

LEMMA PickedType ==
  ASSUME NEW listing \in Seq(Entry), listing # <<>>, NEW wanted
  PROVE  Picked(listing, wanted) \in Entry
<1> DEFINE named == {i \in DOMAIN listing : listing[i].id \in wanted}
           first == IF named = {} THEN 1
                    ELSE CHOOSE i \in named : \A j \in named : i <= j
<1>1. 1 \in DOMAIN listing
  OBVIOUS
<1>2. named # {} =>
        (CHOOSE i \in named : \A j \in named : i <= j) \in DOMAIN listing
  <2> HIDE DEF named
  <2>1. named \in SUBSET (DOMAIN listing)
    BY DEF named
  <2> QED
    BY <2>1, FirstExists
<1>3. first \in DOMAIN listing
  <2> HIDE DEF named
  <2> QED
    BY <1>1, <1>2
<1>4. \A i \in DOMAIN listing : listing[i] \in Entry
  OBVIOUS
<1>5. Picked(listing, wanted) = listing[first]
  BY DEF Picked
<1> HIDE DEF first
<1> QED
  BY <1>3, <1>4, <1>5

LEMMA FirstArchitectureType ==
  ASSUME NEW listing \in Seq(Entry)
  PROVE  FirstArchitecture(listing) \in SUBSET Kinds
<1> DEFINE with == {i \in DOMAIN listing : listing[i].arch # {}}
           i0 == CHOOSE i \in with : \A j \in with : i <= j
<1>1. CASE with = {}
  BY <1>1 DEF FirstArchitecture
<1>2. CASE with # {}
  <2>1. i0 \in DOMAIN listing
    <3> HIDE DEF with
    <3>1. with \in SUBSET (DOMAIN listing)
      BY DEF with
    <3> QED
      BY <1>2, <3>1, FirstExists
  <2>2. listing[i0].arch \in SUBSET Kinds
    <3>1. \A i \in DOMAIN listing : listing[i] \in Entry
      OBVIOUS
    <3> HIDE DEF i0
    <3> QED
      BY <2>1, <3>1 DEF Entry
  <2>3. FirstArchitecture(listing) = listing[i0].arch
    BY <1>2 DEF FirstArchitecture
  <2> QED
    BY <2>2, <2>3
<1> QED
  BY <1>1, <1>2

LEMMA ParseType ==
  ASSUME NEW listing \in Seq(Entry), NEW props \in {Absent} \cup SUBSET Kinds,
         NEW served
  PROVE  Parse(listing, props, served) \in SUBSET Kinds
<1> DEFINE picked == Picked(listing, {Configured, served} \ {None})
           arch == IF listing = <<>> THEN {} ELSE picked.arch
           none == IF props # Absent THEN props
                   ELSE IF Capable(listing) THEN {"image"} ELSE {}
<1>1. arch \in SUBSET Kinds
  <2>1. listing # <<>> => picked \in Entry
    BY PickedType
  <2> HIDE DEF picked
  <2> QED
    BY <2>1 DEF Entry
<1>2. none \in SUBSET Kinds
  BY DEF Kinds
<1>3. FirstArchitecture(listing) \in SUBSET Kinds
  BY FirstArchitectureType
<1>4. Parse(listing, props, served)
        = IF arch # {} THEN arch
          ELSE IF FirstArchitecture(listing) # {} THEN FirstArchitecture(listing)
          ELSE none
  <2> HIDE DEF picked, none
  <2> QED
    BY DEF Parse, picked, none
<1> HIDE DEF arch, none
<1> QED
  BY <1>1, <1>2, <1>3, <1>4

-----------------------------------------------------------------------------
(* The types hold. *)

LEMMA IdleType == Idle \in Thread
<1>1. 0 \in 0..Slow /\ 0 \in 0..TTL /\ 0 \in 0..Horizon
  BY TimeAssumption DEF Horizon
<1>2. <<>> \in Seq(Entry)
  OBVIOUS
<1> QED
  BY <1>1, <1>2 DEF Idle, Thread, Early, Kinds

LEMMA ClientTypeInit == ClientInit => ClientTypeOK
BY IdleType, TimeAssumption, ServerAssumption DEF ClientInit, ClientTypeOK, Horizon

\* Every step of a thread replaces the record of that thread by another.
Moves(t, r) == r \in Thread /\ Goto(t, r)

LEMMA MovesType ==
  ASSUME thread \in [Threads -> Thread], NEW t \in Threads, NEW r, Moves(t, r)
  PROVE  thread' \in [Threads -> Thread]
BY DEF Moves, Goto

\* Only a value can be taken from the cache.
TakesSomething == \A t \in Threads : thread[t].pc = "take" => modalities # Absent

LEMMA AskMoves ==
  ASSUME ClientTypeOK, TakesSomething, NEW t \in Threads, InputModalities(t)
  PROVE  ClientTypeOK'
<1> USE DEF ClientTypeOK
<1>1. CASE Ask(t)
  <2> DEFINE r == [Idle EXCEPT !.pc = IF Fresh THEN "take" ELSE "models"]
  <2>1. r \in Thread
    BY IdleType DEF Thread, Idle, Waiting, Within
  <2> QED
    BY <1>1, <2>1, MovesType DEF Ask, Moves
<1>2. CASE Take(t)
  <2> DEFINE r == [Idle EXCEPT !.pc = "answered", !.answer = modalities,
                               !.seen = seenAge]
  <2>1. r \in Thread
    BY <1>2, IdleType DEF Thread, Idle, Within, TakesSomething, Take
  <2> QED
    BY <1>2, <2>1, MovesType DEF Take, Moves
<1>3. CASE Return(t)
  BY <1>3, IdleType, MovesType DEF Return, Moves
<1> QED
  BY <1>1, <1>2, <1>3 DEF InputModalities

LEMMA HealthMoves ==
  ASSUME ClientTypeOK, NEW t \in Threads, HealthCheck(t)
  PROVE  ClientTypeOK'
<1> USE DEF ClientTypeOK
<1>1. 0 \in 0..Slow /\ 0 \in 0..TTL /\ 0 \in 0..Horizon
  BY TimeAssumption DEF Horizon
<1>2. thread[t] \in Thread
  OBVIOUS
<1>3. CASE StartHealth(t)
  <2> DEFINE r == [Idle EXCEPT !.pc = "health", !.role = "health"]
  <2>1. r \in Thread
    BY IdleType DEF Thread, Idle, Early
  <2> QED
    BY <1>3, <2>1, MovesType DEF StartHealth, Moves
<1>4. CASE Ready(t)
  <2> DEFINE r == [thread[t] EXCEPT !.pc = "served", !.wait = 0]
  <2>1. r \in Thread
    BY <1>1, <1>2 DEF Thread, Early
  <2> QED
    BY <1>4, <2>1, MovesType DEF Ready, Moves
<1>5. CASE NotReady(t)
  BY <1>5, IdleType, MovesType DEF NotReady, Moves
<1>6. CASE FetchServed(t)
  <2>1. PICK name \in {Name[server], None} :
          /\ Get(Name[server], None, name)
          /\ Goto(t, [thread[t] EXCEPT !.pc = "models", !.wait = 0,
                                       !.served = name, !.seen = 0])
    BY <1>6 DEF FetchServed
  <2> DEFINE r == [thread[t] EXCEPT !.pc = "models", !.wait = 0,
                                    !.served = name, !.seen = 0]
  <2>2. name \in Names \cup {None}
    BY ServerAssumption
  <2>3. r \in Thread
    BY <1>1, <1>2, <2>2 DEF Thread, Waiting
  <2>4. calm' \in 0..Horizon
    BY <1>1, <2>1 DEF Get
  <2> QED
    BY <1>6, <2>1, <2>3, <2>4, MovesType DEF FetchServed, Moves
<1> QED
  BY <1>3, <1>4, <1>5, <1>6 DEF HealthCheck

LEMMA ProbeMoves ==
  ASSUME ClientTypeOK, NEW t \in Threads, Probe(t)
  PROVE  ClientTypeOK'
<1> USE DEF ClientTypeOK
<1>1. 0 \in 0..Slow /\ 0 \in 0..TTL /\ 0 \in 0..Horizon
  BY TimeAssumption DEF Horizon
<1>2. thread[t] \in Thread
  OBVIOUS
<1>3. <<>> \in Seq(Entry)
  OBVIOUS
<1>4. CASE GetModels(t)
  <2>1. PICK listing \in {Listing[server], <<>>} :
          /\ Get(Listing[server], <<>>, listing)
          /\ Goto(t, [thread[t] EXCEPT
                        !.pc = "props", !.wait = 0, !.listing = listing,
                        !.seen = IF thread[t].role = "health" THEN @ ELSE 0])
    BY <1>4 DEF GetModels
  <2> DEFINE r == [thread[t] EXCEPT
                     !.pc = "props", !.wait = 0, !.listing = listing,
                     !.seen = IF thread[t].role = "health" THEN @ ELSE 0]
  <2>2. listing \in Seq(Entry)
    BY <1>3, ServerAssumption
  <2>3. r \in Thread
    BY <1>1, <1>2, <2>2 DEF Thread, Waiting
  <2>4. calm' \in 0..Horizon
    BY <1>1, <2>1 DEF Get
  <2> QED
    BY <1>4, <2>1, <2>3, <2>4, MovesType DEF GetModels, Moves
<1>5. CASE GetProps(t)
  <2>1. PICK props \in {Properties[server], Absent} :
          /\ Get(Properties[server], Absent, props)
          /\ Goto(t, [thread[t] EXCEPT !.pc = "got", !.wait = 0, !.props = props])
    BY <1>5 DEF GetProps
  <2> DEFINE r == [thread[t] EXCEPT !.pc = "got", !.wait = 0, !.props = props]
  <2>2. props \in {Absent} \cup SUBSET Kinds
    BY ServerAssumption
  <2>3. r \in Thread
    BY <1>1, <1>2, <2>2 DEF Thread, Waiting
  <2>4. calm' \in 0..Horizon
    BY <1>1, <2>1 DEF Get
  <2> QED
    BY <1>5, <2>1, <2>3, <2>4, MovesType DEF GetProps, Moves
<1>6. CASE Store(t)
  <2> DEFINE parsed == Parse(thread[t].listing, thread[t].props, thread[t].served)
             r == [thread[t] EXCEPT !.pc = "stamp", !.wait = 0, !.answer = parsed,
                     !.listing = <<>>, !.props = Absent, !.served = None]
  <2>1. parsed \in SUBSET Kinds
    BY <1>2, ParseType DEF Thread
  <2> HIDE DEF parsed
  <2>2. r \in Thread
    BY <1>1, <1>2, <1>3, <2>1 DEF Thread, Within
  <2>3. modalities' = parsed /\ seenAge' = thread[t].seen /\ Goto(t, r)
    BY <1>6 DEF Store, parsed
  <2>4. seenAge' \in 0..Horizon
    BY <1>2, <2>3 DEF Thread
  <2> QED
    BY <1>6, <2>1, <2>2, <2>3, <2>4, MovesType DEF Store, Moves
<1>7. CASE Stamp(t)
  <2> DEFINE r == IF thread[t].role = "health" THEN Idle
                  ELSE [thread[t] EXCEPT !.pc = "answered", !.now = 0]
  <2>1. r \in Thread
    BY <1>1, <1>2, IdleType DEF Thread, Within
  <2>2. stampAge' \in 0..TTL
    BY <1>1, <1>2, <1>7 DEF Stamp, Thread
  <2> QED
    BY <1>7, <2>1, <2>2, MovesType DEF Stamp, Moves
<1> QED
  BY <1>4, <1>5, <1>6, <1>7 DEF Probe

LEMMA OlderType ==
  ASSUME NEW bound \in Nat, NEW age \in 0..bound
  PROVE  Older(age, bound) \in 0..bound
BY DEF Older

LEMMA TickMoves == ClientTypeOK /\ Tick => ClientTypeOK'
<1> SUFFICES ASSUME ClientTypeOK, Tick PROVE ClientTypeOK'
  OBVIOUS
<1> USE DEF ClientTypeOK
<1>1. TTL \in Nat /\ Slow \in Nat /\ Horizon \in Nat
  BY TimeAssumption DEF Horizon
<1>2. stampAge' \in 0..TTL /\ seenAge' \in 0..Horizon /\ calm' \in 0..Horizon
  BY <1>1, OlderType DEF Tick
<1>3. ASSUME NEW t \in Threads PROVE Aged(thread[t]) \in Thread
  <2>1. thread[t] \in Thread
    OBVIOUS
  <2>2. CASE thread[t].pc \notin Waiting
    BY <2>1, <2>2 DEF Aged
  <2>3. CASE thread[t].pc \in Waiting
    <3>1. thread[t].wait + 1 \in 0..Slow
      BY <1>1, <2>1, <2>3 DEF Tick, Thread
    <3>2. Older(thread[t].now, TTL) \in 0..TTL
      BY <1>1, <2>1, OlderType DEF Thread
    <3>3. Older(thread[t].seen, Horizon) \in 0..Horizon
      BY <1>1, <2>1, OlderType DEF Thread
    <3> QED
      BY <2>1, <2>3, <3>1, <3>2, <3>3 DEF Aged, Thread
  <2> QED
    BY <2>2, <2>3
<1> QED
  BY <1>2, <1>3 DEF Tick

\* A step of a thread leaves the others where they are.
LEMMA OthersStay ==
  ASSUME ClientTypeOK, NEW t \in Threads, NEW r, Goto(t, r)
  PROVE  thread'[t] = r /\ \A u \in Threads \ {t} : thread'[u] = thread[u]
BY DEF Goto, ClientTypeOK

\* A value once known stays known.
LEMMA ParsedIsKnown ==
  ASSUME ClientTypeOK, NEW t \in Threads, Store(t)
  PROVE  modalities' # Absent
<1>1. thread[t] \in Thread
  BY DEF ClientTypeOK
<1>2. modalities' \in SUBSET Kinds
  BY <1>1, ParseType DEF Store, Thread
<1> QED
  BY <1>2, ServerAssumption

TypeInv == ClientTypeOK /\ TakesSomething

LEMMA TakesNext ==
  ASSUME TypeInv, NEW t \in Threads,
         InputModalities(t) \/ HealthCheck(t) \/ Probe(t)
  PROVE  TakesSomething'
<1> SUFFICES ASSUME NEW u \in Threads, thread'[u].pc = "take"
             PROVE  modalities' # Absent
  BY DEF TakesSomething
<1>1. ClientTypeOK /\ thread[t] \in Thread /\ Idle.pc = "idle"
  BY DEF TypeInv, ClientTypeOK, Idle
<1>2. CASE Store(t)
  BY <1>1, <1>2, ParsedIsKnown
<1>3. CASE ~ Store(t)
  <2>1. modalities' = modalities
    BY <1>3 DEF InputModalities, HealthCheck, Probe, Ask, Take, Return, StartHealth,
       Ready, NotReady, FetchServed, GetModels, GetProps, Stamp
  <2>2. CASE u # t
    <3>1. \E r : Goto(t, r)
      BY DEF InputModalities, HealthCheck, Probe, Ask, Take, Return, StartHealth,
         Ready, NotReady, FetchServed, GetModels, GetProps, Store, Stamp
    <3>2. thread'[u] = thread[u]
      BY <1>1, <2>2, <3>1, OthersStay
    <3> QED
      BY <2>1, <3>2 DEF TypeInv, TakesSomething
  <2>3. CASE u = t /\ Ask(t)
    <3>1. thread'[t] = [Idle EXCEPT !.pc = IF Fresh THEN "take" ELSE "models"]
      BY <1>1, <2>3, OthersStay DEF Ask
    <3> QED
      BY <2>1, <2>3, <3>1 DEF Fresh, Idle
  <2>4. CASE u = t /\ ~ Ask(t)
    <3>1. thread'[t].pc # "take"
      <4>1. ASSUME NEW r, Goto(t, r), r.pc # "take" PROVE thread'[t].pc # "take"
        BY <1>1, <4>1, OthersStay
      <4>2. CASE Take(t) \/ Return(t) \/ StartHealth(t) \/ NotReady(t) \/ Ready(t)
        BY <1>1, <4>1, <4>2 DEF Take, Return, StartHealth, NotReady, Ready, Idle, Thread
      <4>3. CASE FetchServed(t)
        BY <1>1, <4>1, <4>3 DEF FetchServed, Thread
      <4>4. CASE GetModels(t)
        BY <1>1, <4>1, <4>4 DEF GetModels, Thread
      <4>5. CASE GetProps(t)
        BY <1>1, <4>1, <4>5 DEF GetProps, Thread
      <4>6. CASE Stamp(t)
        BY <1>1, <4>1, <4>6 DEF Stamp, Thread
      <4> QED
        BY <1>3, <2>4, <4>2, <4>3, <4>4, <4>5, <4>6
           DEF InputModalities, HealthCheck, Probe
    <3> QED
      BY <2>4, <3>1
  <2> QED
    BY <2>2, <2>3, <2>4
<1> QED
  BY <1>2, <1>3

LEMMA TypeInvNext == TypeInv /\ [ClientNext]_clientVars => TypeInv'
<1> SUFFICES ASSUME TypeInv, [ClientNext]_clientVars PROVE TypeInv'
  OBVIOUS
<1>1. ClientTypeOK'
  <2>1. CASE Exchange
    BY <2>1, TimeAssumption DEF Exchange, TypeInv, ClientTypeOK, Horizon
  <2>2. CASE UNCHANGED clientVars
    BY <2>2 DEF clientVars, TypeInv, ClientTypeOK
  <2> QED
    BY <2>1, <2>2, AskMoves, HealthMoves, ProbeMoves, TickMoves DEF ClientNext, TypeInv
<1>2. TakesSomething'
  <2>1. CASE Exchange
    BY <2>1 DEF Exchange, TypeInv, TakesSomething
  <2>2. CASE UNCHANGED clientVars
    BY <2>2 DEF clientVars, TypeInv, TakesSomething
  <2>3. CASE Tick
    <3>1. \A t \in Threads : thread'[t].pc # "take"
      BY <2>3 DEF Tick, Aged, TypeInv, ClientTypeOK, Thread, Within
    <3> QED
      BY <3>1 DEF TakesSomething
  <2> QED
    BY <2>1, <2>2, <2>3, TakesNext DEF ClientNext
<1> QED
  BY <1>1, <1>2 DEF TypeInv

\* Servers, cache, stamps and threads keep their types, for every set of
\* servers, whatever they list.
THEOREM ClientTypeCorrect == ClientSpec => []ClientTypeOK
<1>1. ClientInit => TypeInv
  BY ClientTypeInit DEF TypeInv, TakesSomething, ClientInit, Idle
<1>2. TypeInv => ClientTypeOK
  BY DEF TypeInv
<1> QED
  BY <1>1, <1>2, TypeInvNext, PTL DEF ClientSpec

-----------------------------------------------------------------------------
(* No answer is older than Horizon. *)

\* What a thread holds was seen no longer ago than its requests have taken.
Held(r) ==
  /\ r.pc = "models" => r.seen <= r.wait
  /\ r.pc = "props" => r.seen <= Slow + r.wait
  /\ r.pc = "got" => r.seen <= 2 * Slow + r.wait
  /\ r.pc = "stamp" => r.seen <= 3 * Slow
  /\ r.pc = "answered" => r.seen < Horizon

\* The value in the cache is older than its time by a probe at most.  Between
\* the two writes of a thread the value is as new as that thread's.
CacheHeld ==
  /\ modalities # Absent /\ stampAge < TTL => seenAge <= stampAge + 3 * Slow
  /\ \A t \in Threads : thread[t].pc = "stamp" => seenAge <= 3 * Slow
  /\ \A t \in Threads : thread[t].pc = "take" => seenAge < Horizon

RecentInv == CacheHeld /\ \A t \in Threads : Held(thread[t])

LEMMA Numbers ==
  /\ TTL \in Nat /\ TTL > 0 /\ Slow \in Nat /\ Horizon \in Nat
  /\ Horizon = TTL + 3 * Slow
BY TimeAssumption DEF Horizon

LEMMA ProbeAge ==
  ASSUME NEW a \in Nat, NEW b \in Nat, a <= 3 * Slow
  PROVE  a <= b + 3 * Slow /\ a < Horizon
<1>1. 3 * Slow \in Nat
  BY Numbers
<1> QED
  BY <1>1, Numbers

LEMMA RecentInit == ClientInit => RecentInv
<1> SUFFICES ASSUME ClientInit PROVE RecentInv
  OBVIOUS
<1>1. \A t \in Threads : thread[t].pc = "idle"
  BY DEF ClientInit, Idle
<1> QED
  BY <1>1 DEF ClientInit, RecentInv, CacheHeld, Held

\* Steps that leave the cache and its times alone.
LEMMA HeldStep ==
  ASSUME TypeInv, RecentInv, NEW t \in Threads, NEW r, Goto(t, r), Held(r),
         UNCHANGED <<modalities, stampAge, seenAge>>,
         r.pc # "stamp", r.pc = "take" => seenAge < Horizon
  PROVE  RecentInv'
<1>1. thread'[t] = r /\ \A u \in Threads \ {t} : thread'[u] = thread[u]
  BY OthersStay DEF TypeInv
<1>2. \A u \in Threads : Held(thread'[u])
  BY <1>1 DEF RecentInv
<1>3. CacheHeld'
  BY <1>1 DEF RecentInv, CacheHeld
<1> QED
  BY <1>2, <1>3 DEF RecentInv, Held

LEMMA RecentAsks ==
  ASSUME TypeInv, RecentInv, NEW t \in Threads, InputModalities(t)
  PROVE  RecentInv'
<1>1. CASE Ask(t)
  <2> DEFINE r == [Idle EXCEPT !.pc = IF Fresh THEN "take" ELSE "models"]
  <2>1. Fresh => seenAge < Horizon
    BY Numbers DEF Fresh, RecentInv, CacheHeld, TypeInv, ClientTypeOK
  <2>2. /\ r.pc = IF Fresh THEN "take" ELSE "models"
        /\ r.seen = 0 /\ r.wait = 0
    BY DEF Idle
  <2>3. Held(r) /\ r.pc # "stamp" /\ (r.pc = "take" => seenAge < Horizon)
    BY <2>1, <2>2 DEF Held
  <2> HIDE DEF r
  <2> QED
    BY <1>1, <2>3, HeldStep DEF Ask, r
<1>2. CASE Take(t)
  <2> DEFINE r == [Idle EXCEPT !.pc = "answered", !.answer = modalities,
                               !.seen = seenAge]
  <2>1. r.pc = "answered" /\ r.seen = seenAge
    BY DEF Idle
  <2>2. seenAge < Horizon
    BY <1>2 DEF Take, RecentInv, CacheHeld
  <2>3. Held(r) /\ r.pc # "stamp" /\ r.pc # "take"
    BY <2>1, <2>2 DEF Held
  <2> HIDE DEF r
  <2> QED
    BY <1>2, <2>3, HeldStep DEF Take, r
<1>3. CASE Return(t)
  <2>1. Idle.pc = "idle" /\ Held(Idle)
    BY DEF Idle, Held
  <2> QED
    BY <1>3, <2>1, HeldStep DEF Return
<1> QED
  BY <1>1, <1>2, <1>3 DEF InputModalities

LEMMA RecentHealth ==
  ASSUME TypeInv, RecentInv, NEW t \in Threads, HealthCheck(t)
  PROVE  RecentInv'
<1>1. thread[t] \in Thread /\ Held(thread[t])
  BY DEF TypeInv, ClientTypeOK, RecentInv
<1>2. ASSUME NEW r, Goto(t, r), r.pc \in {"idle", "health", "served"},
             UNCHANGED <<modalities, stampAge, seenAge>>
      PROVE  RecentInv'
  <2>1. Held(r)
    BY <1>2 DEF Held
  <2> QED
    BY <1>2, <2>1, HeldStep
<1>3. CASE StartHealth(t)
  BY <1>2, <1>3 DEF StartHealth, Idle
<1>4. CASE Ready(t)
  <2>1. [thread[t] EXCEPT !.pc = "served", !.wait = 0].pc = "served"
    BY <1>1 DEF Thread
  <2> QED
    BY <1>2, <1>4, <2>1 DEF Ready
<1>5. CASE NotReady(t)
  BY <1>2, <1>5 DEF NotReady, Idle
<1>6. CASE FetchServed(t)
  <2>1. PICK name \in {Name[server], None} :
          Goto(t, [thread[t] EXCEPT !.pc = "models", !.wait = 0,
                                    !.served = name, !.seen = 0])
    BY <1>6 DEF FetchServed
  <2> DEFINE r == [thread[t] EXCEPT !.pc = "models", !.wait = 0,
                                    !.served = name, !.seen = 0]
  <2>2. r.pc = "models" /\ r.seen = 0 /\ r.wait = 0
    BY <1>1 DEF Thread
  <2>3. Held(r)
    BY <2>2 DEF Held
  <2> HIDE DEF r
  <2> QED
    BY <1>6, <2>1, <2>2, <2>3, HeldStep DEF FetchServed, r
<1> QED
  BY <1>3, <1>4, <1>5, <1>6 DEF HealthCheck

LEMMA RecentProbe ==
  ASSUME TypeInv, RecentInv, NEW t \in Threads, Probe(t)
  PROVE  RecentInv'
<1>1. thread[t] \in Thread /\ Held(thread[t])
  BY DEF TypeInv, ClientTypeOK, RecentInv
<1>2. thread[t].wait \in 0..Slow /\ thread[t].seen \in Nat /\ thread[t].now \in Nat
  BY <1>1, Numbers DEF Thread
<1>3. CASE GetModels(t)
  <2>1. PICK listing \in {Listing[server], <<>>} :
          Goto(t, [thread[t] EXCEPT
                     !.pc = "props", !.wait = 0, !.listing = listing,
                     !.seen = IF thread[t].role = "health" THEN @ ELSE 0])
    BY <1>3 DEF GetModels
  <2> DEFINE r == [thread[t] EXCEPT
                     !.pc = "props", !.wait = 0, !.listing = listing,
                     !.seen = IF thread[t].role = "health" THEN @ ELSE 0]
  <2>2. r.pc = "props" /\ r.wait = 0 /\ r.seen \in {0, thread[t].seen}
    BY <1>1 DEF Thread
  <2>3. Held(r)
    BY <1>1, <1>2, <1>3, <2>2, Numbers DEF Held, GetModels
  <2> HIDE DEF r
  <2> QED
    BY <1>3, <2>1, <2>2, <2>3, HeldStep DEF GetModels, r
<1>4. CASE GetProps(t)
  <2>1. PICK props \in {Properties[server], Absent} :
          Goto(t, [thread[t] EXCEPT !.pc = "got", !.wait = 0, !.props = props])
    BY <1>4 DEF GetProps
  <2> DEFINE r == [thread[t] EXCEPT !.pc = "got", !.wait = 0, !.props = props]
  <2>2. r.pc = "got" /\ r.wait = 0 /\ r.seen = thread[t].seen
    BY <1>1 DEF Thread
  <2>3. Held(r)
    BY <1>1, <1>2, <1>4, <2>2, Numbers DEF Held, GetProps
  <2> HIDE DEF r
  <2> QED
    BY <1>4, <2>1, <2>2, <2>3, HeldStep DEF GetProps, r
<1>5. CASE Store(t)
  <2> DEFINE parsed == Parse(thread[t].listing, thread[t].props, thread[t].served)
             r == [thread[t] EXCEPT !.pc = "stamp", !.wait = 0, !.answer = parsed,
                     !.listing = <<>>, !.props = Absent, !.served = None]
  <2>1. r.pc = "stamp" /\ r.seen = thread[t].seen
    BY <1>1 DEF Thread
  <2>2. thread[t].seen <= 3 * Slow
    BY <1>1, <1>2, <1>5, Numbers DEF Held, Store
  <2>3. Held(r)
    BY <2>1, <2>2 DEF Held
  <2>4. seenAge' <= 3 * Slow /\ seenAge' < Horizon /\ seenAge' \in Nat
    BY <1>2, <1>5, <2>2, Numbers DEF Store
  <2>5. Goto(t, r)
    BY <1>5 DEF Store
  <2> HIDE DEF r
  <2>6. thread'[t] = r /\ \A u \in Threads \ {t} : thread'[u] = thread[u]
    BY <2>5, OthersStay DEF TypeInv
  <2>7. \A u \in Threads : Held(thread'[u])
    BY <2>3, <2>6 DEF RecentInv
  <2>8. stampAge' \in Nat
    BY <1>5, Numbers DEF Store, TypeInv, ClientTypeOK
  <2>9. CacheHeld'
    <3>1. seenAge' <= stampAge' + 3 * Slow
      BY <2>4, <2>8, ProbeAge
    <3> QED
      BY <2>4, <3>1 DEF CacheHeld
  <2> QED
    BY <2>7, <2>9 DEF RecentInv, Held
<1>6. CASE Stamp(t)
  <2> DEFINE r == IF thread[t].role = "health" THEN Idle
                  ELSE [thread[t] EXCEPT !.pc = "answered", !.now = 0]
  <2>1. \/ r.pc = "idle"
        \/ r.pc = "answered" /\ r.seen = thread[t].seen
    BY <1>1 DEF Thread, Idle
  <2>2. thread[t].seen < Horizon
    BY <1>1, <1>2, <1>6, Numbers DEF Held, Stamp
  <2>3. Held(r)
    BY <2>1, <2>2 DEF Held
  <2>4. Goto(t, r)
    BY <1>6 DEF Stamp
  <2> HIDE DEF r
  <2>5. thread'[t] = r /\ \A u \in Threads \ {t} : thread'[u] = thread[u]
    BY <2>4, OthersStay DEF TypeInv
  <2>6. \A u \in Threads : Held(thread'[u])
    BY <2>3, <2>5 DEF RecentInv
  <2>7. stampAge' \in Nat /\ seenAge' = seenAge /\ seenAge \in Nat
    BY <1>2, <1>6, Numbers DEF Stamp, TypeInv, ClientTypeOK
  <2>8. seenAge <= 3 * Slow
    BY <1>6 DEF Stamp, RecentInv, CacheHeld
  <2>9. CacheHeld'
    <3>1. seenAge' <= stampAge' + 3 * Slow /\ seenAge' < Horizon
      BY <2>7, <2>8, ProbeAge
    <3> QED
      BY <2>7, <2>8, <3>1 DEF CacheHeld
  <2> QED
    BY <2>6, <2>9 DEF RecentInv, Held
<1> QED
  BY <1>3, <1>4, <1>5, <1>6 DEF Probe

LEMMA RecentTick == TypeInv /\ RecentInv /\ Tick => RecentInv'
<1> SUFFICES ASSUME TypeInv, RecentInv, Tick PROVE RecentInv'
  OBVIOUS
<1>1. /\ stampAge \in 0..TTL /\ seenAge \in 0..Horizon /\ modalities' = modalities
      /\ stampAge' = Older(stampAge, TTL) /\ seenAge' = Older(seenAge, Horizon)
  BY DEF TypeInv, ClientTypeOK, Tick
<1>2. \A t \in Threads : thread'[t] = Aged(thread[t]) /\ thread[t].pc \notin Within
  BY DEF Tick
<1>3. ASSUME NEW t \in Threads
      PROVE  Held(thread'[t]) /\ thread'[t].pc \notin Within
  <2>1. thread[t] \in Thread /\ Held(thread[t])
    BY DEF TypeInv, ClientTypeOK, RecentInv
  <2>2. CASE thread[t].pc \notin Waiting
    BY <1>2, <2>1, <2>2 DEF Aged
  <2>3. CASE thread[t].pc \in Waiting
    <3> DEFINE r == [thread[t] EXCEPT !.wait = @ + 1, !.now = Older(@, TTL),
                                      !.seen = Older(@, Horizon)]
    <3>1. /\ r.pc = thread[t].pc /\ r.wait = thread[t].wait + 1
          /\ r.seen = Older(thread[t].seen, Horizon)
      BY <2>1 DEF Thread
    <3>2. /\ thread[t].wait \in Nat /\ thread[t].seen \in 0..Horizon
      BY <2>1, Numbers DEF Thread
    <3>3. thread'[t] = r
      BY <1>2, <2>3 DEF Aged
    <3> HIDE DEF r
    <3>4. r.seen \in Nat /\ r.seen <= thread[t].seen + 1
      BY <3>1, <3>2, Numbers DEF Older
    <3>5. Held(r)
      BY <2>1, <2>3, <3>1, <3>2, <3>4, Numbers DEF Held, Waiting
    <3> QED
      BY <1>2, <2>3, <3>1, <3>3, <3>5 DEF Waiting, Within
  <2> QED
    BY <2>2, <2>3
<1>4. CacheHeld'
  <2>1. modalities' # Absent /\ stampAge' < TTL => seenAge' <= stampAge' + 3 * Slow
    BY <1>1, Numbers DEF RecentInv, CacheHeld, Older
  <2> QED
    BY <1>3, <2>1 DEF CacheHeld, Within
<1> QED
  BY <1>3, <1>4 DEF RecentInv, Held

LEMMA RecentNext == TypeInv /\ RecentInv /\ [ClientNext]_clientVars => RecentInv'
<1> SUFFICES ASSUME TypeInv, RecentInv, [ClientNext]_clientVars PROVE RecentInv'
  OBVIOUS
<1>1. CASE Exchange
  BY <1>1 DEF Exchange, RecentInv, CacheHeld, Held
<1>2. CASE UNCHANGED clientVars
  BY <1>2 DEF clientVars, RecentInv, CacheHeld, Held
<1> QED
  BY <1>1, <1>2, RecentAsks, RecentHealth, RecentProbe, RecentTick DEF ClientNext

LEMMA InitTypeInv == ClientInit => TypeInv
BY ClientTypeInit DEF TypeInv, TakesSomething, ClientInit, Idle

\* For any number of threads, however long a cache entry and a request last:
\* no answer rests on what a server said Horizon ticks ago or earlier.
THEOREM AlwaysRecent == ClientSpec => []AnswerIsRecent
<1>1. RecentInv => AnswerIsRecent
  BY DEF RecentInv, Held, AnswerIsRecent, Answered
<1> QED
  BY <1>1, InitTypeInv, TypeInvNext, RecentInit, RecentNext, PTL DEF ClientSpec

-----------------------------------------------------------------------------
(* After Horizon calm ticks an answer is what the server says. *)

\* Only health_check asks for the served model, before anything else.
Role(r) ==
  /\ r.pc \in {"health", "served"} => r.role = "health"
  /\ r.pc = "models" /\ r.role = "ask" => r.served = None

Named(r) == r.served \in {None, Name[server]}

\* What a thread has seen since the last disturbance is what the server says.
Honest(r) ==
  calm > r.seen =>
    /\ r.pc = "models" => Named(r)
    /\ r.pc = "props" => Named(r) /\ r.listing = Listing[server]
    /\ r.pc = "got" => /\ Named(r) /\ r.listing = Listing[server]
                       /\ r.props = Properties[server]
    /\ r.pc \in {"stamp", "answered"} => r.answer \in Truth(server)

CacheHonest ==
  modalities # Absent /\ calm > seenAge => modalities \in Truth(server)

RoleInv == \A t \in Threads : Role(thread[t])
HonestInv == CacheHonest /\ \A t \in Threads : Honest(thread[t])

FollowInv == TypeInv /\ RoleInv /\ HonestInv

\* A step in which the server changes or fails to answer promises nothing.
LEMMA Disturbed ==
  ASSUME ClientTypeOK', calm' = 0
  PROVE  HonestInv'
<1>1. seenAge' \in Nat /\ \A t \in Threads : thread'[t].seen \in Nat
  BY Numbers DEF ClientTypeOK, Thread
<1>2. ~ (calm' > seenAge')
  BY <1>1
<1>3. \A t \in Threads : ~ (calm' > thread'[t].seen)
  BY <1>1
<1> QED
  BY <1>2, <1>3 DEF HonestInv, CacheHonest, Honest

\* Steps of a thread that disturb nothing and leave the cache alone.
LEMMA HonestStep ==
  ASSUME FollowInv, NEW t \in Threads, NEW r, Goto(t, r), Role(r), Honest(r),
         UNCHANGED <<server, modalities, seenAge, calm>>
  PROVE  RoleInv' /\ HonestInv'
<1>1. thread'[t] = r /\ \A u \in Threads \ {t} : thread'[u] = thread[u]
  BY OthersStay DEF FollowInv, TypeInv
<1>2. RoleInv'
  BY <1>1 DEF FollowInv, RoleInv, Role
<1>3. CacheHonest'
  BY DEF FollowInv, HonestInv, CacheHonest, Truth
<1>4. ASSUME NEW u \in Threads PROVE Honest(thread[u])'
  <2>1. CASE u = t
    BY <1>1, <2>1 DEF Honest, Named, Truth
  <2>2. CASE u # t
    BY <1>1, <2>2 DEF FollowInv, HonestInv, Honest, Named, Truth
  <2> QED
    BY <2>1, <2>2
<1> QED
  BY <1>2, <1>3, <1>4 DEF HonestInv

LEMMA RoleStep ==
  ASSUME FollowInv, NEW t \in Threads, NEW r, Goto(t, r), Role(r)
  PROVE  RoleInv'
<1>1. thread'[t] = r /\ \A u \in Threads \ {t} : thread'[u] = thread[u]
  BY OthersStay DEF FollowInv, TypeInv
<1> QED
  BY <1>1 DEF FollowInv, RoleInv, Role

LEMMA HonestAsks ==
  ASSUME FollowInv, NEW t \in Threads, InputModalities(t)
  PROVE  RoleInv' /\ HonestInv'
<1>1. CASE Ask(t)
  <2> DEFINE r == [Idle EXCEPT !.pc = IF Fresh THEN "take" ELSE "models"]
  <2>1. r.pc \in {"take", "models"} /\ r.served = None
    BY DEF Idle
  <2>2. Role(r) /\ Honest(r)
    BY <2>1 DEF Role, Honest, Named
  <2> HIDE DEF r
  <2> QED
    BY <1>1, <2>2, HonestStep DEF Ask, r
<1>2. CASE Take(t)
  <2> DEFINE r == [Idle EXCEPT !.pc = "answered", !.answer = modalities,
                               !.seen = seenAge]
  <2>1. r.pc = "answered" /\ r.answer = modalities /\ r.seen = seenAge
    BY DEF Idle
  <2>2. calm > seenAge => modalities \in Truth(server)
    BY <1>2 DEF FollowInv, TypeInv, TakesSomething, Take, HonestInv, CacheHonest
  <2>3. Role(r) /\ Honest(r)
    BY <2>1, <2>2 DEF Role, Honest
  <2> HIDE DEF r
  <2> QED
    BY <1>2, <2>3, HonestStep DEF Take, r
<1>3. CASE Return(t)
  <2>1. Role(Idle) /\ Honest(Idle)
    BY DEF Idle, Role, Honest
  <2> QED
    BY <1>3, <2>1, HonestStep DEF Return
<1> QED
  BY <1>1, <1>2, <1>3 DEF InputModalities

LEMMA HonestHealth ==
  ASSUME FollowInv, ClientTypeOK', NEW t \in Threads, HealthCheck(t)
  PROVE  RoleInv' /\ HonestInv'
<1>1. thread[t] \in Thread /\ Role(thread[t])
  BY DEF FollowInv, TypeInv, ClientTypeOK, RoleInv
<1>2. ASSUME NEW r, Goto(t, r), r.pc \in {"idle", "health", "served"},
             r.pc # "idle" => r.role = "health",
             UNCHANGED <<server, modalities, seenAge, calm>>
      PROVE  RoleInv' /\ HonestInv'
  <2>1. Role(r) /\ Honest(r)
    BY <1>2 DEF Role, Honest
  <2> QED
    BY <1>2, <2>1, HonestStep
<1>3. CASE StartHealth(t)
  BY <1>2, <1>3 DEF StartHealth, Idle
<1>4. CASE Ready(t)
  <2> DEFINE r == [thread[t] EXCEPT !.pc = "served", !.wait = 0]
  <2>1. r.pc = "served" /\ r.role = "health"
    BY <1>1, <1>4 DEF Thread, Role, Ready
  <2> HIDE DEF r
  <2> QED
    BY <1>2, <1>4, <2>1 DEF Ready, r
<1>5. CASE NotReady(t)
  BY <1>2, <1>5 DEF NotReady, Idle
<1>6. CASE FetchServed(t)
  <2>1. PICK name \in {Name[server], None} :
          /\ Get(Name[server], None, name)
          /\ Goto(t, [thread[t] EXCEPT !.pc = "models", !.wait = 0,
                                       !.served = name, !.seen = 0])
    BY <1>6 DEF FetchServed
  <2> DEFINE r == [thread[t] EXCEPT !.pc = "models", !.wait = 0,
                                    !.served = name, !.seen = 0]
  <2>2. r.pc = "models" /\ r.served = name /\ r.role = "health"
    BY <1>1, <1>6 DEF Thread, Role, FetchServed
  <2>3. Role(r) /\ Honest(r)
    BY <2>2 DEF Role, Honest, Named
  <2> HIDE DEF r
  <2>4. Goto(t, r) /\ UNCHANGED <<server, modalities, seenAge>>
    BY <1>6, <2>1 DEF FetchServed, r
  <2>5. CASE calm' = 0
    BY <2>3, <2>4, <2>5, RoleStep, Disturbed
  <2>6. CASE UNCHANGED calm
    BY <2>3, <2>4, <2>6, HonestStep
  <2> QED
    BY <2>1, <2>5, <2>6 DEF Get
<1> QED
  BY <1>3, <1>4, <1>5, <1>6 DEF HealthCheck

LEMMA HonestProbe ==
  ASSUME FollowInv, ClientTypeOK', NEW t \in Threads, Probe(t)
  PROVE  RoleInv' /\ HonestInv'
<1>1. thread[t] \in Thread /\ Role(thread[t]) /\ Honest(thread[t])
  BY DEF FollowInv, TypeInv, ClientTypeOK, RoleInv, HonestInv
<1>2. CASE GetModels(t)
  <2>1. PICK listing \in {Listing[server], <<>>} :
          /\ Get(Listing[server], <<>>, listing)
          /\ Goto(t, [thread[t] EXCEPT
                        !.pc = "props", !.wait = 0, !.listing = listing,
                        !.seen = IF thread[t].role = "health" THEN @ ELSE 0])
    BY <1>2 DEF GetModels
  <2> DEFINE r == [thread[t] EXCEPT
                     !.pc = "props", !.wait = 0, !.listing = listing,
                     !.seen = IF thread[t].role = "health" THEN @ ELSE 0]
  <2>2. /\ r.pc = "props" /\ r.listing = listing /\ r.served = thread[t].served
        /\ thread[t].role = "health" => r.seen = thread[t].seen
    BY <1>1 DEF Thread
  <2> HIDE DEF r
  <2>3. Goto(t, r) /\ UNCHANGED <<server, modalities, seenAge>>
    BY <1>2, <2>1 DEF GetModels, r
  <2>4. Role(r)
    BY <2>2 DEF Role
  <2>5. CASE calm' = 0
    BY <2>3, <2>4, <2>5, RoleStep, Disturbed
  <2>6. CASE UNCHANGED calm /\ listing = Listing[server]
    <3>1. calm > r.seen => Named(r)
      <4>1. CASE thread[t].role = "health"
        BY <1>1, <1>2, <2>2, <4>1 DEF Honest, GetModels, Named
      <4>2. CASE thread[t].role = "ask"
        BY <1>1, <1>2, <2>2, <4>2 DEF Role, GetModels, Named
      <4> QED
        BY <1>1, <4>1, <4>2 DEF Thread
    <3>2. Honest(r)
      BY <2>2, <2>6, <3>1 DEF Honest
    <3> QED
      BY <2>3, <2>4, <2>6, <3>2, HonestStep
  <2> QED
    BY <2>1, <2>5, <2>6 DEF Get
<1>3. CASE GetProps(t)
  <2>1. PICK props \in {Properties[server], Absent} :
          /\ Get(Properties[server], Absent, props)
          /\ Goto(t, [thread[t] EXCEPT !.pc = "got", !.wait = 0, !.props = props])
    BY <1>3 DEF GetProps
  <2> DEFINE r == [thread[t] EXCEPT !.pc = "got", !.wait = 0, !.props = props]
  <2>2. /\ r.pc = "got" /\ r.props = props /\ r.seen = thread[t].seen
        /\ r.listing = thread[t].listing /\ r.served = thread[t].served
    BY <1>1 DEF Thread
  <2> HIDE DEF r
  <2>3. Goto(t, r) /\ UNCHANGED <<server, modalities, seenAge>>
    BY <1>3, <2>1 DEF GetProps, r
  <2>4. Role(r)
    BY <2>2 DEF Role
  <2>5. CASE calm' = 0
    BY <2>3, <2>4, <2>5, RoleStep, Disturbed
  <2>6. CASE UNCHANGED calm /\ props = Properties[server]
    <3>1. Honest(r)
      BY <1>1, <1>3, <2>2, <2>6 DEF Honest, GetProps, Named
    <3> QED
      BY <2>3, <2>4, <2>6, <3>1, HonestStep
  <2> QED
    BY <2>1, <2>5, <2>6 DEF Get
<1>4. CASE Store(t)
  <2> DEFINE parsed == Parse(thread[t].listing, thread[t].props, thread[t].served)
             r == [thread[t] EXCEPT !.pc = "stamp", !.wait = 0, !.answer = parsed,
                     !.listing = <<>>, !.props = Absent, !.served = None]
  <2>1. r.pc = "stamp" /\ r.answer = parsed /\ r.seen = thread[t].seen
    BY <1>1 DEF Thread
  <2>2. Goto(t, r) /\ modalities' = parsed /\ seenAge' = thread[t].seen
    BY <1>4 DEF Store
  <2>3. calm > thread[t].seen => parsed \in Truth(server)
    BY <1>1, <1>4 DEF Store, Honest, Named, Truth
  <2>4. UNCHANGED <<server, calm>>
    BY <1>4 DEF Store
  <2> HIDE DEF r, parsed
  <2>5. Role(r)
    BY <2>1 DEF Role
  <2>6. thread'[t] = r /\ \A u \in Threads \ {t} : thread'[u] = thread[u]
    BY <2>2, OthersStay DEF FollowInv, TypeInv
  <2>7. CacheHonest'
    BY <2>2, <2>3, <2>4 DEF CacheHonest, Truth
  <2>8. ASSUME NEW u \in Threads PROVE Honest(thread[u])'
    <3>1. CASE u = t
      BY <2>1, <2>3, <2>4, <2>6, <3>1 DEF Honest, Truth
    <3>2. CASE u # t
      BY <2>4, <2>6, <3>2 DEF FollowInv, HonestInv, Honest, Named, Truth
    <3> QED
      BY <3>1, <3>2
  <2> QED
    BY <2>2, <2>5, <2>7, <2>8, RoleStep DEF HonestInv
<1>5. CASE Stamp(t)
  <2> DEFINE r == IF thread[t].role = "health" THEN Idle
                  ELSE [thread[t] EXCEPT !.pc = "answered", !.now = 0]
  <2>1. \/ r.pc = "idle"
        \/ r.pc = "answered" /\ r.seen = thread[t].seen /\ r.answer = thread[t].answer
    BY <1>1 DEF Thread, Idle
  <2>2. Goto(t, r) /\ UNCHANGED <<server, modalities, seenAge, calm>>
    BY <1>5 DEF Stamp
  <2>3. thread[t].pc = "stamp"
    BY <1>5 DEF Stamp
  <2> HIDE DEF r
  <2>4. Role(r) /\ Honest(r)
    BY <1>1, <2>1, <2>3 DEF Role, Honest
  <2> QED
    BY <2>2, <2>4, HonestStep
<1> QED
  BY <1>2, <1>3, <1>4, <1>5 DEF Probe

\* Both grow by one tick, up to the same bound.
LEMMA OlderKeepsOrder ==
  ASSUME NEW a \in 0..Horizon, NEW b \in 0..Horizon,
         Older(a, Horizon) > Older(b, Horizon)
  PROVE  a > b
BY Numbers DEF Older

LEMMA HonestTick == FollowInv /\ Tick => RoleInv' /\ HonestInv'
<1> SUFFICES ASSUME FollowInv, Tick PROVE RoleInv' /\ HonestInv'
  OBVIOUS
<1>1. /\ calm \in 0..Horizon /\ seenAge \in 0..Horizon
      /\ server' = server /\ modalities' = modalities
      /\ calm' = Older(calm, Horizon) /\ seenAge' = Older(seenAge, Horizon)
  BY DEF FollowInv, TypeInv, ClientTypeOK, Tick
<1>2. CacheHonest'
  BY <1>1, OlderKeepsOrder DEF FollowInv, HonestInv, CacheHonest, Truth
<1>3. ASSUME NEW t \in Threads PROVE Role(thread[t])' /\ Honest(thread[t])'
  <2>1. thread[t] \in Thread /\ Role(thread[t]) /\ Honest(thread[t])
    BY DEF FollowInv, TypeInv, ClientTypeOK, RoleInv, HonestInv
  <2>2. thread'[t] = Aged(thread[t])
    BY DEF Tick
  <2>3. thread[t].seen \in 0..Horizon
    BY <2>1 DEF Thread
  <2>4. CASE thread[t].pc \notin Waiting
    <3>1. thread'[t] = thread[t] /\ thread[t].pc \notin Within
      BY <2>2, <2>4 DEF Aged, Tick
    <3> QED
      BY <2>1, <2>4, <3>1 DEF Role, Honest, Waiting, Within
  <2>5. CASE thread[t].pc \in Waiting
    <3> DEFINE r == [thread[t] EXCEPT !.wait = @ + 1, !.now = Older(@, TTL),
                                      !.seen = Older(@, Horizon)]
    <3>1. /\ r.pc = thread[t].pc /\ r.role = thread[t].role
          /\ r.served = thread[t].served /\ r.listing = thread[t].listing
          /\ r.props = thread[t].props /\ r.answer = thread[t].answer
          /\ r.seen = Older(thread[t].seen, Horizon)
      BY <2>1 DEF Thread
    <3>2. thread'[t] = r
      BY <2>2, <2>5 DEF Aged
    <3> HIDE DEF r
    <3>3. calm' > r.seen => calm > thread[t].seen
      BY <1>1, <2>3, <3>1, OlderKeepsOrder
    <3> QED
      BY <1>1, <2>1, <3>1, <3>2, <3>3 DEF Role, Honest, Named, Truth
  <2> QED
    BY <2>4, <2>5
<1> QED
  BY <1>2, <1>3 DEF RoleInv, HonestInv

LEMMA FollowNext == FollowInv /\ [ClientNext]_clientVars => FollowInv'
<1> SUFFICES ASSUME FollowInv, [ClientNext]_clientVars PROVE FollowInv'
  OBVIOUS
<1>1. TypeInv' /\ ClientTypeOK'
  BY TypeInvNext DEF FollowInv, TypeInv
<1>2. CASE Exchange
  <2>1. RoleInv'
    BY <1>2 DEF Exchange, FollowInv, RoleInv, Role
  <2> QED
    BY <1>1, <1>2, <2>1, Disturbed DEF Exchange, FollowInv
<1>3. CASE UNCHANGED clientVars
  BY <1>1, <1>3 DEF clientVars, FollowInv, RoleInv, Role, HonestInv, CacheHonest,
                    Honest, Named, Truth
<1> QED
  BY <1>1, <1>2, <1>3, HonestAsks, HonestHealth, HonestProbe, HonestTick
     DEF ClientNext, FollowInv

LEMMA FollowInit == ClientInit => FollowInv
<1> SUFFICES ASSUME ClientInit PROVE FollowInv
  OBVIOUS
<1>1. TypeInv
  BY InitTypeInv
<1>2. \A t \in Threads : thread[t].pc = "idle"
  BY DEF ClientInit, Idle
<1>3. RoleInv /\ HonestInv
  BY <1>2 DEF ClientInit, RoleInv, Role, HonestInv, CacheHonest, Honest
<1> QED
  BY <1>1, <1>3 DEF FollowInv

\* For any servers and whatever they list: once the server has stayed the
\* same and answered for Horizon ticks, every answer is what it says.
THEOREM AlwaysFollows == ClientSpec => []AnswerFollowsServer
<1>1. FollowInv /\ RecentInv => AnswerFollowsServer
  <2> SUFFICES ASSUME FollowInv, RecentInv, calm = Horizon,
                      NEW t \in Threads, Answered(t)
               PROVE  thread[t].answer \in Truth(server)
    BY DEF AnswerFollowsServer
  <2>1. thread[t].seen < Horizon /\ thread[t].seen \in Nat
    BY Numbers DEF RecentInv, Held, Answered, FollowInv, TypeInv, ClientTypeOK, Thread
  <2>2. calm > thread[t].seen
    BY <2>1, Numbers
  <2> QED
    BY <2>2 DEF FollowInv, HonestInv, Honest, Answered
<1> QED
  BY <1>1, FollowInit, FollowNext, InitTypeInv, TypeInvNext, RecentInit, RecentNext,
     PTL DEF ClientSpec

-----------------------------------------------------------------------------
(* The MCP hub. *)

USE DEF HasTokens, SaveTokens, StartMcp, OnToolsChanged

CallStates == {"idle", "asked", "authorizing", "revoking", "closing"}
PollStates == {"none", "created", "polling", "saved", "closing", "connecting",
               "listing", "ended"}

LEMMA TypeInit == Init => TypeOK
<1> SUFFICES ASSUME Init PROVE TypeOK
  OBVIOUS
<1> USE McpHubAssumption
<1>1. 0 \in 0..MaxLinks /\ 0 \in 0..MaxRestarts
  OBVIOUS
<1>2. pendingAuth \in BOOLEAN /\ raced \in BOOLEAN
  BY DEF Init
<1>3. call \in [Callers -> CallStates] /\ poll \in [Links -> PollStates]
  BY DEF Init, CallStates, PollStates
<1> QED
  BY <1>1, <1>2, <1>3 DEF Init, TypeOK, CallStates, PollStates

LEMMA TypeNext == TypeOK /\ [Next]_vars => TypeOK'
<1> SUFFICES ASSUME TypeOK, [Next]_vars PROVE TypeOK'
  OBVIOUS
<1> USE McpHubAssumption
<1>1. CASE Restart
  <2>1. pendingAuth' \in BOOLEAN
    BY <1>1 DEF Restart, Starting
  <2>2. /\ session' \in 0..MaxLinks /\ index' \in 0..MaxLinks
        /\ registered' \in 0..MaxLinks
    <3>1. /\ session' \in {0, tokens} /\ index' \in {0, tokens}
          /\ registered' = index'
      BY <1>1 DEF Restart, Starting
    <3> QED
      BY <3>1 DEF TypeOK
  <2>3. poll' \in [Links -> PollStates]
    BY <1>1 DEF Restart, TypeOK, PollStates
  <2>4. call' \in [Callers -> CallStates]
    BY <1>1 DEF Restart, CallStates
  <2>5. restarts' \in 0..MaxRestarts
    BY <1>1 DEF Restart, TypeOK
  <2> QED
    BY <1>1, <2>1, <2>2, <2>3, <2>4, <2>5
    DEF Restart, TypeOK, PollStates, CallStates
<1>2. ASSUME NEW c \in Callers, AskLink(c) PROVE TypeOK'
  BY <1>2 DEF AskLink, TypeOK, hub
<1>3. ASSUME NEW c \in Callers, BeginLink(c) PROVE TypeOK'
  <2>1. cancelled' \subseteq Links /\ linkTask' = 0
    BY <1>3 DEF BeginLink, CancelLinkTask, TypeOK, Links
  <2>2. call' \in [Callers -> CallStates] /\ raced' \in BOOLEAN
    BY <1>3 DEF BeginLink, TypeOK, CallStates
  <2> QED
    BY <1>3, <2>1, <2>2 DEF BeginLink, TypeOK, CallStates
<1>4. ASSUME NEW c \in Callers, StoreLink(c) PROVE TypeOK'
  <2>1. PICK i \in Links : /\ poll' = [poll EXCEPT ![i] = "created"]
                           /\ linkSession' = i /\ linkTask' = i
    BY <1>4 DEF StoreLink
  <2>2. poll' \in [Links -> PollStates]
    BY <2>1 DEF TypeOK, PollStates
  <2>3. linkSession' \in 0..MaxLinks /\ linkTask' \in 0..MaxLinks
    BY <2>1 DEF Links
  <2>4. call' \in [Callers -> CallStates] /\ raced' \in BOOLEAN
    BY <1>4 DEF StoreLink, TypeOK, CallStates
  <2> QED
    BY <1>4, <2>2, <2>3, <2>4 DEF StoreLink, TypeOK, CallStates, PollStates
<1>5. ASSUME NEW c \in Callers, RefuseLink(c) PROVE TypeOK'
  BY <1>5 DEF RefuseLink, TypeOK, hub
<1>6. ASSUME NEW c \in Callers, BeginUnlink(c) PROVE TypeOK'
  <2>1. cancelled' \subseteq Links /\ linkTask' = 0
    BY <1>6 DEF BeginUnlink, CancelLinkTask, TypeOK, Links
  <2>2. call' \in [Callers -> CallStates]
    BY <1>6 DEF BeginUnlink, TypeOK, CallStates
  <2>3. /\ session' \in 0..MaxLinks /\ index' \in 0..MaxLinks
        /\ registered' \in 0..MaxLinks /\ removing' \subseteq Callers \cup Links
        /\ pendingAuth' \in BOOLEAN
    BY <1>6 DEF BeginUnlink, StartDisconnect, DropTools, TypeOK
  <2> QED
    BY <1>6, <2>1, <2>2, <2>3 DEF BeginUnlink, TypeOK, CallStates
<1>7. ASSUME NEW c \in Callers, Revoked(c) PROVE TypeOK'
  <2>1. call' \in [Callers -> CallStates]
    BY <1>7 DEF Revoked, TypeOK, CallStates
  <2>2. /\ session' \in 0..MaxLinks /\ index' \in 0..MaxLinks
        /\ registered' \in 0..MaxLinks /\ removing' \subseteq Callers \cup Links
        /\ pendingAuth' \in BOOLEAN /\ raced' \in BOOLEAN
    BY <1>7 DEF Revoked, StartDisconnect, DropTools, TypeOK
  <2> QED
    BY <1>7, <2>1, <2>2 DEF Revoked, DeleteTokens, TypeOK, CallStates
<1>8. ASSUME NEW c \in Callers, Unlinked(c) PROVE TypeOK'
  BY <1>8 DEF Unlinked, EndDisconnect, DropTools, TypeOK
<1>9. ASSUME NEW i \in Links, PollStart(i) PROVE TypeOK'
  BY <1>9 DEF PollStart, TypeOK, hub
<1>10. ASSUME NEW i \in Links, PollApproved(i) PROVE TypeOK'
  BY <1>10 DEF PollApproved, TypeOK, hub, Links
<1>11. ASSUME NEW i \in Links, PollFails(i) PROVE TypeOK'
  BY <1>11 DEF PollFails, PollEnds, TypeOK
<1>12. ASSUME NEW i \in Links, PollDisconnects(i) PROVE TypeOK'
  <2>1. poll' \in [Links -> PollStates]
    BY <1>12 DEF PollDisconnects, TypeOK, PollStates
  <2>2. /\ session' \in 0..MaxLinks /\ index' \in 0..MaxLinks
        /\ registered' \in 0..MaxLinks /\ removing' \subseteq Callers \cup Links
    BY <1>12 DEF PollDisconnects, StartDisconnect, DropTools, TypeOK
  <2> QED
    BY <1>12, <2>1, <2>2 DEF PollDisconnects, TypeOK, PollStates
<1>13. ASSUME NEW i \in Links, PollDisconnected(i) PROVE TypeOK'
  BY <1>13 DEF PollDisconnected, EndDisconnect, DropTools, TypeOK
<1>14. ASSUME NEW i \in Links, PollConnected(i) PROVE TypeOK'
  <2>1. pendingAuth' \in BOOLEAN
    BY <1>14 DEF PollConnected
  <2>2. session' \in 0..MaxLinks
    BY <1>14 DEF PollConnected, Links
  <2>3. poll' \in [Links -> PollStates]
    BY <1>14 DEF PollConnected, TypeOK, PollStates
  <2> QED
    BY <1>14, <2>1, <2>2, <2>3 DEF PollConnected, TypeOK, PollStates
<1>15. ASSUME NEW i \in Links, PollListed(i) PROVE TypeOK'
  <2>1. index' \in 0..MaxLinks /\ registered' \in 0..MaxLinks
    BY <1>15 DEF PollListed, TypeOK, Links
  <2>2. poll' \in [Links -> PollStates]
    BY <1>15 DEF PollListed, PollEnds, TypeOK, PollStates
  <2> QED
    BY <1>15, <2>1, <2>2 DEF PollListed, PollEnds, TypeOK, PollStates
<1>16. ASSUME NEW i \in Links, PollCancelled(i) PROVE TypeOK'
  <2>1. poll' \in [Links -> PollStates]
    BY <1>16 DEF PollCancelled, PollEnds, TypeOK, PollStates
  <2> QED
    BY <1>16, <2>1 DEF PollCancelled, PollEnds, TypeOK, PollStates
<1>17. CASE BeginRefresh
  BY <1>17 DEF BeginRefresh, TypeOK, hub
<1>18. CASE EndRefresh
  BY <1>18 DEF EndRefresh, TypeOK, hub
<1>19. CASE UNCHANGED vars
  BY <1>19 DEF vars, hub, TypeOK
<1> QED
  BY <1>1, <1>2, <1>3, <1>4, <1>5, <1>6, <1>7, <1>8, <1>9, <1>10, <1>11, <1>12,
     <1>13, <1>14, <1>15, <1>16, <1>17, <1>18, <1>19 DEF Next

(***************************************************************************)
(* Type correctness.                                                       *)
(***************************************************************************)
THEOREM TypeCorrect == Spec => []TypeOK
<1>1. Init => TypeOK
  BY TypeInit
<1>2. TypeOK /\ [Next]_vars => TypeOK'
  BY TypeNext
<1> QED
  BY <1>1, <1>2, PTL DEF Spec

(***************************************************************************)
(* The inductive invariant.  A poll that is not cancelled is active.       *)
(* While none of the races has happened, at most one poll is active and    *)
(* _link_tasks names it; a new one starts only when the old one has        *)
(* unwound, and what it does to the tokens and the tools follows.          *)
(***************************************************************************)
Active(i) == Live(i) /\ i \notin cancelled

\* A link that is cancelled or can be cancelled has been started.
Known ==
  /\ \A i \in Links : i \in cancelled => poll[i] # "none"
  /\ \A i \in Links : linkTask = i => poll[i] # "none"

\* An active poll is the one _link_tasks names.
OnlyTaskActive ==
  \A i \in Links : Active(i) => linkTask = i

\* A poll becomes active when every cancelled one has unwound.
CancelledFirst ==
  \A i, j \in Links : (i \in cancelled /\ Live(i)) => ~Active(j)

\* While a link awaits its authorization no poll and no other such call is active.
QuietWhileAuthorizing ==
  \A c \in Callers : call[c] = "authorizing" =>
      /\ \A i \in Links : ~Active(i)
      /\ \A d \in Callers : call[d] = "authorizing" => d = c

\* No refresh outlives the tokens it refreshes.
RefreshOfTokens ==
  tokens = 0 => refreshing = 0

\* An approved link keeps its tokens while its task goes on.
ApprovedHasTokens ==
  \A i \in Links :
      (Active(i) /\ poll[i] \in {"saved", "closing", "connecting", "listing"})
         => tokens # 0

\* So does a connection.
SessionHasTokens ==
  session # 0 => tokens # 0

\* After an unlink no poll is active, and the tokens go with the revocation.
UnlinkHolds ==
  lastAsked = "unlink" =>
      /\ \A i \in Links : ~Active(i)
      /\ tokens = 0 \/ \E c \in Callers : call[c] = "revoking"

\* A link connects when the tools of the last one are gone.
OldToolsGo ==
  \A i \in Links : Active(i) =>
      /\ poll[i] \in {"connecting", "listing"} => index = 0
      /\ poll[i] = "closing" => index = 0 \/ i \in removing

\* The registry changes with the index.
RegistryFollows ==
  registered = index

Orderly ==
  /\ OnlyTaskActive
  /\ CancelledFirst
  /\ QuietWhileAuthorizing
  /\ RefreshOfTokens
  /\ ApprovedHasTokens
  /\ SessionHasTokens
  /\ UnlinkHolds
  /\ OldToolsGo
  /\ RegistryFollows

LinkInv == TypeOK /\ Known /\ (~raced => Orderly)

LEMMA KnownNext == TypeOK /\ Known /\ [Next]_vars => Known'
<1> SUFFICES ASSUME TypeOK, Known, [Next]_vars PROVE Known'
  OBVIOUS
<1>0. /\ poll \in [Links -> PollStates] /\ linkTask \in 0..MaxLinks
      /\ 0 \notin Links
  BY McpHubAssumption DEF TypeOK, PollStates, Links
<1>1. CASE Restart
  BY <1>1, <1>0 DEF Restart, Known
<1>2. ASSUME NEW c \in Callers, AskLink(c) PROVE Known'
  BY <1>2, <1>0 DEF AskLink, hub, Known
<1>3. ASSUME NEW c \in Callers, BeginLink(c) PROVE Known'
  BY <1>3, <1>0 DEF BeginLink, CancelLinkTask, Known
<1>4. ASSUME NEW c \in Callers, StoreLink(c) PROVE Known'
  BY <1>4, <1>0 DEF StoreLink, Live, Known
<1>5. ASSUME NEW c \in Callers, RefuseLink(c) PROVE Known'
  BY <1>5, <1>0 DEF RefuseLink, hub, Known
<1>6. ASSUME NEW c \in Callers, BeginUnlink(c) PROVE Known'
  BY <1>6, <1>0 DEF BeginUnlink, CancelLinkTask, Known
<1>7. ASSUME NEW c \in Callers, Revoked(c) PROVE Known'
  BY <1>7, <1>0 DEF Revoked, Known
<1>8. ASSUME NEW c \in Callers, Unlinked(c) PROVE Known'
  BY <1>8, <1>0 DEF Unlinked, Known
<1>9. ASSUME NEW i \in Links, PollStart(i) PROVE Known'
  BY <1>9, <1>0 DEF PollStart, Runs, hub, Known
<1>10. ASSUME NEW i \in Links, PollApproved(i) PROVE Known'
  BY <1>10, <1>0 DEF PollApproved, Runs, hub, Known
<1>11. ASSUME NEW i \in Links, PollFails(i) PROVE Known'
  BY <1>11, <1>0 DEF PollFails, PollEnds, Runs, Known
<1>12. ASSUME NEW i \in Links, PollDisconnects(i) PROVE Known'
  BY <1>12, <1>0 DEF PollDisconnects, Runs, Known
<1>13. ASSUME NEW i \in Links, PollDisconnected(i) PROVE Known'
  BY <1>13, <1>0 DEF PollDisconnected, Runs, Known
<1>14. ASSUME NEW i \in Links, PollConnected(i) PROVE Known'
  BY <1>14, <1>0 DEF PollConnected, Runs, Known
<1>15. ASSUME NEW i \in Links, PollListed(i) PROVE Known'
  BY <1>15, <1>0 DEF PollListed, Runs, PollEnds, Known
<1>16. ASSUME NEW i \in Links, PollCancelled(i) PROVE Known'
  BY <1>16, <1>0 DEF PollCancelled, PollEnds, Live, Known
<1>17. CASE BeginRefresh \/ EndRefresh \/ UNCHANGED vars
  BY <1>17 DEF BeginRefresh, EndRefresh, vars, hub, Known
<1> QED
  BY <1>1, <1>2, <1>3, <1>4, <1>5, <1>6, <1>7, <1>8, <1>9, <1>10, <1>11, <1>12,
     <1>13, <1>14, <1>15, <1>16, <1>17 DEF Next

LEMMA OrderlyNext == LinkInv /\ [Next]_vars /\ ~raced' => Orderly'
<1> SUFFICES ASSUME LinkInv, [Next]_vars, ~raced' PROVE Orderly'
  OBVIOUS
<1> USE DEF Active, Live
<1>0. /\ poll \in [Links -> PollStates] /\ call \in [Callers -> CallStates]
      /\ linkTask \in 0..MaxLinks /\ 0 \notin Links
      /\ \A i \in Links : i \in cancelled \/ linkTask = i => poll[i] # "none"
  BY McpHubAssumption DEF LinkInv, TypeOK, PollStates, CallStates, Links, Known
<1>1. CASE Restart
  <2>1. \A i \in Links : poll'[i] = "none" \/ poll'[i] = "ended"
    BY <1>1, <1>0 DEF Restart
  <2>2. Orderly
    BY <1>1 DEF Restart, LinkInv
  <2> QED
    BY <1>1, <1>0, <2>1, <2>2
    DEF Restart, Starting, Unlinking, Orderly, OnlyTaskActive, CancelledFirst,
        QuietWhileAuthorizing, RefreshOfTokens, ApprovedHasTokens,
        SessionHasTokens, UnlinkHolds, OldToolsGo, RegistryFollows
<1>2. ASSUME NEW c \in Callers, AskLink(c) PROVE Orderly'
  <2>1. Orderly
    BY <1>2 DEF AskLink, LinkInv
  <2>2. QuietWhileAuthorizing'
    BY <1>2, <1>0, <2>1 DEF AskLink, Orderly, QuietWhileAuthorizing
  <2> QED
    BY <1>2, <1>0, <2>1, <2>2
    DEF AskLink, hub, Orderly, OnlyTaskActive, CancelledFirst,
        RefreshOfTokens, ApprovedHasTokens, SessionHasTokens, UnlinkHolds,
        OldToolsGo, RegistryFollows
<1>3. ASSUME NEW c \in Callers, BeginLink(c) PROVE Orderly'
  <2>1. Orderly
    BY <1>3 DEF BeginLink, LinkInv
  <2>2. OnlyTaskActive' /\ CancelledFirst'
    BY <1>3, <1>0, <2>1
    DEF BeginLink, CancelLinkTask, Orderly, OnlyTaskActive, CancelledFirst
  <2>3. QuietWhileAuthorizing'
    BY <1>3, <1>0, <2>1
    DEF BeginLink, CancelLinkTask, Orderly, QuietWhileAuthorizing,
        OnlyTaskActive
  <2> QED
    BY <1>3, <1>0, <2>1, <2>2, <2>3
    DEF BeginLink, CancelLinkTask, Orderly, RefreshOfTokens,
        ApprovedHasTokens, SessionHasTokens, UnlinkHolds, OldToolsGo,
        RegistryFollows
<1>4. ASSUME NEW c \in Callers, StoreLink(c) PROVE Orderly'
  <2>1. Orderly
    BY <1>4 DEF StoreLink, LinkInv
  <2>2. OnlyTaskActive'
    BY <1>4, <1>0, <2>1
    DEF StoreLink, Orderly, OnlyTaskActive, QuietWhileAuthorizing
  <2>3. CancelledFirst'
    BY <1>4, <1>0, <2>1
    DEF StoreLink, Orderly, CancelledFirst, QuietWhileAuthorizing
  <2>4. QuietWhileAuthorizing'
    BY <1>4, <1>0, <2>1 DEF StoreLink, Orderly, QuietWhileAuthorizing
  <2>5. ApprovedHasTokens' /\ OldToolsGo'
    BY <1>4, <1>0, <2>1 DEF StoreLink, Orderly, ApprovedHasTokens, OldToolsGo
  <2> QED
    BY <1>4, <1>0, <2>1, <2>2, <2>3, <2>4, <2>5
    DEF StoreLink, Orderly, RefreshOfTokens, SessionHasTokens, UnlinkHolds,
        RegistryFollows
<1>5. ASSUME NEW c \in Callers, RefuseLink(c) PROVE Orderly'
  <2>1. Orderly
    BY <1>5 DEF RefuseLink, LinkInv
  <2>2. QuietWhileAuthorizing'
    BY <1>5, <1>0, <2>1 DEF RefuseLink, Orderly, QuietWhileAuthorizing
  <2> QED
    BY <1>5, <1>0, <2>1, <2>2
    DEF RefuseLink, hub, Orderly, OnlyTaskActive, CancelledFirst,
        RefreshOfTokens, ApprovedHasTokens, SessionHasTokens, UnlinkHolds,
        OldToolsGo, RegistryFollows
<1>6. ASSUME NEW c \in Callers, BeginUnlink(c) PROVE Orderly'
  <2>1. Orderly
    BY <1>6 DEF BeginUnlink, LinkInv
  <2>2. OnlyTaskActive' /\ CancelledFirst' /\ QuietWhileAuthorizing'
    BY <1>6, <1>0, <2>1
    DEF BeginUnlink, CancelLinkTask, Orderly, OnlyTaskActive, CancelledFirst,
        QuietWhileAuthorizing
  <2>3. UnlinkHolds'
    BY <1>6, <1>0, <2>1
    DEF BeginUnlink, CancelLinkTask, Orderly, UnlinkHolds, OnlyTaskActive
  <2>4. OldToolsGo' /\ RegistryFollows'
    BY <1>6, <1>0, <2>1
    DEF BeginUnlink, CancelLinkTask, StartDisconnect, DropTools, Orderly,
        OldToolsGo, RegistryFollows
  <2>5. SessionHasTokens'
    BY <1>6, <1>0, <2>1
    DEF BeginUnlink, CancelLinkTask, StartDisconnect, DropTools, Orderly,
        SessionHasTokens
  <2> QED
    BY <1>6, <1>0, <2>1, <2>2, <2>3, <2>4, <2>5
    DEF BeginUnlink, CancelLinkTask, Orderly, RefreshOfTokens,
        ApprovedHasTokens
<1>7. ASSUME NEW c \in Callers, Revoked(c) PROVE Orderly'
  <2>1. Orderly
    BY <1>7 DEF Revoked, LinkInv
  <2>2. RefreshOfTokens' /\ ApprovedHasTokens'
    BY <1>7, <1>0, <2>1
    DEF Revoked, DeleteTokens, Orderly, RefreshOfTokens, ApprovedHasTokens
  <2>3. SessionHasTokens'
    BY <1>7, <1>0, <2>1
    DEF Revoked, DeleteTokens, StartDisconnect, DropTools, Orderly,
        SessionHasTokens
  <2>4. UnlinkHolds'
    BY <1>7, <1>0, <2>1 DEF Revoked, DeleteTokens, Orderly, UnlinkHolds
  <2>5. OldToolsGo' /\ RegistryFollows'
    BY <1>7, <1>0, <2>1
    DEF Revoked, DeleteTokens, StartDisconnect, DropTools, Orderly,
        OldToolsGo, RegistryFollows
  <2> QED
    BY <1>7, <1>0, <2>1, <2>2, <2>3, <2>4, <2>5
    DEF Revoked, DeleteTokens, Orderly, OnlyTaskActive, CancelledFirst,
        QuietWhileAuthorizing
<1>8. ASSUME NEW c \in Callers, Unlinked(c) PROVE Orderly'
  <2>1. Orderly
    BY <1>8 DEF Unlinked, LinkInv
  <2>2. OldToolsGo' /\ RegistryFollows'
    BY <1>8, <1>0, <2>1
    DEF Unlinked, EndDisconnect, DropTools, Orderly, OldToolsGo,
        RegistryFollows
  <2> QED
    BY <1>8, <1>0, <2>1, <2>2
    DEF Unlinked, Orderly, OnlyTaskActive, CancelledFirst,
        QuietWhileAuthorizing, RefreshOfTokens, ApprovedHasTokens,
        SessionHasTokens, UnlinkHolds
<1>9. ASSUME NEW i \in Links, PollStart(i) PROVE Orderly'
  <2>1. Orderly
    BY <1>9 DEF PollStart, LinkInv
  <2>2. OnlyTaskActive' /\ CancelledFirst' /\ QuietWhileAuthorizing'
    BY <1>9, <1>0, <2>1
    DEF PollStart, Runs, hub, Orderly, OnlyTaskActive, CancelledFirst,
        QuietWhileAuthorizing
  <2> QED
    BY <1>9, <1>0, <2>1, <2>2
    DEF PollStart, Runs, hub, Orderly, RefreshOfTokens, ApprovedHasTokens,
        SessionHasTokens, UnlinkHolds, OldToolsGo, RegistryFollows
<1>10. ASSUME NEW i \in Links, PollApproved(i) PROVE Orderly'
  <2>1. Orderly
    BY <1>10 DEF PollApproved, LinkInv
  <2>2. RefreshOfTokens' /\ ApprovedHasTokens' /\ SessionHasTokens'
    BY <1>10, <1>0, <2>1
    DEF PollApproved, Runs, Orderly, RefreshOfTokens, ApprovedHasTokens,
        SessionHasTokens
  <2>3. UnlinkHolds'
    BY <1>10, <1>0, <2>1 DEF PollApproved, Runs, Orderly, UnlinkHolds
  <2> QED
    BY <1>10, <1>0, <2>1, <2>2, <2>3
    DEF PollApproved, Runs, hub, Orderly, OnlyTaskActive, CancelledFirst,
        QuietWhileAuthorizing, OldToolsGo, RegistryFollows
<1>11. ASSUME NEW i \in Links, PollFails(i) PROVE Orderly'
  <2>1. Orderly
    BY <1>11 DEF PollFails, LinkInv
  <2>2. OnlyTaskActive' /\ CancelledFirst'
    BY <1>11, <1>0, <2>1
    DEF PollFails, PollEnds, Runs, Orderly, OnlyTaskActive, CancelledFirst
  <2>3. ApprovedHasTokens' /\ OldToolsGo'
    BY <1>11, <1>0, <2>1
    DEF PollFails, PollEnds, Runs, Orderly, ApprovedHasTokens, OldToolsGo
  <2> QED
    BY <1>11, <1>0, <2>1, <2>2, <2>3
    DEF PollFails, PollEnds, Runs, Orderly, QuietWhileAuthorizing,
        RefreshOfTokens, SessionHasTokens, UnlinkHolds, RegistryFollows
<1>12. ASSUME NEW i \in Links, PollDisconnects(i) PROVE Orderly'
  <2>1. Orderly
    BY <1>12 DEF PollDisconnects, LinkInv
  <2>2. ApprovedHasTokens' /\ SessionHasTokens'
    BY <1>12, <1>0, <2>1
    DEF PollDisconnects, Runs, StartDisconnect, DropTools, Orderly,
        ApprovedHasTokens, SessionHasTokens
  <2>3. OldToolsGo' /\ RegistryFollows'
    BY <1>12, <1>0, <2>1
    DEF PollDisconnects, Runs, StartDisconnect, DropTools, Orderly,
        OldToolsGo, RegistryFollows
  <2> QED
    BY <1>12, <1>0, <2>1, <2>2, <2>3
    DEF PollDisconnects, Runs, Orderly, OnlyTaskActive, CancelledFirst,
        QuietWhileAuthorizing, RefreshOfTokens, UnlinkHolds
<1>13. ASSUME NEW i \in Links, PollDisconnected(i) PROVE Orderly'
  <2>1. Orderly
    BY <1>13 DEF PollDisconnected, LinkInv
  <2>2. ApprovedHasTokens'
    BY <1>13, <1>0, <2>1 DEF PollDisconnected, Runs, Orderly, ApprovedHasTokens
  <2>3. OldToolsGo' /\ RegistryFollows'
    BY <1>13, <1>0, <2>1
    DEF PollDisconnected, Runs, EndDisconnect, DropTools, Orderly, OldToolsGo,
        RegistryFollows
  <2> QED
    BY <1>13, <1>0, <2>1, <2>2, <2>3
    DEF PollDisconnected, Runs, Orderly, OnlyTaskActive, CancelledFirst,
        QuietWhileAuthorizing, RefreshOfTokens, SessionHasTokens, UnlinkHolds
<1>14. ASSUME NEW i \in Links, PollConnected(i) PROVE Orderly'
  <2>1. Orderly
    BY <1>14 DEF PollConnected, LinkInv
  <2>2. SessionHasTokens'
    BY <1>14, <1>0, <2>1
    DEF PollConnected, Runs, Orderly, SessionHasTokens, ApprovedHasTokens
  <2>3. OldToolsGo'
    BY <1>14, <1>0, <2>1 DEF PollConnected, Runs, Orderly, OldToolsGo
  <2> QED
    BY <1>14, <1>0, <2>1, <2>2, <2>3
    DEF PollConnected, Runs, Orderly, OnlyTaskActive, CancelledFirst,
        QuietWhileAuthorizing, RefreshOfTokens, ApprovedHasTokens,
        UnlinkHolds, RegistryFollows
<1>15. ASSUME NEW i \in Links, PollListed(i) PROVE Orderly'
  <2>1. Orderly
    BY <1>15 DEF PollListed, LinkInv
  <2>2. OnlyTaskActive' /\ CancelledFirst'
    BY <1>15, <1>0, <2>1
    DEF PollListed, Runs, PollEnds, Orderly, OnlyTaskActive, CancelledFirst
  <2>3. OldToolsGo' /\ RegistryFollows'
    BY <1>15, <1>0, <2>1
    DEF PollListed, Runs, PollEnds, Orderly, OldToolsGo, RegistryFollows,
        OnlyTaskActive
  <2> QED
    BY <1>15, <1>0, <2>1, <2>2, <2>3
    DEF PollListed, Runs, PollEnds, Orderly, QuietWhileAuthorizing,
        RefreshOfTokens, ApprovedHasTokens, SessionHasTokens, UnlinkHolds
<1>16. ASSUME NEW i \in Links, PollCancelled(i) PROVE Orderly'
  <2>1. Orderly
    BY <1>16 DEF PollCancelled, LinkInv
  <2>2. OnlyTaskActive' /\ CancelledFirst'
    BY <1>16, <1>0, <2>1
    DEF PollCancelled, PollEnds, Orderly, OnlyTaskActive, CancelledFirst
  <2>3. ApprovedHasTokens' /\ OldToolsGo'
    BY <1>16, <1>0, <2>1
    DEF PollCancelled, PollEnds, Orderly, ApprovedHasTokens, OldToolsGo,
        CancelledFirst
  <2> QED
    BY <1>16, <1>0, <2>1, <2>2, <2>3
    DEF PollCancelled, PollEnds, Orderly, QuietWhileAuthorizing,
        RefreshOfTokens, SessionHasTokens, UnlinkHolds, RegistryFollows
<1>17. CASE BeginRefresh \/ EndRefresh
  <2>1. Orderly
    BY <1>17 DEF BeginRefresh, EndRefresh, LinkInv
  <2> QED
    BY <1>17, <1>0, <2>1
    DEF BeginRefresh, EndRefresh, hub, Orderly, OnlyTaskActive,
        CancelledFirst, QuietWhileAuthorizing, RefreshOfTokens,
        ApprovedHasTokens, SessionHasTokens, UnlinkHolds, OldToolsGo,
        RegistryFollows
<1>18. CASE UNCHANGED vars
  BY <1>18
  DEF LinkInv, vars, hub, Orderly, OnlyTaskActive, CancelledFirst,
      QuietWhileAuthorizing, RefreshOfTokens, ApprovedHasTokens,
      SessionHasTokens, UnlinkHolds, OldToolsGo, RegistryFollows
<1> QED
  BY <1>1, <1>2, <1>3, <1>4, <1>5, <1>6, <1>7, <1>8, <1>9, <1>10, <1>11,
     <1>12, <1>13, <1>14, <1>15, <1>16, <1>17, <1>18 DEF Next

\* With or without a race, the application never offers less than the index.
IndexOffered == index # 0 => registered = index

LEMMA IndexOfferedNext == TypeOK /\ IndexOffered /\ [Next]_vars => IndexOffered'
<1> SUFFICES ASSUME TypeOK, IndexOffered, [Next]_vars PROVE IndexOffered'
  OBVIOUS
<1>1. CASE Restart
  BY <1>1 DEF Restart, Starting, IndexOffered
<1>2. ASSUME NEW c \in Callers, AskLink(c) \/ RefuseLink(c) PROVE IndexOffered'
  BY <1>2 DEF AskLink, RefuseLink, hub, IndexOffered
<1>3. ASSUME NEW c \in Callers, BeginLink(c) \/ StoreLink(c) PROVE IndexOffered'
  BY <1>3 DEF BeginLink, StoreLink, IndexOffered
<1>4. ASSUME NEW c \in Callers, BeginUnlink(c) PROVE IndexOffered'
  BY <1>4 DEF BeginUnlink, StartDisconnect, DropTools, IndexOffered
<1>5. ASSUME NEW c \in Callers, Revoked(c) PROVE IndexOffered'
  BY <1>5 DEF Revoked, StartDisconnect, DropTools, IndexOffered
<1>6. ASSUME NEW c \in Callers, Unlinked(c) PROVE IndexOffered'
  BY <1>6 DEF Unlinked, EndDisconnect, DropTools, IndexOffered
<1>7. ASSUME NEW i \in Links, PollStart(i) \/ PollApproved(i)
      PROVE  IndexOffered'
  BY <1>7 DEF PollStart, PollApproved, hub, IndexOffered
<1>8. ASSUME NEW i \in Links,
             PollFails(i) \/ PollConnected(i) \/ PollCancelled(i)
      PROVE  IndexOffered'
  BY <1>8 DEF PollFails, PollConnected, PollCancelled, IndexOffered
<1>9. ASSUME NEW i \in Links, PollDisconnects(i) PROVE IndexOffered'
  BY <1>9 DEF PollDisconnects, StartDisconnect, DropTools, IndexOffered
<1>10. ASSUME NEW i \in Links, PollDisconnected(i) PROVE IndexOffered'
  BY <1>10 DEF PollDisconnected, EndDisconnect, DropTools, IndexOffered
<1>11. ASSUME NEW i \in Links, PollListed(i) PROVE IndexOffered'
  BY <1>11 DEF PollListed, IndexOffered
<1>12. CASE BeginRefresh \/ EndRefresh \/ UNCHANGED vars
  BY <1>12 DEF BeginRefresh, EndRefresh, vars, hub, IndexOffered
<1> QED
  BY <1>1, <1>2, <1>3, <1>4, <1>5, <1>6, <1>7, <1>8, <1>9, <1>10, <1>11, <1>12
     DEF Next

LEMMA LinkInvInit == Init => LinkInv /\ IndexOffered
<1> SUFFICES ASSUME Init PROVE LinkInv /\ IndexOffered
  OBVIOUS
<1>1. TypeOK
  BY TypeInit
<1>2. Known
  BY McpHubAssumption DEF Init, Known, Links
<1>3. \A i \in Links : ~Active(i)
  BY DEF Init, Active, Live
<1>4. Orderly
  BY <1>3 DEF Init, Orderly, OnlyTaskActive, CancelledFirst,
              QuietWhileAuthorizing, RefreshOfTokens, ApprovedHasTokens,
              SessionHasTokens, UnlinkHolds, OldToolsGo, RegistryFollows
<1>5. IndexOffered
  BY DEF Init, IndexOffered
<1> QED
  BY <1>1, <1>2, <1>4, <1>5 DEF LinkInv

LEMMA LinkInvNext == LinkInv /\ [Next]_vars => LinkInv'
  BY TypeNext, KnownNext, OrderlyNext DEF LinkInv

LEMMA AlwaysLinkInv == Spec => []LinkInv
<1>1. Init => LinkInv
  BY LinkInvInit
<1>2. LinkInv /\ [Next]_vars => LinkInv'
  BY LinkInvNext
<1> QED
  BY <1>1, <1>2, PTL DEF Spec

(***************************************************************************)
(* Outside the races every running poll is the one _link_tasks names.      *)
(***************************************************************************)
THEOREM NeverAnOrphan == Spec => []NoOrphanPolls
<1>1. LinkInv => NoOrphanPolls
  BY DEF LinkInv, Orderly, OnlyTaskActive, Active, NoOrphanPolls
<1> QED
  BY <1>1, AlwaysLinkInv, PTL

(***************************************************************************)
(* Outside the races no tokens are left after an unlink has ended.         *)
(***************************************************************************)
THEOREM UnlinkAlwaysFinal == Spec => []UnlinkIsFinal
<1>1. LinkInv => UnlinkIsFinal
  BY DEF LinkInv, Orderly, UnlinkHolds, UnlinkIsFinal, Unlinking
<1> QED
  BY <1>1, AlwaysLinkInv, PTL

(***************************************************************************)
(* Outside the races a connected server has its tokens on disk.            *)
(***************************************************************************)
THEOREM ConnectedAlwaysHasTokens == Spec => []ConnectedHasTokens
<1>1. LinkInv => ConnectedHasTokens
  BY DEF LinkInv, Orderly, SessionHasTokens, ConnectedHasTokens
<1> QED
  BY <1>1, AlwaysLinkInv, PTL

(***************************************************************************)
(* The registry offers what the hub indexes, and outside the races no      *)
(* more.                                                                   *)
(***************************************************************************)
THEOREM RegistryAlwaysMatches == Spec => []RegistryMatchesIndex
<1>1. Init => IndexOffered
  BY LinkInvInit
<1>2. LinkInv /\ IndexOffered /\ [Next]_vars => IndexOffered'
  BY IndexOfferedNext DEF LinkInv
<1>3. LinkInv /\ IndexOffered => RegistryMatchesIndex
  BY DEF LinkInv, Orderly, RegistryFollows, IndexOffered, RegistryMatchesIndex
<1> QED
  BY <1>1, <1>2, <1>3, AlwaysLinkInv, PTL DEF Spec
=============================================================================
