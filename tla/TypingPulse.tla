---------------------------- MODULE TypingPulse ----------------------------
(***************************************************************************)
(* The typing indicator of one inbound message: the object _TypingPulse    *)
(* (webhooks/sendblue.py), shared by the message's worker thread, which    *)
(* starts it, stops it around every text it sends and stops it at the end, *)
(* and by the pulse threads it has started, which repeat the signal.       *)
(*                                                                         *)
(* A step is a critical section, a call to Sendblue or a wait.  A call to  *)
(* Sendblue takes effect when it ends; whether it succeeds is not          *)
(* modelled, because _typing swallows its errors.                          *)
(***************************************************************************)
EXTENDS Integers, Sequences, FiniteSets

CONSTANT MaxStarts   \* bound: times the pulse is started

ASSUME PulseAssumption == MaxStarts \in Nat

VARIABLES
  active,   \* self._active
  stopped,  \* self._stop is set
  current,  \* self._thread, 0 for None
  joined,   \* the thread that stop() waits for, 0 for None
  owner,    \* where the worker thread is
  final,    \* stop() was called by __exit__
  thread,   \* thread[i]: where pulse thread i is
  last,     \* the last signal Sendblue received
  overruns  \* history: joins that have timed out

pulseVars == <<active, stopped, current, joined, owner, final, thread,
               last, overruns>>

OwnerPlaces == {"idle",       \* before the first start
                "typing",     \* between start and stop
                "joining",    \* in stop(), waiting for the thread
                "silencing",  \* in stop(), about to send "stop"
                "quiet",      \* sending texts
                "over"}       \* after __exit__

ThreadPlaces == {"checking",  \* the loop condition
                 "gate",      \* _emit_start, before the lock
                 "emitting",  \* the call to Sendblue is under way
                 "pausing",   \* about to wait
                 "waiting",   \* in self._stop.wait
                 "leaving",   \* woken by set(); wait returns True
                 "dead"}

Alive(i) == thread[i] # "dead"

-----------------------------------------------------------------------------

PulseInit ==
  /\ active = FALSE /\ stopped = FALSE
  /\ current = 0 /\ joined = 0
  /\ owner = "idle" /\ final = FALSE
  /\ thread = <<>>
  /\ last = "none" /\ overruns = 0

(***************************************************************************)
(* The worker thread.                                                      *)
(***************************************************************************)

HasThread == current # 0 /\ Alive(current)

\* start(): a thread that still runs would be kept; otherwise the event is
\* cleared and a new thread is made.
Start ==
  /\ owner \in {"idle", "quiet"}
  /\ Len(thread) < MaxStarts
  /\ owner' = "typing"
  /\ IF HasThread
     THEN UNCHANGED <<active, stopped, current, thread>>
     ELSE /\ active' = TRUE /\ stopped' = FALSE
          /\ thread' = Append(thread, "checking")
          /\ current' = Len(thread) + 1
  /\ UNCHANGED <<joined, final, last, overruns>>

\* Mutant: stop() keeps self._thread.
Detach_Keeps == current' = current

\* self._thread = None
Detach == current' = 0

\* Mutant: the event is not set, the threads are only notified.
WakeAll_Notify ==
  /\ UNCHANGED stopped
  /\ thread' = [i \in DOMAIN thread |->
                  IF thread[i] = "waiting" THEN "leaving" ELSE thread[i]]

\* self._stop.set() wakes the threads that wait.
WakeAll ==
  /\ stopped' = TRUE
  /\ thread' = [i \in DOMAIN thread |->
                  IF thread[i] = "waiting" THEN "leaving" ELSE thread[i]]

\* The first critical section of stop().  __exit__ stops again a pulse that
\* is already stopped when sending a text has failed.
Stop ==
  /\ owner \in {"typing", "quiet"}
  /\ final' \in {b \in BOOLEAN : owner = "quiet" => b}
  /\ active' = FALSE
  /\ joined' = current /\ Detach
  /\ WakeAll
  /\ owner' = "joining"
  /\ UNCHANGED <<last, overruns>>

\* Mutant: the thread is not waited for.
Joinable_Always == TRUE

\* Mutant: only a call to Sendblue is waited for.
Joinable_NotCalling == joined # 0 => thread[joined] # "emitting"

\* The join ends when there is nothing to wait for, or with the thread.
Joinable == joined # 0 => ~Alive(joined)

JoinReturns ==
  /\ owner = "joining" /\ Joinable
  /\ owner' = "silencing"
  /\ UNCHANGED <<active, stopped, current, joined, final, thread, last,
                 overruns>>

\* The join times out one second after the longest wait; only a thread that
\* is in a call to Sendblue is still there.
JoinTimesOut ==
  /\ owner = "joining" /\ joined # 0
  /\ thread[joined] = "emitting"
  /\ owner' = "silencing"
  /\ overruns' = overruns + 1
  /\ UNCHANGED <<active, stopped, current, joined, final, thread, last>>

\* The second critical section of stop(): the signal is sent under the lock.
EmitStop ==
  /\ owner = "silencing"
  /\ last' = "stop"
  /\ owner' = IF final THEN "over" ELSE "quiet"
  /\ UNCHANGED <<active, stopped, current, joined, final, thread, overruns>>

(***************************************************************************)
(* A pulse thread.                                                         *)
(***************************************************************************)

Goto(i, place) ==
  /\ thread' = [thread EXCEPT ![i] = place]
  /\ UNCHANGED <<active, stopped, current, joined, owner, final, overruns>>

\* while not self._stop.is_set()
CheckStop(i) ==
  /\ thread[i] = "checking"
  /\ Goto(i, IF stopped THEN "dead" ELSE "gate")
  /\ UNCHANGED last

\* The critical section of _emit_start; the signal is sent after it.
Gate(i) ==
  /\ thread[i] = "gate"
  /\ Goto(i, IF active THEN "emitting" ELSE "pausing")
  /\ UNCHANGED last

\* Mutant: a state that Sendblue does not know is sent.
EmitStart_Unknown(i) ==
  /\ thread[i] = "emitting"
  /\ Goto(i, "pausing")
  /\ last' = "typing"

EmitStart(i) ==
  /\ thread[i] = "emitting"
  /\ Goto(i, "pausing")
  /\ last' = "start"

\* self._stop.wait(self._interval): returns at once when the event is set.
Pause(i) ==
  /\ thread[i] = "pausing"
  /\ Goto(i, IF stopped THEN "dead" ELSE "waiting")
  /\ UNCHANGED last

\* The interval passes.
WaitTimesOut(i) ==
  /\ thread[i] = "waiting"
  /\ Goto(i, "checking")
  /\ UNCHANGED last

\* A thread that set() has woken ends, even if the event was cleared since.
Leave(i) ==
  /\ thread[i] = "leaving"
  /\ Goto(i, "dead")
  /\ UNCHANGED last

-----------------------------------------------------------------------------

FinishStop == JoinReturns \/ JoinTimesOut \/ EmitStop

Pulse(i) == \/ CheckStop(i) \/ Gate(i) \/ EmitStart(i) \/ Pause(i)
            \/ WaitTimesOut(i) \/ Leave(i)

PulseNext == Start \/ Stop \/ FinishStop \/ \E i \in DOMAIN thread : Pulse(i)

PulseSpec == PulseInit /\ [][PulseNext]_pulseVars

(***************************************************************************)
(* Fairness.  Threads are scheduled, calls to Sendblue return or raise     *)
(* within the client's timeout, waits and joins end.  Nothing is assumed   *)
(* of how long the worker thread types or sends.                           *)
(***************************************************************************)
FairPulseSpec ==
  /\ PulseSpec
  /\ WF_pulseVars(FinishStop)
  /\ \A i \in 1..MaxStarts : WF_pulseVars(i \in DOMAIN thread /\ Pulse(i))

-----------------------------------------------------------------------------
(***************************************************************************)
(* Properties.                                                             *)
(***************************************************************************)

PulseTypeOK ==
  /\ active \in BOOLEAN /\ stopped \in BOOLEAN /\ final \in BOOLEAN
  /\ owner \in OwnerPlaces
  /\ thread \in Seq(ThreadPlaces)
  /\ current \in {0} \cup DOMAIN thread
  /\ joined \in {0} \cup DOMAIN thread
  /\ last \in {"none", "start", "stop"} /\ overruns \in Nat

\* Once stop() has returned, the indicator is off and stays off until the
\* pulse is started again: no signal "start" is under way or comes after
\* "stop", as long as no call to Sendblue has outlasted a join
\* (_emit_start, stop).
SilentAfterStop ==
  owner \in {"quiet", "over"} /\ overruns = 0 =>
    last = "stop" /\ \A i \in DOMAIN thread : thread[i] # "emitting"

\* Two threads repeat the signal only if a join has timed out: one more for
\* each, whatever stops and starts follow (start clears the event that an
\* older thread has to see).
FewPulses == Cardinality({i \in DOMAIN thread : Alive(i)}) <= 1 + overruns

\* After the last stop every thread ends, those a timed-out join has left
\* behind and a later start has revived included.
PulsesEnd == owner = "over" ~> \A i \in DOMAIN thread : ~Alive(i)

\* A started pulse gives the signal unless it is stopped first; a thread
\* left over from before does not stand in the way.
StartIsSent == owner = "typing" ~> (last = "start" \/ owner # "typing")
=============================================================================
