----------------------------- MODULE WorkerProofs -----------------------------
(***************************************************************************)
(* Proofs about the worker thread of a message and the typing pulse it     *)
(* drives.                                                                 *)
(*                                                                         *)
(* InboundTurn, for every history limit, number of rounds, calls and       *)
(* chunks, and any history before the turn: its types, what the user       *)
(* hears, what is stored, and what the model is asked with.                *)
(*                                                                         *)
(* TypingPulse, for any number of starts.  Its invariant accounts for the  *)
(* threads: all but the one the worker thread has its hands on, in start   *)
(* or in the join, are there because a join timed out.                     *)
(***************************************************************************)
EXTENDS InboundTurn, TypingPulse, HistoryProofs

USE DEF input

-----------------------------------------------------------------------------
(* The order in which the calls of an answer are run. *)

Call == [name : ToolNames, n : 1..MaxCalls]

\* No acknowledgement comes after a delegation.
AcksFirst(calls) ==
  \A p, q \in DOMAIN calls :
    p < q /\ calls[p].name = "spawn" => calls[q].name # "ack"

LEMMA CallsOfProperties ==
  ASSUME NEW C, NEW calls \in Seq(C), NEW name
  PROVE  /\ CallsOf(calls, name) \in Seq(C)
         /\ \A p \in DOMAIN CallsOf(calls, name) :
              CallsOf(calls, name)[p].name = name
         /\ \A i \in DOMAIN calls : calls[i].name = name =>
              \E p \in DOMAIN CallsOf(calls, name) :
                CallsOf(calls, name)[p] = calls[i]
<1> DEFINE I == {i \in DOMAIN calls : calls[i].name = name}
<1>1. I \in SUBSET (1..Len(calls))
  OBVIOUS
<1>2. CallsOf(calls, name) = Extract(calls, I)
  BY DEF CallsOf
<1>3. /\ Extract(calls, I) \in Seq(C)
      /\ \A k \in DOMAIN Extract(calls, I) : \E i \in I : Extract(calls, I)[k] = calls[i]
      /\ \A i \in I : \E k \in DOMAIN Extract(calls, I) : Extract(calls, I)[k] = calls[i]
  <2> HIDE DEF I
  <2> QED
    BY <1>1, ExtractProperties
<1>4. \A p \in DOMAIN Extract(calls, I) : Extract(calls, I)[p].name = name
  BY <1>3
<1>5. ASSUME NEW i \in DOMAIN calls, calls[i].name = name
      PROVE  \E p \in DOMAIN Extract(calls, I) : Extract(calls, I)[p] = calls[i]
  BY <1>3, <1>5
<1> QED
  BY <1>2, <1>3, <1>4, <1>5

\* _order_chat_tool_calls loses no call and puts acknowledgements first.
LEMMA OrderedProperties ==
  ASSUME NEW C, NEW calls \in Seq(C), \A c \in C : c.name \in ToolNames
  PROVE  /\ Ordered(calls) \in Seq(C)
         /\ AcksFirst(Ordered(calls))
         /\ \A i \in DOMAIN calls :
              \E p \in DOMAIN Ordered(calls) : Ordered(calls)[p] = calls[i]
<1> DEFINE a == CallsOf(calls, "ack")
           o == CallsOf(calls, "other")
           w == CallsOf(calls, "spawn")
           s == Ordered(calls)
<1>1. /\ a \in Seq(C) /\ o \in Seq(C) /\ w \in Seq(C)
      /\ \A p \in DOMAIN a : a[p].name = "ack"
      /\ \A p \in DOMAIN o : o[p].name = "other"
      /\ \A p \in DOMAIN w : w[p].name = "spawn"
  BY CallsOfProperties
<1>2. \A i \in DOMAIN calls :
        \/ \E p \in DOMAIN a : a[p] = calls[i]
        \/ \E p \in DOMAIN o : o[p] = calls[i]
        \/ \E p \in DOMAIN w : w[p] = calls[i]
  <2> SUFFICES ASSUME NEW i \in DOMAIN calls
               PROVE  \/ \E p \in DOMAIN a : a[p] = calls[i]
                      \/ \E p \in DOMAIN o : o[p] = calls[i]
                      \/ \E p \in DOMAIN w : w[p] = calls[i]
    OBVIOUS
  <2>1. calls[i] \in C
    BY ElementOfSeq
  <2>2. calls[i].name \in {"ack", "other", "spawn"}
    BY <2>1 DEF ToolNames
  <2> QED
    <3>1. calls[i].name = "ack" => \E p \in DOMAIN a : a[p] = calls[i]
      <4>1. \A j \in DOMAIN calls : calls[j].name = "ack" =>
              \E p \in DOMAIN CallsOf(calls, "ack") : CallsOf(calls, "ack")[p] = calls[j]
        BY CallsOfProperties
      <4> QED
        BY ONLY <4>1, i \in DOMAIN calls
    <3>2. calls[i].name = "other" => \E p \in DOMAIN o : o[p] = calls[i]
      <4>1. \A j \in DOMAIN calls : calls[j].name = "other" =>
              \E p \in DOMAIN CallsOf(calls, "other") : CallsOf(calls, "other")[p] = calls[j]
        BY CallsOfProperties
      <4> QED
        BY ONLY <4>1, i \in DOMAIN calls
    <3>3. calls[i].name = "spawn" => \E p \in DOMAIN w : w[p] = calls[i]
      <4>1. \A j \in DOMAIN calls : calls[j].name = "spawn" =>
              \E p \in DOMAIN CallsOf(calls, "spawn") : CallsOf(calls, "spawn")[p] = calls[j]
        BY CallsOfProperties
      <4> QED
        BY ONLY <4>1, i \in DOMAIN calls
    <3> QED
      BY <2>2, <3>1, <3>2, <3>3
<1>3. s = (a \o o) \o w
  BY DEF Ordered
<1> HIDE DEF a, o, w, s
<1>4. /\ a \o o \in Seq(C) /\ Len(a \o o) = Len(a) + Len(o)
      /\ \A i \in 1..(Len(a) + Len(o)) :
           (a \o o)[i] = IF i <= Len(a) THEN a[i] ELSE o[i - Len(a)]
  BY <1>1, ConcatProperties
<1> DEFINE b == a \o o
<1> HIDE DEF b
<1>5. /\ s \in Seq(C) /\ Len(s) = Len(b) + Len(w)
      /\ \A i \in 1..(Len(b) + Len(w)) :
           s[i] = IF i <= Len(b) THEN b[i] ELSE w[i - Len(b)]
  BY <1>1, <1>3, <1>4, ConcatProperties DEF b
<1>6. /\ Len(a) \in Nat /\ DOMAIN a = 1..Len(a)
      /\ Len(o) \in Nat /\ DOMAIN o = 1..Len(o)
      /\ Len(w) \in Nat /\ DOMAIN w = 1..Len(w)
      /\ Len(b) = Len(a) + Len(o) /\ DOMAIN s = 1..Len(s)
  BY <1>1, <1>4, <1>5 DEF b
<1>7. /\ \A i \in DOMAIN a : i \in DOMAIN s /\ s[i] = a[i]
      /\ \A i \in DOMAIN o : i + Len(a) \in DOMAIN s /\ s[i + Len(a)] = o[i]
      /\ \A i \in DOMAIN w : i + Len(b) \in DOMAIN s /\ s[i + Len(b)] = w[i]
  <2>1. ASSUME NEW i \in 1..Len(a) PROVE i \in 1..Len(s) /\ s[i] = a[i]
    <3>1. i \in 1..(Len(a) + Len(o)) /\ i \in 1..(Len(b) + Len(w))
      BY <1>6
    <3> QED
      BY <3>1, <1>4, <1>5, <1>6 DEF b
  <2>2. ASSUME NEW i \in 1..Len(o)
        PROVE  i + Len(a) \in 1..Len(s) /\ s[i + Len(a)] = o[i]
    <3>1. /\ i + Len(a) \in 1..(Len(a) + Len(o)) /\ i + Len(a) \in 1..(Len(b) + Len(w))
          /\ ~ (i + Len(a) <= Len(a)) /\ (i + Len(a)) - Len(a) = i
          /\ i + Len(a) <= Len(b)
      BY <1>6
    <3>2. (a \o o)[i + Len(a)] = o[i]
      BY <3>1, <1>4
    <3> QED
      BY <3>1, <3>2, <1>5 DEF b
  <2>3. ASSUME NEW i \in 1..Len(w)
        PROVE  i + Len(b) \in 1..Len(s) /\ s[i + Len(b)] = w[i]
    <3>1. /\ i + Len(b) \in 1..(Len(b) + Len(w))
          /\ ~ (i + Len(b) <= Len(b)) /\ (i + Len(b)) - Len(b) = i
      BY <1>6
    <3> QED
      BY <3>1, <1>5
  <2> QED
    BY <2>1, <2>2, <2>3, <1>6
<1>8. AcksFirst(s)
  <2> SUFFICES ASSUME NEW p \in DOMAIN s, NEW q \in DOMAIN s, p < q,
                      s[p].name = "spawn", s[q].name = "ack"
               PROVE  FALSE
    BY DEF AcksFirst
  <2>1. q <= Len(a)
    <3>1. CASE q > Len(b)
      <4>1. q - Len(b) \in 1..Len(w) /\ (q - Len(b)) + Len(b) = q
        BY <3>1, <1>5, <1>6
      <4>2. s[q] = w[q - Len(b)] /\ w[q - Len(b)].name = "spawn"
        BY <4>1, <1>1, <1>6, <1>7
      <4> QED
        BY <4>2
    <3>2. CASE q \in (Len(a) + 1)..Len(b)
      <4>1. q - Len(a) \in 1..Len(o) /\ (q - Len(a)) + Len(a) = q
        BY <3>2, <1>6
      <4>2. s[q] = o[q - Len(a)] /\ o[q - Len(a)].name = "other"
        BY <4>1, <1>1, <1>6, <1>7
      <4> QED
        BY <4>2
    <3> QED
      BY <3>1, <3>2, <1>6
  <2>2. s[p] = a[p] /\ p \in DOMAIN a
    BY <2>1, <1>6, <1>7
  <2> QED
    BY <2>2, <1>1
<1>9. \A i \in DOMAIN calls : \E p \in DOMAIN s : s[p] = calls[i]
  <2> SUFFICES ASSUME NEW i \in DOMAIN calls PROVE \E p \in DOMAIN s : s[p] = calls[i]
    OBVIOUS
  <2>1. CASE \E p \in DOMAIN a : a[p] = calls[i]
    BY <2>1, <1>7
  <2>2. CASE \E p \in DOMAIN o : o[p] = calls[i]
    BY <2>2, <1>7
  <2>3. CASE \E p \in DOMAIN w : w[p] = calls[i]
    BY <2>3, <1>7
  <2> QED
    BY <2>1, <2>2, <2>3, <1>2
<1> QED
  BY <1>5, <1>8, <1>9 DEF s

-----------------------------------------------------------------------------
(* Types. *)

\* Where the thread is, or where it goes on once its text is handed over.
Place == IF pc \in {"speak", "send"} THEN speech.next ELSE pc

\* What is handed over tells where the generator waits.
Speech ==
  {s \in [kind : Kinds, chunks : 0..MaxChunks, next : Places] :
     \/ s.next = "done"    /\ s.kind \in {"refusal", "error"}
     \/ s.next = "execute" /\ s.kind \in {"ack", "fallback"}
     \/ s.next = "finish"  /\ s.kind \in {"reply", "limit"}}

\* There is a text exactly while one is handed over, and a call exactly when
\* one is about to be run.
PlaceInv ==
  /\ pc \in {"speak", "send"} => speech \in Speech
  /\ pc \in Places \ {"speak", "send", "dead"} => speech = NoSpeech
  /\ Place \in {"call", "execute"} => pending # <<>>
  /\ Place \in {"screen", "begin", "chat"} => pending = <<>>

TypeInv == TypeOK /\ PlaceInv

Text == [kind : Kinds, round : 0..MaxRounds, sent : BOOLEAN]
Executed == [name : ToolNames, round : 0..MaxRounds]

LEMMA MessageTypes ==
  /\ UserMessage(Me) \in Message /\ TextMessage(Me) \in Message
  /\ \A g \in 0..MaxRounds, k \in 0..MaxCalls :
       CallsMessage(Me, g, k) \in Message /\ ToolMessage(Me, g, k) \in Message
BY TurnBoundsAssumption
   DEF Message, Roles, UserMessage, TextMessage, CallsMessage, ToolMessage

LEMMA OutputType ==
  ASSUME TypeOK
  PROVE  OutputOf(working, Me) \in Seq(Message)
<1> DEFINE I == {i \in DOMAIN working : working[i].turn = Me /\ working[i].role # "user"}
<1>1. working \in Seq(Message) /\ I \in SUBSET (1..Len(working))
  BY DEF TypeOK
<1>2. OutputOf(working, Me) = Extract(working, I)
  BY DEF OutputOf
<1> HIDE DEF I
<1> QED
  BY <1>1, <1>2, ExtractProperties

LEMMA TypeInit == Init => TypeInv
<1> SUFFICES ASSUME Init PROVE TypeInv
  OBVIOUS
<1>1. /\ <<>> \in Seq(Message) /\ <<>> \in Seq(Call) /\ <<>> \in Seq(Text)
      /\ <<>> \in Seq(Executed)
  BY EmptySeq
<1>2. 0 \in 0..MaxRounds
  BY TurnBoundsAssumption
<1>3. TypeOK
  BY <1>1, <1>2 DEF Init, TypeOK, Places, Call, Text, Executed
<1>4. PlaceInv
  BY DEF Init, PlaceInv, Place
<1> QED
  BY <1>3, <1>4 DEF TypeInv

\* A text is yielded.
LEMMA YieldType ==
  ASSUME NEW kind \in Kinds, NEW c \in 0..MaxChunks, NEW next \in Places,
         [kind |-> kind, chunks |-> c, next |-> next] \in Speech,
         Yield(kind, c, next)
  PROVE  /\ pc' \in Places /\ pc' = "speak"
         /\ speech' \in [kind : Kinds, chunks : 0..MaxChunks, next : Places] \cup {NoSpeech}
         /\ speech' \in Speech /\ Place' = next
         /\ speech'.next = next /\ speech'.kind = kind
BY DEF Yield, Places, Place

LEMMA ChunkBounds ==
  /\ \A c \in Texts : c \in 0..MaxChunks
  /\ \A c \in FixedTexts : c \in 0..MaxChunks
BY TurnBoundsAssumption DEF Texts, FixedTexts

LEMMA SpeechTypes ==
  ASSUME NEW c \in 0..MaxChunks
  PROVE  /\ \A kind \in {"refusal", "error"} :
              [kind |-> kind, chunks |-> c, next |-> "done"] \in Speech
         /\ \A kind \in {"ack", "fallback"} :
              [kind |-> kind, chunks |-> c, next |-> "execute"] \in Speech
         /\ \A kind \in {"reply", "limit"} :
              [kind |-> kind, chunks |-> c, next |-> "finish"] \in Speech
BY DEF Speech, Kinds, Places

\* The history a turn starts from is made of earlier turns' messages.
LEMMA PriorType ==
  ASSUME prior \in PriorHistories
  PROVE  prior \in Seq(Message) /\ \A i \in DOMAIN prior : prior[i].turn = Earlier
<1> DEFINE E == {m \in Message : m.turn = Earlier}
<1>1. prior \in Seq(E)
  BY PriorAssumption
<1>2. E \subseteq Message /\ \A m \in E : m.turn = Earlier
  OBVIOUS
<1> HIDE DEF E
<1>3. prior \in Seq(Message)
  BY <1>1, <1>2, SeqMonotonic
<1>4. \A i \in DOMAIN prior : prior[i] \in E
  BY <1>1, ElementOfSeq
<1> QED
  BY <1>2, <1>3, <1>4

\* What Begin makes of the history.
LEMMA BeginType ==
  ASSUME TypeInv, Begin
  PROVE  working' = Trim(Append(prior, UserMessage(Me))) /\ working' \in Seq(Message)
<1>1. prior \in Seq(Message)
  BY PriorType DEF TypeInv, TypeOK
<1>2. working' = Trim(Append(prior, UserMessage(Me)))
  BY DEF Begin
<1>3. Append(prior, UserMessage(Me)) \in Seq(Message)
  BY <1>1, MessageTypes, AppendProperties
<1> QED
  BY <1>2, <1>3, TrimProperties

\* What a round of calls adds.
LEMMA ChatCallsEffect ==
  ASSUME TypeInv, ChatCalls
  PROVE  \E k \in 1..MaxCalls :
           /\ CallsMessage(Me, round + 1, k) \in Message
           /\ working' = Append(working, CallsMessage(Me, round + 1, k))
           /\ produced' = Append(produced, CallsMessage(Me, round + 1, k))
           /\ pending' \in Seq(Call) /\ pending' # <<>> /\ AcksFirst(pending')
           /\ \A p \in DOMAIN pending' : pending'[p].n \in 1..k
           /\ \A i \in 1..k : \E p \in DOMAIN pending' : pending'[p].n = i
           /\ round' = round + 1 /\ round' \in 0..MaxRounds
<1>0. PICK k \in 1..MaxCalls : \E names \in [1..k -> ToolNames] :
        /\ working' = Append(working, CallsMessage(Me, round + 1, k))
        /\ produced' = Append(produced, CallsMessage(Me, round + 1, k))
        /\ pending' = Ordered([i \in 1..k |-> [name |-> names[i], n |-> i]])
  BY DEF ChatCalls
<1>1. PICK names \in [1..k -> ToolNames] :
        /\ working' = Append(working, CallsMessage(Me, round + 1, k))
        /\ produced' = Append(produced, CallsMessage(Me, round + 1, k))
        /\ pending' = Ordered([i \in 1..k |-> [name |-> names[i], n |-> i]])
  BY <1>0
<1>2. round' = round + 1 /\ round' \in 0..MaxRounds /\ k \in 0..MaxCalls /\ k \in Nat
      /\ k >= 1 /\ k <= MaxCalls
  BY TurnBoundsAssumption DEF ChatCalls, TypeInv, TypeOK
<1> DEFINE C == [name : ToolNames, n : 1..k]
           e(i) == [name |-> names[i], n |-> i]
           calls == [i \in 1..k |-> e(i)]
<1>3. \A i \in 1..k : e(i) \in C
  OBVIOUS
<1>4. calls \in Seq(C) /\ DOMAIN calls = 1..k
  <2> HIDE DEF C, e
  <2> QED
    BY <1>2, <1>3, IsASeq
<1>5. \A c \in C : c.name \in ToolNames /\ c.n \in 1..k /\ c \in Call
  BY <1>2, TurnBoundsAssumption DEF Call
<1>6. \A i \in 1..k : calls[i].n = i
  OBVIOUS
<1>7. pending' = Ordered(calls)
  BY <1>1
<1> HIDE DEF C, calls, e
<1>8. /\ pending' \in Seq(C) /\ AcksFirst(pending')
      /\ \A i \in 1..k : \E p \in DOMAIN pending' : pending'[p] = calls[i]
  BY <1>4, <1>5, <1>7, OrderedProperties
<1>9. /\ pending' \in Seq(Call)
      /\ \A p \in DOMAIN pending' : pending'[p].n \in 1..k
  <2>1. C \subseteq Call
    BY <1>5
  <2>2. pending' \in Seq(Call)
    BY <2>1, <1>8, SeqMonotonic
  <2>3. \A p \in DOMAIN pending' : pending'[p] \in C
    BY <1>8, ElementOfSeq
  <2> QED
    BY <2>2, <2>3, <1>5
<1>10. /\ \A i \in 1..k : \E p \in DOMAIN pending' : pending'[p].n = i
       /\ pending' # <<>>
  BY <1>2, <1>6, <1>8
<1>11. CallsMessage(Me, round + 1, k) \in Message
  BY <1>2, MessageTypes
<1> QED
  BY <1>1, <1>2, <1>8, <1>9, <1>10, <1>11

\* What running a call adds.
LEMMA ExecuteEffect ==
  ASSUME TypeInv, Execute
  PROVE  LET call == Head(pending)
             result == ToolMessage(Me, round, call.n)
         IN  /\ call \in Call /\ pending # <<>> /\ result \in Message
             /\ pending' = Tail(pending) /\ pending' \in Seq(Call)
             /\ produced' = Append(produced, result)
             /\ executed' = Append(executed, [name |-> call.name, round |-> round])
             /\ [name |-> call.name, round |-> round] \in Executed
             /\ working' = IF pending' = <<>> THEN Trim(Append(working, result))
                                              ELSE Append(working, result)
             /\ pc' = IF pending' = <<>> THEN "chat" ELSE "call"
             /\ pc \in {"call", "execute"} /\ UNCHANGED speech
<1>1. pc \in {"call", "execute"} /\ pending # <<>> /\ pending \in Seq(Call)
  BY DEF Execute, TypeInv, PlaceInv, Place, TypeOK, Call
<1>2. Head(pending) \in Call /\ Tail(pending) \in Seq(Call)
  BY <1>1, HeadTailProperties
<1>3. Head(pending).n \in 0..MaxCalls /\ Head(pending).name \in ToolNames
  BY <1>2, TurnBoundsAssumption DEF Call
<1>4. round \in 0..MaxRounds
  BY DEF TypeInv, TypeOK
<1>5. ToolMessage(Me, round, Head(pending).n) \in Message
  BY <1>3, <1>4, MessageTypes
<1> QED
  BY <1>1, <1>2, <1>3, <1>4, <1>5 DEF Execute, Result, Executed

\* What the final text adds.
LEMMA EndWithEffect ==
  ASSUME TypeInv, ChatText \/ GiveUp
  PROVE  /\ working' = Trim(Append(working, TextMessage(Me)))
         /\ produced' = Append(produced, TextMessage(Me))
         /\ working' \in Seq(Message) /\ produced' \in Seq(Message)
         /\ pc = "chat" /\ pc' = "speak" /\ Place' = "finish"
         /\ speech' \in Speech /\ speech'.kind \in {"reply", "limit"}
         /\ speech'.next = "finish"
         /\ round' \in 0..MaxRounds
         /\ UNCHANGED <<input, pending, acked, executed, typing, dbVars,
                        yielded, trouble>>
<1>1. round' \in 0..MaxRounds
  BY TurnBoundsAssumption DEF ChatText, GiveUp, TypeInv, TypeOK
<1>2. \E kind \in {"reply", "limit"}, c \in 0..MaxChunks : Yield(kind, c, "finish")
  BY ChunkBounds DEF ChatText, GiveUp, EndWith
<1>3. /\ pc' = "speak" /\ Place' = "finish"
      /\ speech' \in Speech /\ speech'.kind \in {"reply", "limit"}
      /\ speech'.next = "finish"
  BY <1>2, YieldType, SpeechTypes DEF Kinds, Places
<1>4. /\ working' = Trim(Append(working, TextMessage(Me)))
      /\ produced' = Append(produced, TextMessage(Me))
      /\ pc = "chat"
      /\ UNCHANGED <<input, pending, acked, executed, typing, dbVars,
                     yielded, trouble>>
  BY DEF ChatText, GiveUp, EndWith
<1>5. Append(working, TextMessage(Me)) \in Seq(Message) /\ produced' \in Seq(Message)
  BY <1>4, MessageTypes, AppendProperties DEF TypeInv, TypeOK
<1>6. working' \in Seq(Message)
  BY <1>4, <1>5, TrimProperties
<1> QED
  BY <1>1, <1>3, <1>4, <1>5, <1>6

\* A text that was handed over is remembered.
LEMMA ResumeEffect ==
  ASSUME TypeInv, Resume, pc \in {"speak", "send"}
  PROVE  /\ \E b \in BOOLEAN :
              yielded' = Append(yielded, [kind |-> speech.kind, round |-> round, sent |-> b])
         /\ yielded' \in Seq(Text)
         /\ speech \in Speech /\ speech' = NoSpeech
         /\ pc' = speech.next /\ pc' \in {"done", "execute", "finish"} /\ Place' = Place
         /\ typing' \in BOOLEAN
<1>1. speech \in Speech /\ round \in 0..MaxRounds /\ yielded \in Seq(Text)
  BY DEF TypeInv, TypeOK, PlaceInv, Text
<1>2. speech.kind \in Kinds /\ speech.next \in {"done", "execute", "finish"}
  BY <1>1 DEF Speech
<1>3. yielded' = Append(yielded, [kind |-> speech.kind, round |-> round,
                                sent |-> (pc = "send")])
  BY DEF Resume
<1>4. [kind |-> speech.kind, round |-> round, sent |-> (pc = "send")] \in Text
  BY <1>1, <1>2 DEF Text
<1>5. yielded' \in Seq(Text)
  BY <1>1, <1>3, <1>4, AppendProperties
<1>6. /\ speech' = NoSpeech /\ pc' = speech.next /\ typing' \in BOOLEAN
  BY DEF Resume
<1>7. Place' = Place
  BY <1>2, <1>6 DEF Place
<1> QED
  BY <1>1, <1>2, <1>3, <1>5, <1>6, <1>7

LEMMA TypeNext == TypeInv /\ [Next]_vars => TypeInv'
<1> SUFFICES ASSUME TypeInv, [Next]_vars PROVE TypeInv'
  OBVIOUS
<1>0. /\ TypeOK /\ PlaceInv
      /\ working \in Seq(Message) /\ produced \in Seq(Message)
      /\ pending \in Seq(Call) /\ yielded \in Seq(Text) /\ executed \in Seq(Executed)
  BY DEF TypeInv, TypeOK, Call, Text, Executed
<1> USE DEF TypeInv
<1>1. CASE Refuse \/ DownloadFails
  <2>1. \E kind \in {"refusal", "error"}, c \in 0..MaxChunks : Yield(kind, c, "done")
    BY <1>1, ChunkBounds DEF Refuse, DownloadFails
  <2>2. /\ pc' \in Places /\ pc' = "speak" /\ Place' = "done" /\ speech' \in Speech
        /\ speech' \in [kind : Kinds, chunks : 0..MaxChunks, next : Places] \cup {NoSpeech}
    BY <2>1, YieldType, SpeechTypes DEF Kinds, Places
  <2> QED
    BY <1>0, <1>1, <2>2 DEF Refuse, DownloadFails, turnVars, dbVars, TypeOK, PlaceInv
<1>2. CASE DropUnusable \/ Admit
  BY <1>0, <1>2 DEF DropUnusable, Admit, turnVars, dbVars, TypeOK, PlaceInv, Place, Places
<1>3. CASE Begin
  <2>1. working' \in Seq(Message) /\ <<UserMessage(Me)>> \in Seq(Message)
    BY <1>3, BeginType, MessageTypes
  <2> QED
    BY <1>0, <1>3, <2>1 DEF Begin, TypeOK, PlaceInv, Place, Places
<1>4. CASE BeginFails
  BY <1>0, <1>4 DEF BeginFails, turnVars, dbVars, TypeOK, PlaceInv, Place, Places
<1>5. CASE ChatCalls
  <2>1. PICK k \in 1..MaxCalls :
          /\ CallsMessage(Me, round + 1, k) \in Message
          /\ working' = Append(working, CallsMessage(Me, round + 1, k))
          /\ produced' = Append(produced, CallsMessage(Me, round + 1, k))
          /\ pending' \in Seq(Call) /\ pending' # <<>> /\ round' \in 0..MaxRounds
    BY <1>5, ChatCallsEffect
  <2>2. working' \in Seq(Message) /\ produced' \in Seq(Message)
    BY <1>0, <2>1, AppendProperties
  <2>3. pc' = "call" /\ speech' = speech /\ pc = "chat"
    BY <1>5 DEF ChatCalls
  <2>4. PlaceInv'
    BY <1>0, <2>1, <2>3 DEF PlaceInv, Place, Places
  <2> QED
    BY <1>0, <1>5, <2>1, <2>2, <2>4 DEF ChatCalls, dbVars, TypeOK, Call, Places
<1>6. CASE ChatText \/ GiveUp
  <2>1. /\ working' \in Seq(Message) /\ produced' \in Seq(Message)
        /\ pc' = "speak" /\ Place' = "finish" /\ speech' \in Speech /\ round' \in 0..MaxRounds
        /\ UNCHANGED <<input, pending, acked, executed, typing, dbVars,
                       yielded, trouble>>
    BY <1>6, EndWithEffect
  <2>2. PlaceInv'
    BY <2>1 DEF PlaceInv, Places
  <2>3. TypeOK'
    BY <1>0, <2>1 DEF TypeOK, dbVars, Places, Speech
  <2> QED
    BY <2>2, <2>3
<1>7. CASE ChatFails
  <2>1. round' \in 0..MaxRounds
    BY <1>0, <1>7, TurnBoundsAssumption DEF ChatFails, TypeOK
  <2> QED
    BY <1>0, <1>7, <2>1 DEF ChatFails, dbVars, TypeOK, PlaceInv, Place, Places
<1>8. CASE Ping
  <2>1. \E kind \in {"ack", "fallback"}, c \in 0..MaxChunks : Yield(kind, c, "execute")
    BY <1>8, ChunkBounds DEF Ping
  <2>2. /\ pc' \in Places /\ pc' = "speak" /\ Place' = "execute" /\ speech' \in Speech
        /\ speech' \in [kind : Kinds, chunks : 0..MaxChunks, next : Places] \cup {NoSpeech}
    BY <2>1, YieldType, SpeechTypes DEF Kinds, Places
  <2>3. pending # <<>> /\ pending' = pending
    BY <1>0, <1>8 DEF Ping, PlaceInv, Place
  <2>4. PlaceInv'
    BY <2>2, <2>3 DEF PlaceInv, Places
  <2>5. TypeOK'
    BY <1>0, <1>8, <2>2 DEF Ping, dbVars, TypeOK
  <2> QED
    BY <2>4, <2>5
<1>9. CASE PingRaises
  BY <1>0, <1>9 DEF PingRaises, turnVars, dbVars, TypeOK, PlaceInv, Place, Places
<1>10. CASE Execute
  <2> DEFINE result == ToolMessage(Me, round, Head(pending).n)
  <2>1. /\ result \in Message
        /\ pending' \in Seq(Call)
        /\ produced' = Append(produced, result)
        /\ executed' = Append(executed, [name |-> Head(pending).name, round |-> round])
        /\ [name |-> Head(pending).name, round |-> round] \in Executed
        /\ working' = IF pending' = <<>> THEN Trim(Append(working, result))
                                         ELSE Append(working, result)
        /\ pc' = IF pending' = <<>> THEN "chat" ELSE "call"
        /\ pc \in {"call", "execute"} /\ UNCHANGED speech
    BY <1>10, ExecuteEffect
  <2> HIDE DEF result
  <2>2. /\ produced' \in Seq(Message) /\ Append(working, result) \in Seq(Message)
        /\ executed' \in Seq(Executed)
    BY <1>0, <2>1, AppendProperties
  <2>3. working' \in Seq(Message)
    BY <2>1, <2>2, TrimProperties
  <2>4. PlaceInv'
    BY <1>0, <2>1 DEF PlaceInv, Place, Places
  <2>5. TypeOK'
    <3>1. /\ pending' \in Seq([name : ToolNames, n : 1..MaxCalls])
          /\ executed' \in Seq([name : ToolNames, round : 0..MaxRounds])
      BY <2>1, <2>2 DEF Call, Executed
    <3>2. pc' \in Places
      BY <2>1 DEF Places
    <3>3. UNCHANGED <<input, round, acked, speech, typing, dbVars, yielded, trouble>>
      BY <1>10 DEF Execute
    <3> QED
      BY <1>0, <2>2, <2>3, <3>1, <3>2, <3>3 DEF dbVars, TypeOK
  <2> QED
    BY <2>4, <2>5
<1>11. CASE Resume /\ pc \in {"speak", "send"} /\ UNCHANGED <<input, turnVars, dbVars, trouble>>
  <2>1. /\ yielded' \in Seq(Text) /\ speech' = NoSpeech
        /\ pc' \in {"done", "execute", "finish"} /\ Place' = Place /\ typing' \in BOOLEAN
    BY <1>11, ResumeEffect
  <2>2. PlaceInv'
    BY <1>0, <1>11, <2>1 DEF PlaceInv, Places, turnVars
  <2>3. TypeOK'
    BY <1>0, <1>11, <2>1 DEF TypeOK, turnVars, dbVars, Places, Text
  <2> QED
    BY <2>2, <2>3
<1>12. CASE PausePulse
  BY <1>0, <1>12 DEF PausePulse, turnVars, dbVars, TypeOK, PlaceInv, Place, Places
<1>13. CASE SendChunk /\ speech.chunks > 1
  <2>1. /\ speech \in Speech /\ speech' = [speech EXCEPT !.chunks = @ - 1] /\ pc = "send"
        /\ UNCHANGED <<pc, typing, yielded, input, turnVars, dbVars, trouble>>
    BY <1>0, <1>13 DEF SendChunk, PlaceInv
  <2>2. /\ speech' \in Speech /\ speech'.next = speech.next
        /\ speech' \in [kind : Kinds, chunks : 0..MaxChunks, next : Places] \cup {NoSpeech}
    BY <2>1, <1>13, TurnBoundsAssumption DEF Speech
  <2>3. PlaceInv'
    BY <1>0, <2>1, <2>2 DEF PlaceInv, Place, turnVars
  <2>4. TypeOK'
    BY <1>0, <2>1, <2>2 DEF TypeOK, turnVars, dbVars
  <2> QED
    BY <2>3, <2>4
<1>14. CASE SendFails
  BY <1>0, <1>14 DEF SendFails, turnVars, dbVars, TypeOK, PlaceInv, Place, Places
<1>15. CASE Finish \/ Consolidate \/ ConsolidateRaises \/ CommitRaises
  BY <1>0, <1>15 DEF Finish, Consolidate, ConsolidateRaises, CommitRaises, turnVars, dbVars,
                     TypeOK, PlaceInv, Place, Places
<1>16. CASE CommitCompleted \/ CommitFailed
  <2>1. row.msgs \o OutputOf(working, Me) \in Seq(Message)
    BY <1>0, OutputType, ConcatProperties DEF TypeOK
  <2>2. row' \in [status : {"absent", "processing", "completed", "failed"},
                  msgs : Seq(Message)]
    <3> DEFINE m == row.msgs \o OutputOf(working, Me)
    <3>1. \E st \in {"completed", "failed"} : row' = [status |-> st, msgs |-> m]
      BY <1>16 DEF CommitCompleted, CommitFailed, Store
    <3>2. m \in Seq(Message)
      BY <2>1
    <3> HIDE DEF m
    <3> QED
      BY <3>1, <3>2
  <2> QED
    BY <1>0, <1>16, <2>2 DEF CommitCompleted, CommitFailed, turnVars, TypeOK, PlaceInv,
                             Place, Places
<1>17. CASE Apologise
  <2>1. [kind |-> "error", round |-> round, sent |-> TRUE] \in Text
    BY <1>0 DEF Text, Kinds, TypeOK
  <2>2. yielded' \in Seq(Text)
    <3>1. Append(yielded, [kind |-> "error", round |-> round, sent |-> TRUE]) \in Seq(Text)
      BY <1>0, <2>1, AppendProperties
    <3> QED
      BY <1>0, <1>17, <3>1 DEF Apologise
  <2>3. trouble' \subseteq {"begin", "chat", "ping", "send", "commit", "shutdown"}
    BY <1>0, <1>17 DEF Apologise, TypeOK
  <2> QED
    BY <1>0, <1>17, <2>2, <2>3
       DEF Apologise, turnVars, dbVars, TypeOK, PlaceInv, Place, Places, Text
<1>18. CASE Crash
  BY <1>0, <1>18 DEF Crash, turnVars, dbVars, TypeOK, PlaceInv, Place, Places
<1>19. CASE UNCHANGED vars
  BY <1>0, <1>19 DEF vars, TypeOK, PlaceInv, Place
<1>20. SkipBlank \/ SendChunk =>
         \/ Resume /\ pc \in {"speak", "send"} /\ UNCHANGED <<input, turnVars, dbVars, trouble>>
         \/ SendChunk /\ speech.chunks > 1
  BY DEF SkipBlank, SendChunk
<1> QED
  BY <1>1, <1>2, <1>3, <1>4, <1>5, <1>6, <1>7, <1>8, <1>9, <1>10, <1>11, <1>12, <1>13, <1>14,
     <1>15, <1>16, <1>17, <1>18, <1>19, <1>20
     DEF Next, Step, Screen, Loop, Speak, Settle

\* Everything the thread, the row and the histories hold keeps its type.
THEOREM TurnTypeCorrect == Spec => []TypeOK
<1>1. TypeInv => TypeOK
  BY DEF TypeInv
<1> QED
  BY <1>1, TypeInit, TypeNext, PTL DEF Spec

LEMMA AlwaysTypeInv == Spec => []TypeInv
BY TypeInit, TypeNext, PTL DEF Spec

-----------------------------------------------------------------------------
(* What the user was told of the outcome, and what the row says of it. *)

Answers == {"reply", "limit"}
Pings   == {"ack", "fallback"}

AtMostOne(S) == \A i, j \in S : i = j

\* The row is open from Begin to the commit.
RowInv ==
  /\ Place \in {"screen", "begin"} => row.status = "absent"
  /\ pc \in {"speak", "send"} /\ Place = "done" => row.status = "absent"
  /\ Place \in {"chat", "call", "execute", "finish", "commit", "close"}
       => row.status = "processing"
  /\ pc = "consolidate" => row.status = "completed"
  /\ pc \in {"apologise", "done"} /\ row.status = "processing" => "commit" \in trouble
  /\ consolidated => pc = "done" /\ row.status = "completed"

\* No final text before the last one is handed over, one after it, and a
\* second one only for what went wrong later.
FinalInv ==
  /\ Place \in {"screen", "begin", "chat", "call", "execute", "close"}
        \/ pc \in {"speak", "send"} => Yielded(Endings) = {}
  /\ pc \in {"finish", "commit"} \/ row.status = "completed" => Yielded(Answers) # {}
  /\ pc \in {"finish", "commit", "consolidate", "apologise"} => AtMostOne(Yielded(Endings))
  /\ pc = "apologise" /\ Yielded(Endings) # {} => trouble \cap {"commit", "shutdown"} # {}
  /\ pc = "done" => \/ AtMostOne(Yielded(Endings))
                    \/ trouble \cap {"commit", "shutdown"} # {}
  /\ pc = "done" /\ Yielded(Endings) = {}
       => "send" \in trouble \/ (media = "unsupported" /\ ~caption)

AnswerInv == TypeInv /\ RowInv /\ FinalInv

LEMMA YieldedGrows ==
  ASSUME yielded \in Seq(Text), NEW x \in Text, yielded' = Append(yielded, x), NEW kinds
  PROVE  Yielded(kinds)' = IF x.kind \in kinds THEN Yielded(kinds) \cup {Len(yielded) + 1}
                                            ELSE Yielded(kinds)
<1>1. /\ DOMAIN yielded' = 1..(Len(yielded) + 1) /\ DOMAIN yielded = 1..Len(yielded)
      /\ Len(yielded) \in Nat
      /\ \A i \in 1..Len(yielded) : yielded'[i] = yielded[i]
      /\ yielded'[Len(yielded) + 1] = x
  BY AppendProperties, LenProperties
<1>2. 1..(Len(yielded) + 1) = (1..Len(yielded)) \cup {Len(yielded) + 1}
  BY <1>1
<1> QED
  BY <1>1, <1>2 DEF Yielded

LEMMA YieldedStays ==
  ASSUME UNCHANGED yielded, NEW kinds
  PROVE  Yielded(kinds)' = Yielded(kinds)
BY DEF Yielded

\* A step that neither hands over the last of a text nor ends in an apology
\* leaves what was said alone.
LEMMA QuietSteps ==
  ASSUME TypeInv, [Next]_vars, ~ Apologise, ~ ((SkipBlank \/ SendChunk) /\ Resume)
  PROVE  UNCHANGED yielded
BY DEF Next, Step, Screen, Loop, Speak, Settle, Refuse, DownloadFails, DropUnusable, Admit,
       Begin, BeginFails, ChatCalls, ChatText, GiveUp, EndWith, ChatFails, Ping, PingRaises,
       Execute, SkipBlank, PausePulse, SendChunk, SendFails, Finish, CommitCompleted,
       CommitFailed, CommitRaises, Consolidate, ConsolidateRaises, Crash, vars

\* What the message carries and what came before it is given.
LEMMA InputStays ==
  ASSUME [Next]_vars
  PROVE  UNCHANGED input
BY DEF Next, Step, Screen, Loop, Speak, Settle, Refuse, DownloadFails, DropUnusable, Admit,
       Begin, BeginFails, ChatCalls, ChatText, GiveUp, EndWith, ChatFails, Ping, PingRaises,
       Execute, SkipBlank, PausePulse, SendChunk, SendFails, Finish, CommitCompleted,
       CommitFailed, CommitRaises, Consolidate, ConsolidateRaises, Apologise, Crash, vars

LEMMA AnswerInit == Init => AnswerInv
<1> SUFFICES ASSUME Init PROVE AnswerInv
  OBVIOUS
<1>1. TypeInv
  BY TypeInit
<1>2. Yielded(Endings) = {} /\ pc = "screen" /\ row.status = "absent" /\ consolidated = FALSE
  BY DEF Init, Yielded
<1> QED
  BY <1>1, <1>2 DEF AnswerInv, RowInv, FinalInv, Place

LEMMA AnswerNext == AnswerInv /\ [Next]_vars => AnswerInv'
<1> SUFFICES ASSUME AnswerInv, [Next]_vars PROVE AnswerInv'
  OBVIOUS
<1>0. TypeInv /\ RowInv /\ FinalInv /\ TypeInv' /\ yielded \in Seq(Text)
  BY TypeNext DEF AnswerInv, TypeInv, TypeOK, Text
<1>1. CASE UNCHANGED yielded /\ ~ Apologise /\ ~ ((SkipBlank \/ SendChunk) /\ Resume)
  <2>0. Yielded(Endings)' = Yielded(Endings) /\ Yielded(Answers)' = Yielded(Answers)
    BY <1>1, YieldedStays
  <2>1. CASE Refuse \/ DownloadFails \/ DropUnusable \/ Admit
    <3>1. /\ pc = "screen" /\ Place = "screen"
          /\ \/ pc' = "speak" /\ Place' = "done"
             \/ pc' = "done" /\ Place' = "done" /\ media = "unsupported" /\ ~caption
             \/ pc' = "begin" /\ Place' = "begin"
          /\ UNCHANGED <<input, turnVars, dbVars, trouble>>
      <4>1. CASE Refuse \/ DownloadFails
        <5>1. \E kind \in {"refusal", "error"}, c \in 0..MaxChunks : Yield(kind, c, "done")
          BY <4>1, ChunkBounds DEF Refuse, DownloadFails
        <5>2. pc' = "speak" /\ Place' = "done"
          BY <5>1, YieldType, SpeechTypes DEF Kinds, Places
        <5> QED
          BY <4>1, <5>2 DEF Refuse, DownloadFails, Place
      <4>2. CASE DropUnusable \/ Admit
        BY <4>2 DEF DropUnusable, Admit, Place, turnVars, dbVars
      <4> QED
        BY <2>1, <4>1, <4>2
    <3> QED
      BY <1>0, <2>0, <3>1 DEF turnVars, dbVars, AnswerInv, RowInv, FinalInv, AtMostOne
  <2>2. CASE Begin \/ BeginFails
    BY <1>0, <2>0, <2>2
       DEF Begin, BeginFails, turnVars, dbVars, AnswerInv, RowInv, FinalInv, Place,
           AtMostOne
  <2>3. CASE ChatText \/ GiveUp
    <3>1. /\ pc = "chat" /\ pc' = "speak" /\ Place' = "finish" /\ UNCHANGED <<dbVars, trouble>>
      BY <1>0, <2>3, EndWithEffect
    <3> QED
      BY <1>0, <2>0, <3>1 DEF dbVars, AnswerInv, RowInv, FinalInv, Place
  <2>4. CASE ChatCalls \/ ChatFails \/ Ping \/ PingRaises \/ Execute
    BY <1>0, <2>0, <2>4
       DEF ChatCalls, ChatFails, Ping, PingRaises, Execute, Yield, turnVars, dbVars, AnswerInv,
           RowInv, FinalInv, Place
  <2>5. CASE PausePulse \/ SendFails \/ (SendChunk /\ ~ Resume)
    BY <1>0, <2>0, <2>5
       DEF PausePulse, SendChunk, SendFails, turnVars, dbVars, AnswerInv, PlaceInv, Speech, TypeInv,
           RowInv, FinalInv, Place, AtMostOne
  <2>6. CASE Finish \/ CommitFailed \/ CommitRaises
    BY <1>0, <2>0, <2>6
       DEF Finish, CommitFailed, CommitRaises, Store, turnVars, dbVars, AnswerInv,
           RowInv, FinalInv, Place, AtMostOne
  <2>7. CASE CommitCompleted
    BY <1>0, <2>0, <2>7
       DEF CommitCompleted, Store, turnVars, dbVars, AnswerInv, RowInv, FinalInv, Place
  <2>8. CASE Consolidate \/ ConsolidateRaises
    <3>1. Yielded(Answers) \subseteq Yielded(Endings)
      BY DEF Yielded, Answers, Endings
    <3>2. /\ Yielded(Endings) # {} /\ AtMostOne(Yielded(Endings)) /\ row.status = "completed"
          /\ Yielded(Answers) # {}
      BY <1>0, <2>8, <3>1 DEF Consolidate, ConsolidateRaises, RowInv, FinalInv
    <3> QED
      BY <1>0, <2>0, <2>8, <3>2
         DEF Consolidate, ConsolidateRaises, turnVars, dbVars, AnswerInv, RowInv, FinalInv, Place
  <2>9. CASE Crash \/ UNCHANGED vars
    BY <1>0, <2>0, <2>9
       DEF Crash, turnVars, dbVars, vars, AnswerInv, RowInv, FinalInv, Place
  <2> QED
    BY <1>0, <1>1, <2>1, <2>2, <2>3, <2>4, <2>5, <2>6, <2>7, <2>8, <2>9
       DEF Next, Step, Screen, Loop, Speak, Settle, SkipBlank, SendChunk
<1>2. CASE (SkipBlank \/ SendChunk) /\ Resume
  <2>1. pc \in {"speak", "send"} /\ UNCHANGED <<input, turnVars, dbVars, trouble>>
    BY <1>2 DEF SkipBlank, SendChunk
  <2>2. /\ speech \in Speech /\ pc' = speech.next /\ pc' \in {"done", "execute", "finish"}
        /\ Place' = Place
    BY <1>0, <1>2, <2>1, ResumeEffect
  <2>3. PICK b \in BOOLEAN :
          yielded' = Append(yielded, [kind |-> speech.kind, round |-> round, sent |-> b])
    BY <1>0, <1>2, <2>1, ResumeEffect
  <2> DEFINE x == [kind |-> speech.kind, round |-> round, sent |-> b]
  <2>4. x \in Text /\ x.kind = speech.kind
    BY <1>0, <2>2 DEF Text, Speech, TypeInv, TypeOK
  <2>5. yielded' = Append(yielded, x)
    BY <2>3
  <2> HIDE DEF x
  <2>6. \A kinds \in {Endings, Answers} :
          Yielded(kinds)' = IF speech.kind \in kinds THEN Yielded(kinds) \cup {Len(yielded) + 1}
                                                 ELSE Yielded(kinds)
    BY <1>0, <2>4, <2>5, YieldedGrows
  <2>7. Yielded(Endings) = {} /\ pc' \notin {"speak", "send"} /\ Place = speech.next
    BY <1>0, <2>1, <2>2 DEF FinalInv, Place
  <2>8. CASE speech.next = "done"
    <3>1. speech.kind \in Endings
      BY <2>2, <2>8 DEF Speech, Endings
    <3>2. Yielded(Endings)' = {Len(yielded) + 1} /\ pc' = "done" /\ row.status = "absent"
      BY <1>0, <2>1, <2>2, <2>6, <2>7, <2>8, <3>1 DEF RowInv
    <3>3. Place' = "done"
      BY <2>2, <2>7, <2>8
    <3> QED
      BY <1>0, <2>1, <3>2, <3>3 DEF AnswerInv, RowInv, FinalInv, AtMostOne, dbVars
  <2>9. CASE speech.next = "execute"
    <3>1. speech.kind \notin Endings
      BY <2>2, <2>9 DEF Speech, Endings
    <3>2. Yielded(Endings)' = {} /\ pc' = "execute" /\ row.status = "processing"
      BY <1>0, <2>1, <2>2, <2>6, <2>7, <2>9, <3>1 DEF RowInv
    <3>3. Place' = "execute"
      BY <2>2, <2>7, <2>9
    <3> QED
      BY <1>0, <2>1, <3>2, <3>3 DEF AnswerInv, RowInv, FinalInv, dbVars
  <2>10. CASE speech.next = "finish"
    <3>1. speech.kind \in Endings /\ speech.kind \in Answers
      BY <2>2, <2>10 DEF Speech, Endings, Answers
    <3>2. /\ Yielded(Endings)' = {Len(yielded) + 1} /\ Yielded(Answers)' # {}
          /\ pc' = "finish" /\ row.status = "processing"
      BY <1>0, <2>1, <2>2, <2>6, <2>7, <2>10, <3>1 DEF RowInv
    <3>3. Place' = "finish"
      BY <2>2, <2>7, <2>10
    <3> QED
      BY <1>0, <2>1, <3>2, <3>3 DEF AnswerInv, RowInv, FinalInv, AtMostOne, dbVars
  <2> QED
    BY <2>2, <2>8, <2>9, <2>10
<1>3. CASE Apologise
  <2>0. /\ pc = "apologise" /\ pc' = "done" /\ Place' = "done" /\ trouble \subseteq trouble'
        /\ UNCHANGED <<input, turnVars, speech, typing, dbVars>>
    BY <1>3 DEF Apologise, Place
  <2>1. RowInv'
    BY <1>0, <2>0 DEF RowInv, dbVars
  <2>2. CASE UNCHANGED yielded /\ "send" \in trouble'
    <3>1. Yielded(Endings)' = Yielded(Endings) /\ Yielded(Answers)' = Yielded(Answers)
      BY <2>2, YieldedStays
    <3> QED
      BY <1>0, <2>0, <2>1, <2>2, <3>1 DEF AnswerInv, FinalInv, dbVars
  <2>3. CASE yielded' = Append(yielded, [kind |-> "error", round |-> round, sent |-> TRUE])
    <3> DEFINE x == [kind |-> "error", round |-> round, sent |-> TRUE]
    <3>1. x \in Text /\ x.kind = "error" /\ yielded' = Append(yielded, x)
      BY <1>0, <2>3 DEF Text, Kinds, TypeInv, TypeOK
    <3> HIDE DEF x
    <3>2. /\ Yielded(Endings)' = Yielded(Endings) \cup {Len(yielded) + 1}
          /\ Yielded(Answers)' = Yielded(Answers)
      BY <1>0, <3>1, YieldedGrows DEF Endings, Answers
    <3>3. Yielded(Endings) = {} => AtMostOne(Yielded(Endings)')
      BY <3>2 DEF AtMostOne
    <3> QED
      BY <1>0, <2>0, <2>1, <3>2, <3>3 DEF AnswerInv, FinalInv, dbVars
  <2> QED
    BY <1>3, <2>2, <2>3 DEF Apologise
<1> QED
  BY <1>0, <1>1, <1>2, <1>3, QuietSteps
     DEF Next, Step, Screen, Loop, Speak, Settle, SkipBlank, SendChunk


LEMMA AlwaysAnswerInv == Spec => []AnswerInv
BY AnswerInit, AnswerNext, PTL DEF Spec

\* Formatting leaves something of the program's own texts: what was not sent
\* is a text of the model's.
SentInv ==
  /\ \A i \in DOMAIN yielded : yielded[i].sent \/ yielded[i].kind \in {"ack", "reply"}
  /\ pc = "speak" /\ speech.kind \notin {"ack", "reply"} => speech.chunks > 0

LEMMA SentInit == Init => SentInv
BY DEF Init, SentInv

LEMMA SentNext == TypeInv /\ SentInv /\ [Next]_vars => SentInv'
<1> SUFFICES ASSUME TypeInv, SentInv, [Next]_vars PROVE SentInv'
  OBVIOUS
<1>0. yielded \in Seq(Text) /\ round \in 0..MaxRounds /\ PlaceInv
  BY DEF TypeInv, TypeOK, Text
<1>1. ASSUME NEW kind \in Kinds, NEW c \in 0..MaxChunks, NEW next, Yield(kind, c, next),
             kind \in {"ack", "reply"} \/ c > 0, UNCHANGED yielded
      PROVE  SentInv'
  BY <1>1 DEF Yield, SentInv
<1>2. ASSUME UNCHANGED yielded, pc' # "speak"
      PROVE  SentInv'
  BY <1>2 DEF SentInv
<1>3. ASSUME NEW x \in Text, yielded' = Append(yielded, x),
             x.sent \/ x.kind \in {"ack", "reply"}, pc' # "speak"
      PROVE  SentInv'
  <2>1. /\ Len(yielded) \in Nat
        /\ DOMAIN yielded = 1..Len(yielded) /\ DOMAIN yielded' = 1..(Len(yielded) + 1)
        /\ \A i \in 1..Len(yielded) : yielded'[i] = yielded[i]
        /\ yielded'[Len(yielded) + 1] = x
    BY <1>0, <1>3, AppendProperties, LenProperties
  <2>2. \A i \in DOMAIN yielded' : yielded'[i] = x \/ (i \in DOMAIN yielded /\ yielded'[i] = yielded[i])
    BY <2>1
  <2> QED
    BY <1>3, <2>2 DEF SentInv
<1>4. /\ \A c \in Texts : c \in 0..MaxChunks
      /\ \A c \in FixedTexts : c \in 0..MaxChunks /\ c > 0
  BY TurnBoundsAssumption DEF Texts, FixedTexts
<1>5. CASE Refuse \/ DownloadFails \/ ChatText \/ GiveUp \/ Ping
  <2>1. \E kind \in Kinds, c \in 0..MaxChunks, next \in Places :
          Yield(kind, c, next) /\ (kind \in {"ack", "reply"} \/ c > 0)
    BY <1>4, <1>5 DEF Refuse, DownloadFails, ChatText, GiveUp, EndWith, Ping, Kinds, Places
  <2>2. UNCHANGED yielded
    BY <1>5 DEF Refuse, DownloadFails, ChatText, GiveUp, EndWith, Ping
  <2> QED
    BY <1>1, <2>1, <2>2
<1>6. CASE (SkipBlank \/ SendChunk) /\ Resume
  <2> DEFINE x == [kind |-> speech.kind, round |-> round, sent |-> (pc = "send")]
  <2>1. pc \in {"speak", "send"} /\ (pc = "speak" => speech.chunks = 0)
    BY <1>6 DEF SkipBlank, SendChunk
  <2>2. speech \in Speech /\ pc' \in {"done", "execute", "finish"}
    BY <1>6, <2>1, ResumeEffect
  <2>3. yielded' = Append(yielded, x) /\ x \in Text
    BY <1>0, <1>6, <2>2 DEF Resume, Text, Speech
  <2>4. x.kind = speech.kind /\ (pc = "send" => x.sent)
    OBVIOUS
  <2>5. pc = "speak" => speech.kind \in {"ack", "reply"}
    BY <2>1 DEF SentInv
  <2> HIDE DEF x
  <2> QED
    BY <1>3, <2>1, <2>2, <2>3, <2>4, <2>5
<1>7. CASE Apologise
  <2> DEFINE x == [kind |-> "error", round |-> round, sent |-> TRUE]
  <2>1. x \in Text /\ x.sent
    BY <1>0 DEF Text, Kinds
  <2>2. pc' = "done" /\ (yielded' = Append(yielded, x) \/ UNCHANGED yielded)
    BY <1>7 DEF Apologise
  <2> HIDE DEF x
  <2> QED
    BY <1>2, <1>3, <2>1, <2>2
<1>8. CASE ~ Apologise /\ ~ ((SkipBlank \/ SendChunk) /\ Resume)
           /\ ~ (Refuse \/ DownloadFails \/ ChatText \/ GiveUp \/ Ping)
  <2>1. UNCHANGED yielded
    BY <1>8, QuietSteps
  <2>2. pc' # "speak" \/ UNCHANGED <<pc, speech>>
    BY <1>0, <1>8
       DEF Next, Step, Screen, Loop, Speak, Settle, DropUnusable, Admit,
           Begin, BeginFails, ChatCalls, ChatFails, PingRaises,
           Execute, SkipBlank, PausePulse, SendChunk, SendFails, Finish, CommitCompleted,
           CommitFailed, CommitRaises, Consolidate, ConsolidateRaises, Crash, vars
  <2> QED
    BY <1>2, <2>1, <2>2 DEF SentInv
<1> QED
  BY <1>5, <1>6, <1>7, <1>8

LEMMA AlwaysSentInv == Spec => []SentInv
BY SentInit, SentNext, AlwaysTypeInv, PTL DEF Spec

\* A turn is durable as completed only after its final text went out in full
\* or formatting left nothing of the model's reply, and a settled thread
\* leaves no open row behind unless storing it failed, whatever fails on the
\* way.
THEOREM CompletedIsAnswered == Spec => []CompletedMeansAnswered
<1>1. AnswerInv /\ SentInv => CompletedMeansAnswered
  <2> SUFFICES ASSUME AnswerInv, SentInv PROVE CompletedMeansAnswered
    OBVIOUS
  <2>1. Yielded(Answers) # {} => Said({"reply", "limit"}) # {} \/ Blank({"reply"}) # {}
    BY DEF SentInv, Yielded, Said, Blank, Answers
  <2> QED
    BY <2>1 DEF AnswerInv, RowInv, FinalInv, CompletedMeansAnswered
<1> QED
  BY <1>1, AlwaysAnswerInv, AlwaysSentInv, PTL

LEMMA AtMostOneCounts ==
  ASSUME NEW S, AtMostOne(S)
  PROVE  Cardinality(S) <= 1
<1>1. CASE S = {}
  BY <1>1, FS_EmptySet
<1>2. CASE S # {}
  <2>1. PICK x \in S : S = {x}
    BY <1>2 DEF AtMostOne
  <2>2. Cardinality({x}) = 1
    BY FS_Singleton
  <2>3. Cardinality(S) = 1
    BY ONLY <2>1, <2>2
  <2> QED
    BY <2>3
<1> QED
  BY <1>1, <1>2

\* No second final text unless storing or consolidating failed, and no
\* silence unless sending failed, formatting left nothing of the reply, or
\* nobody can use the message.
THEOREM UserAlwaysHearsOnce == Spec => []UserHearsOnce
<1>1. AnswerInv /\ SentInv => UserHearsOnce
  <2> SUFFICES ASSUME AnswerInv, SentInv, pc = "done"
               PROVE  /\ Cardinality(Said(Endings)) > 1 => trouble \cap {"commit", "shutdown"} # {}
                      /\ Said(Endings) = {} =>
                           \/ "send" \in trouble
                           \/ Blank({"reply"}) # {}
                           \/ (media = "unsupported" /\ ~caption)
    BY DEF UserHearsOnce
  <2>1. AtMostOne(Yielded(Endings)) \/ trouble \cap {"commit", "shutdown"} # {}
    BY DEF AnswerInv, FinalInv
  <2>2. AtMostOne(Yielded(Endings)) => AtMostOne(Said(Endings))
    BY DEF AtMostOne, Said
  <2>3. AtMostOne(Said(Endings)) => ~ (Cardinality(Said(Endings)) > 1)
    <3> SUFFICES ASSUME AtMostOne(Said(Endings)) PROVE ~ (Cardinality(Said(Endings)) > 1)
      OBVIOUS
    <3>1. IsFiniteSet(Said(Endings)) /\ Cardinality(Said(Endings)) \in Nat
      <4>1. IsFiniteSet(1..Len(yielded)) /\ DOMAIN yielded = 1..Len(yielded)
        BY FS_Interval DEF AnswerInv, TypeInv, TypeOK
      <4>2. Said(Endings) \in SUBSET (1..Len(yielded))
        BY <4>1 DEF Said, Yielded
      <4> QED
        BY <4>1, <4>2, FS_Subset, FS_CardinalityType
    <3>2. Cardinality(Said(Endings)) <= 1
      BY AtMostOneCounts
    <3> QED
      BY <3>1, <3>2
  <2>4. Yielded(Endings) # {} => Said(Endings) # {} \/ Blank({"reply"}) # {}
    BY DEF SentInv, Yielded, Said, Blank, Endings
  <2>5. Yielded(Endings) = {} => "send" \in trouble \/ (media = "unsupported" /\ ~caption)
    BY DEF AnswerInv, FinalInv
  <2> QED
    BY <2>1, <2>2, <2>3, <2>4, <2>5
<1> QED
  BY <1>1, AlwaysAnswerInv, AlwaysSentInv, PTL

-----------------------------------------------------------------------------
(* Announcing a delegation. *)

NoAck(calls) == \A p \in DOMAIN calls : calls[p].name # "ack"

\* SpawnIsAnnounced of what was yielded, sent or not.
AnnouncedInv ==
  /\ (\E i \in DOMAIN executed : executed[i].name = "spawn")
       => Yielded({"ack", "fallback"}) # {}
  /\ \A i \in Yielded({"fallback"}), k \in DOMAIN executed :
       executed[k].name = "ack" => executed[k].round > yielded[i].round

PingInv ==
  /\ Place \in {"screen", "begin"} => ~acked
  /\ acked /\ pc \in {"chat", "call", "execute"} => Yielded(Pings) # {}
  /\ Place = "execute" => acked
  /\ ~acked => NoAck(executed)
  /\ AcksFirst(pending)
  /\ \A k \in DOMAIN executed : executed[k].round <= round
  /\ \A i \in DOMAIN yielded : yielded[i].round <= round
  /\ speech.kind = "fallback" => NoAck(pending) /\ NoAck(executed)
  /\ \A i \in Yielded({"fallback"}) : yielded[i].round = round => NoAck(pending)
  /\ AnnouncedInv

LEMMA PingInit == Init => PingInv
BY DEF Init, PingInv, Place, NoAck, AcksFirst, Yielded, AnnouncedInv, NoSpeech

\* What is left after the first call.
LEMMA TailKeepsOrder ==
  ASSUME pending \in Seq(Call), pending # <<>>, AcksFirst(pending)
  PROVE  /\ AcksFirst(Tail(pending))
         /\ NoAck(pending) => NoAck(Tail(pending))
         /\ Head(pending).name = "spawn" => NoAck(pending)
         /\ NoAck(pending) => Head(pending).name # "ack"
<1>1. /\ Tail(pending) \in Seq(Call) /\ Len(Tail(pending)) = Len(pending) - 1
      /\ \A i \in 1..Len(Tail(pending)) : Tail(pending)[i] = pending[i + 1]
      /\ Len(pending) \in Nat /\ Len(pending) >= 1
      /\ Head(pending) = pending[1]
  BY HeadTailProperties, LenProperties, EmptySeq
<1> DEFINE t == Tail(pending)
<1>2. DOMAIN t = 1..(Len(pending) - 1) /\ DOMAIN pending = 1..Len(pending)
  BY <1>1
<1>3. \A i \in DOMAIN t : i + 1 \in DOMAIN pending /\ t[i] = pending[i + 1]
  BY <1>1, <1>2
<1> HIDE DEF t
<1>4. AcksFirst(t)
  <2> SUFFICES ASSUME NEW p \in DOMAIN t, NEW q \in DOMAIN t, p < q, t[p].name = "spawn"
               PROVE  t[q].name # "ack"
    BY DEF AcksFirst
  <2>1. p + 1 < q + 1
    BY <1>1, <1>2
  <2> QED
    BY <2>1, <1>3 DEF AcksFirst
<1>5. NoAck(pending) => NoAck(t)
  BY <1>3 DEF NoAck
<1>6. Head(pending).name = "spawn" => NoAck(pending)
  <2> SUFFICES ASSUME Head(pending).name = "spawn", NEW q \in DOMAIN pending
               PROVE  pending[q].name # "ack"
    BY DEF NoAck
  <2>1. CASE q = 1
    BY <1>1, <2>1
  <2>2. CASE q # 1
    <3>1. 1 \in DOMAIN pending /\ 1 < q
      BY <1>1, <1>2, <2>2
    <3> QED
      BY <1>1, <3>1 DEF AcksFirst
  <2> QED
    BY <2>1, <2>2
<1>7. NoAck(pending) => Head(pending).name # "ack"
  BY <1>1, <1>2 DEF NoAck
<1> QED
  BY <1>4, <1>5, <1>6, <1>7 DEF t

LEMMA RoundsAreNat ==
  ASSUME TypeInv
  PROVE  /\ \A k \in DOMAIN executed : executed[k].round \in Nat
         /\ \A i \in DOMAIN yielded : yielded[i].round \in Nat
<1>1. /\ \A k \in DOMAIN executed : executed[k] \in Executed
      /\ \A i \in DOMAIN yielded : yielded[i] \in Text
  <2>1. executed \in Seq(Executed) /\ yielded \in Seq(Text)
    BY DEF TypeInv, TypeOK, Executed, Text
  <2> QED
    BY <2>1, ElementOfSeq, LenProperties
<1>2. \A n \in 0..MaxRounds : n \in Nat
  OBVIOUS
<1> QED
  BY <1>1, <1>2 DEF Executed, Text

LEMMA PingNext == TypeInv /\ PingInv /\ [Next]_vars => PingInv'
<1> SUFFICES ASSUME TypeInv, PingInv, [Next]_vars PROVE PingInv'
  OBVIOUS
<1>0. /\ yielded \in Seq(Text) /\ executed \in Seq(Executed) /\ pending \in Seq(Call)
      /\ round \in Nat /\ PlaceInv /\ NoSpeech.kind = "none"
  BY TurnBoundsAssumption DEF TypeInv, TypeOK, Text, Executed, Call, NoSpeech
<1>1. ASSUME UNCHANGED <<turnVars, yielded>>,
             pc' \in {"chat", "call", "execute"} => ~acked \/ pc \in {"chat", "call", "execute"},
             Place' \in {"screen", "begin"} => Place \in {"screen", "begin"},
             Place' = "execute" => Place = "execute",
             speech'.kind = "fallback" => speech.kind = "fallback"
      PROVE  PingInv'
  BY <1>1 DEF PingInv, turnVars, Yielded, AnnouncedInv, NoAck, AcksFirst
<1>2. CASE Screen
  <2>1. /\ UNCHANGED <<turnVars, yielded>>
        /\ \/ \E kind \in {"refusal", "error"}, c \in 0..MaxChunks : Yield(kind, c, "done")
           \/ pc' \in {"done", "begin"} /\ UNCHANGED speech
        /\ Place = "screen"
    BY <1>2, ChunkBounds
       DEF Screen, Refuse, DownloadFails, DropUnusable, Admit, Place
  <2>2. CASE \E kind \in {"refusal", "error"}, c \in 0..MaxChunks : Yield(kind, c, "done")
    <3>1. pc' = "speak" /\ Place' = "done" /\ speech'.kind \in {"refusal", "error"}
      BY <2>2, YieldType, SpeechTypes DEF Kinds, Places
    <3> QED
      BY <1>1, <2>1, <3>1
  <2>3. CASE pc' \in {"done", "begin"} /\ UNCHANGED speech
    <3>1. Place' = pc'
      BY <2>3 DEF Place
    <3> QED
      BY <1>1, <2>1, <2>3, <3>1
  <2> QED
    BY <2>1, <2>2, <2>3
<1>3. CASE Begin
  <2>1. /\ UNCHANGED <<round, pending, acked, executed, yielded, speech>>
        /\ pc' = "chat" /\ Place' = "chat" /\ Place = "begin"
    BY <1>3 DEF Begin, Place
  <2> QED
    BY <2>1 DEF PingInv, Yielded, AnnouncedInv, NoAck, AcksFirst
<1>4. CASE \/ BeginFails \/ PingRaises \/ PausePulse \/ SendFails \/ Crash \/ UNCHANGED vars
           \/ Settle /\ ~Apologise
  <2>1. UNCHANGED <<turnVars, yielded>>
    BY <1>4 DEF BeginFails, PingRaises, Settle, PausePulse, SendFails, Crash, vars, turnVars,
                Finish, CommitCompleted, CommitFailed, CommitRaises, Consolidate,
                ConsolidateRaises
  <2>2. /\ pc' \in {"chat", "call", "execute"} => pc' = pc
        /\ Place' \in {"screen", "begin"} => Place \in {"screen", "begin"}
        /\ Place' = "execute" => Place = "execute"
        /\ speech' = speech \/ speech' = NoSpeech
    BY <1>4 DEF BeginFails, PingRaises, Settle, PausePulse, SendFails, Crash, vars, Place,
                Finish, CommitCompleted, CommitFailed, CommitRaises, Consolidate,
                ConsolidateRaises
  <2> QED
    BY <1>0, <1>1, <2>1, <2>2
<1>5. CASE ChatCalls
  <2>1. /\ AcksFirst(pending') /\ round' = round + 1
        /\ pc = "chat" /\ pc' = "call" /\ Place' = "call" /\ speech' = NoSpeech
        /\ UNCHANGED <<acked, executed, yielded>>
    BY <1>0, <1>5, ChatCallsEffect DEF ChatCalls, Place, PlaceInv, Places
  <2>2. /\ \A k \in DOMAIN executed : executed[k].round \in Nat
        /\ \A i \in DOMAIN yielded : yielded[i].round \in Nat
    BY RoundsAreNat
  <2> QED
    BY <1>0, <2>1, <2>2 DEF PingInv, Yielded, AnnouncedInv, NoAck
<1>6. CASE ChatText \/ GiveUp \/ ChatFails
  <2>1. /\ pc = "chat" /\ pc' \in {"speak", "close"} /\ Place' \in {"finish", "close"}
        /\ speech'.kind # "fallback" /\ round' \in {round, round + 1}
        /\ UNCHANGED <<acked, executed, yielded, pending>>
    <3>1. CASE ChatText \/ GiveUp
      BY <3>1, EndWithEffect DEF ChatText, GiveUp
    <3>2. CASE ChatFails
      BY <1>0, <3>2 DEF ChatFails, Place, PlaceInv, Places
    <3> QED
      BY <1>6, <3>1, <3>2
  <2>2. /\ \A k \in DOMAIN executed : executed[k].round \in Nat
        /\ \A i \in DOMAIN yielded : yielded[i].round \in Nat
    BY RoundsAreNat
  <2>3. pending = <<>>
    BY <1>0, <2>1 DEF PlaceInv, Place
  <2> QED
    BY <1>0, <2>1, <2>2, <2>3 DEF PingInv, Yielded, AnnouncedInv, NoAck, AcksFirst
<1>7. CASE Ping
  <2>1. /\ pc = "call" /\ acked' = TRUE /\ pending # <<>>
        /\ UNCHANGED <<round, pending, executed, yielded>>
    BY <1>0, <1>7 DEF Ping, PlaceInv, Place
  <2>2. \E kind \in {"ack", "fallback"}, c \in 0..MaxChunks :
          /\ Yield(kind, c, "execute")
          /\ kind = "fallback" => Head(pending).name = "spawn" /\ ~acked
    BY <1>7, ChunkBounds DEF Ping, NeedsPing
  <2>3. /\ pc' = "speak" /\ Place' = "execute"
        /\ speech'.kind = "fallback" => Head(pending).name = "spawn" /\ ~acked
    BY <2>2, YieldType, SpeechTypes DEF Kinds, Places
  <2>4. Head(pending).name = "spawn" => NoAck(pending)
    BY <1>0, <2>1, TailKeepsOrder DEF PingInv
  <2> QED
    BY <2>1, <2>3, <2>4 DEF PingInv, Yielded, AnnouncedInv, NoAck, AcksFirst
<1>8. CASE Execute
  <2> DEFINE call == Head(pending)
             x == [name |-> call.name, round |-> round]
  <2>1. /\ call \in Call /\ pending # <<>> /\ pending' = Tail(pending)
        /\ executed' = Append(executed, x) /\ x \in Executed
        /\ pc \in {"call", "execute"} /\ UNCHANGED speech
        /\ pc' \in {"chat", "call"}
    BY <1>8, ExecuteEffect
  <2>2. /\ UNCHANGED <<round, acked, yielded>>
        /\ acked \/ call.name = "other"
    <3>1. pc = "execute" \/ ~NeedsPing(call)
      BY <1>8 DEF Execute
    <3>2. pc = "execute" => acked
      BY DEF PingInv, Place
    <3> QED
      BY <1>8, <2>1, <3>1, <3>2 DEF Execute, NeedsPing, Call, ToolNames
  <2>3. /\ AcksFirst(pending')
        /\ NoAck(pending) => NoAck(pending') /\ call.name # "ack"
    BY <1>0, <2>1, TailKeepsOrder DEF PingInv
  <2>4. x.name = call.name /\ x.round = round
    OBVIOUS
  <2>5. Place' = pc' /\ speech.kind # "fallback"
    BY <1>0, <2>1 DEF Place, PlaceInv, Places
  <2> HIDE DEF x, call
  <2>6. /\ DOMAIN executed' = 1..(Len(executed) + 1) /\ DOMAIN executed = 1..Len(executed)
        /\ Len(executed) \in Nat
        /\ \A k \in 1..Len(executed) : executed'[k] = executed[k]
        /\ executed'[Len(executed) + 1] = x
    BY <1>0, <2>1, AppendProperties, LenProperties
  <2>7. \A k \in DOMAIN executed' : \/ k \in DOMAIN executed /\ executed'[k] = executed[k]
                                   \/ executed'[k] = x
    BY <2>6
  <2>8. \A i \in DOMAIN yielded : yielded[i].round \in Nat
    BY RoundsAreNat
  <2>9. acked => Yielded(Pings) # {}
    BY <2>1 DEF PingInv
  <2>10. \A kinds : Yielded(kinds)' = Yielded(kinds)
    BY <2>2 DEF Yielded
  <2>11. AnnouncedInv'
    <3>1. Yielded(Pings) = Yielded({"ack", "fallback"})
      BY DEF Pings
    <3>2. \A i \in Yielded({"fallback"}), k \in DOMAIN executed' :
            executed'[k].name = "ack" => executed'[k].round > yielded[i].round
      <4> SUFFICES ASSUME NEW i \in Yielded({"fallback"}), NEW k \in DOMAIN executed',
                          executed'[k].name = "ack"
                   PROVE  executed'[k].round > yielded[i].round
        OBVIOUS
      <4>1. CASE k \in DOMAIN executed /\ executed'[k] = executed[k]
        BY <4>1 DEF PingInv, AnnouncedInv
      <4>2. CASE executed'[k] = x
        <5>1. ~NoAck(pending) /\ i \in DOMAIN yielded
          BY <2>3, <2>4, <4>2 DEF Yielded
        <5>2. yielded[i].round # round /\ yielded[i].round <= round
          BY <5>1 DEF PingInv
        <5> QED
          BY <1>0, <2>4, <2>8, <4>2, <5>1, <5>2
      <4> QED
        BY <2>7, <4>1, <4>2
    <3>3. (\E k \in DOMAIN executed' : executed'[k].name = "spawn") => Yielded(Pings) # {}
      <4> SUFFICES ASSUME NEW k \in DOMAIN executed', executed'[k].name = "spawn"
                   PROVE  Yielded(Pings) # {}
        OBVIOUS
      <4>1. CASE k \in DOMAIN executed /\ executed'[k] = executed[k]
        BY <3>1, <4>1 DEF PingInv, AnnouncedInv
      <4>2. CASE executed'[k] = x
        BY <2>2, <2>4, <2>9, <4>2
      <4> QED
        BY <2>7, <4>1, <4>2
    <3> QED
      BY <2>2, <2>10, <3>1, <3>2, <3>3 DEF AnnouncedInv
  <2>12. ~acked => NoAck(executed')
    BY <2>2, <2>4, <2>7 DEF PingInv, NoAck
  <2>13. \A k \in DOMAIN executed' : executed'[k].round <= round
    BY <1>0, <2>4, <2>7 DEF PingInv
  <2>14. \A i \in Yielded({"fallback"}) : yielded[i].round = round => NoAck(pending')
    BY <2>3 DEF PingInv
  <2> QED
    BY <2>1, <2>2, <2>3, <2>5, <2>9, <2>10, <2>11, <2>12, <2>13, <2>14 DEF PingInv
<1>9. ASSUME NEW x \in Text, yielded' = Append(yielded, x), x.round = round, UNCHANGED turnVars,
             Place' = "execute" => acked,
             Place' \notin {"screen", "begin"}, speech'.kind # "fallback",
             pc' \in {"chat", "call", "execute"} => x.kind \in Pings,
             x.kind = "fallback" => NoAck(pending) /\ NoAck(executed)
      PROVE  PingInv'
  <2>1. \A kinds : Yielded(kinds)' = IF x.kind \in kinds THEN Yielded(kinds) \cup {Len(yielded) + 1}
                                                      ELSE Yielded(kinds)
    BY <1>0, <1>9, YieldedGrows
  <2>2. /\ DOMAIN yielded' = 1..(Len(yielded) + 1) /\ DOMAIN yielded = 1..Len(yielded)
        /\ Len(yielded) \in Nat
        /\ \A i \in 1..Len(yielded) : yielded'[i] = yielded[i]
        /\ yielded'[Len(yielded) + 1] = x
    BY <1>0, <1>9, AppendProperties, LenProperties
  <2>3. \A i \in DOMAIN yielded' : \/ i \in DOMAIN yielded /\ yielded'[i] = yielded[i]
                                   \/ yielded'[i] = x
    BY <2>2
  <2>4. \A i \in Yielded({"fallback"})' : \/ i \in Yielded({"fallback"}) /\ yielded'[i] = yielded[i]
                                          \/ yielded'[i] = x /\ x.kind = "fallback"
    BY <2>1, <2>2 DEF Yielded
  <2>5. Yielded(Pings) \subseteq Yielded(Pings)'
    BY <2>1
  <2>6. AnnouncedInv'
    <3>1. Yielded(Pings) = Yielded({"ack", "fallback"}) /\ Yielded(Pings)' = Yielded({"ack", "fallback"})'
      BY DEF Pings
    <3>2. executed' = executed
      BY <1>9 DEF turnVars
    <3>3. \A i \in Yielded({"fallback"})', k \in DOMAIN executed :
            executed[k].name = "ack" => executed[k].round > yielded'[i].round
      BY <1>9, <2>4 DEF PingInv, AnnouncedInv, NoAck
    <3>4. (\E k \in DOMAIN executed : executed[k].name = "spawn") => Yielded(Pings)' # {}
      BY <2>5, <3>1 DEF PingInv, AnnouncedInv
    <3> QED
      BY <3>1, <3>2, <3>3, <3>4 DEF AnnouncedInv
  <2>7. \A i \in DOMAIN yielded' : yielded'[i].round <= round
    BY <1>0, <1>9, <2>3 DEF PingInv
  <2>8. \A i \in Yielded({"fallback"})' : yielded'[i].round = round => NoAck(pending)
    BY <1>9, <2>4 DEF PingInv
  <2>9. pc' \in {"chat", "call", "execute"} => Yielded(Pings)' # {}
    BY <1>9, <2>1
  <2> QED
    BY <1>9, <2>6, <2>7, <2>8, <2>9 DEF PingInv, turnVars
<1>10. CASE (SkipBlank \/ SendChunk) /\ Resume
  <2>1. pc \in {"speak", "send"} /\ UNCHANGED turnVars
    BY <1>10 DEF SkipBlank, SendChunk
  <2>2. /\ speech \in Speech /\ pc' = speech.next /\ pc' \in {"done", "execute", "finish"}
        /\ Place' = Place /\ speech' = NoSpeech /\ Place = speech.next
    BY <1>10, <2>1, ResumeEffect DEF Place
  <2>3. PICK b \in BOOLEAN :
          yielded' = Append(yielded, [kind |-> speech.kind, round |-> round, sent |-> b])
    BY <1>10, <2>1, ResumeEffect
  <2> DEFINE x == [kind |-> speech.kind, round |-> round, sent |-> b]
  <2>4. x \in Text /\ x.kind = speech.kind /\ x.round = round
    BY <2>2 DEF Text, Speech, TypeInv, TypeOK
  <2>5. yielded' = Append(yielded, x)
    BY <2>3
  <2> HIDE DEF x
  <2>6. speech.next = "execute" => speech.kind \in Pings
    BY <2>2 DEF Speech, Pings
  <2> QED
    BY <1>0, <1>9, <2>1, <2>2, <2>4, <2>5, <2>6 DEF PingInv
<1>11. CASE Apologise
  <2>1. /\ UNCHANGED turnVars /\ pc' = "done" /\ Place' = "done" /\ speech' = NoSpeech
    BY <1>0, <1>11 DEF Apologise, Place, PlaceInv, Places
  <2>2. CASE UNCHANGED yielded
    BY <1>0, <1>1, <2>1, <2>2
  <2>3. CASE yielded' = Append(yielded, [kind |-> "error", round |-> round, sent |-> TRUE])
    <3> DEFINE x == [kind |-> "error", round |-> round, sent |-> TRUE]
    <3>1. x \in Text /\ x.kind = "error" /\ yielded' = Append(yielded, x) /\ x.round = round
      BY <2>3 DEF Text, Kinds, TypeInv, TypeOK
    <3> HIDE DEF x
    <3> QED
      BY <1>0, <1>9, <2>1, <3>1
  <2> QED
    BY <1>11, <2>2, <2>3 DEF Apologise
<1>12. CASE SendChunk /\ speech.chunks > 1
  <2>1. /\ UNCHANGED <<turnVars, yielded, pc>> /\ pc = "send"
        /\ speech' = [speech EXCEPT !.chunks = @ - 1] /\ speech \in Speech
    BY <1>0, <1>12 DEF SendChunk, PlaceInv
  <2>2. speech'.kind = speech.kind /\ speech'.next = speech.next
    BY <2>1 DEF Speech
  <2>3. Place' = Place
    BY <2>1, <2>2 DEF Place
  <2> QED
    BY <1>1, <2>1, <2>2, <2>3
<1> QED
  BY <1>2, <1>3, <1>4, <1>5, <1>6, <1>7, <1>8, <1>10, <1>11, <1>12
     DEF Next, Step, Loop, Speak, Settle, SkipBlank, SendChunk

\* A delegation runs only after the model's own acknowledgement or the
\* fallback went out in full, or after an acknowledgement of which formatting
\* left nothing; and the fallback is never followed by an acknowledgement of
\* the same or an earlier group, however many groups the model asks for and
\* in whatever order.
THEOREM SpawnIsAlwaysAnnounced == Spec => []SpawnIsAnnounced
<1>1. PingInv /\ SentInv => SpawnIsAnnounced
  <2> SUFFICES ASSUME PingInv, SentInv PROVE SpawnIsAnnounced
    OBVIOUS
  <2>1. AnnouncedInv
    BY DEF PingInv
  <2>2. Yielded({"ack", "fallback"}) # {}
          => Said({"ack", "fallback"}) # {} \/ Blank({"ack"}) # {}
    BY DEF SentInv, Yielded, Said, Blank
  <2>3. Said({"fallback"}) \subseteq Yielded({"fallback"})
    BY DEF Said
  <2> QED
    BY <2>1, <2>2, <2>3 DEF AnnouncedInv, SpawnIsAnnounced
<1> QED
  BY <1>1, PingInit, PingNext, AlwaysTypeInv, AlwaysSentInv, PTL DEF Spec

-----------------------------------------------------------------------------
(* The history the model is shown, and what is stored of it. *)

\* Message a of the history h after this turn's user message and the messages
\* p were appended, had nothing been trimmed, and how many there are.
Told(h, p, a) == IF a <= Len(h) THEN h[a]
                 ELSE IF a = Len(h) + 1 THEN UserMessage(Me)
                 ELSE p[a - (Len(h) + 1)]

Total(h, p) == Len(h) + 1 + Len(p)

\* w is an end of it, at least as long as a trimmed one.
IsEnd(h, w, p) ==
  /\ Len(w) \in Kept(Total(h, p))..Total(h, p)
  /\ \A i \in 1..Len(w) : w[i] = Told(h, p, i + (Total(h, p) - Len(w)))

\* The working copy is an end of it; a finished turn has trimmed it.
WorkInv ==
  row.status # "absent" =>
    /\ IsEnd(prior, working, produced)
    /\ Place \in {"finish", "commit"} => Len(working) = Kept(Total(prior, produced))

\* Every result in s follows the message that asked for it.
ResultsAsked(s) ==
  \A j \in DOMAIN s : s[j].role = "tool" => Asked(s, j)

\* Every call the turn asked for is answered or still to run, and every
\* result and every call still to run was asked for.
GroupInv ==
  /\ row.status = "absent" => produced = <<>>
  /\ \A i \in DOMAIN produced :
       produced[i].turn = Me /\ produced[i].role \in {"calls", "tool", "text"}
  /\ \A i \in DOMAIN produced : produced[i].role = "calls" =>
       \A k \in 1..produced[i].n :
         \/ \E j \in i+1..Len(produced) :
              produced[j] = ToolMessage(produced[i].turn, produced[i].group, k)
         \/ /\ produced[i].group = round
            /\ \E p \in DOMAIN pending : pending[p].n = k
  /\ \A p \in DOMAIN pending : \E i \in DOMAIN produced :
       /\ produced[i].role = "calls" /\ produced[i].turn = Me
       /\ produced[i].group = round /\ pending[p].n \in 1..produced[i].n
  /\ ResultsAsked(produced)

\* One trimming of everything the turn appended is what is stored of it.
StoredInv ==
  /\ row.status = "processing" => row.msgs = <<UserMessage(Me)>>
  /\ row.status = "completed" => row.msgs = <<UserMessage(Me)>> \o Trim(produced)

\* What a sequence is after a message is appended.
LEMMA Appended ==
  ASSUME NEW S, NEW s \in Seq(S), NEW x \in S, NEW t, t = Append(s, x)
  PROVE  /\ t \in Seq(S) /\ Len(s) \in Nat /\ Len(t) = Len(s) + 1
         /\ DOMAIN s = 1..Len(s) /\ DOMAIN t = 1..(Len(s) + 1)
         /\ \A i \in 1..Len(s) : t[i] = s[i]
         /\ t[Len(s) + 1] = x
         /\ \A i \in DOMAIN t : i \in DOMAIN s \/ i = Len(s) + 1
BY AppendProperties, LenProperties

LEMMA GroupInit == Init => GroupInv
BY DEF Init, GroupInv, ResultsAsked

\* The steps that add no message; a round that fails leaves no call behind.
LEMMA GroupFrame ==
  ASSUME GroupInv, UNCHANGED <<produced, pending>>, round' = round \/ pending = <<>>,
         row'.status = "absent" => row.status = "absent"
  PROVE  GroupInv'
BY DEF GroupInv, ResultsAsked

LEMMA ResultsAskedGrows ==
  ASSUME NEW s \in Seq(Message), NEW x \in Message, NEW t, t = Append(s, x), ResultsAsked(s),
         x.role = "tool" => \E i \in DOMAIN s : /\ s[i].role = "calls"
                                               /\ s[i].turn = x.turn /\ s[i].group = x.group
                                               /\ x.n \in 1..s[i].n
  PROVE  ResultsAsked(t)
<1>1. /\ Len(s) \in Nat /\ DOMAIN s = 1..Len(s) /\ DOMAIN t = 1..(Len(s) + 1)
      /\ \A i \in 1..Len(s) : t[i] = s[i]
      /\ t[Len(s) + 1] = x
  BY Appended
<1> SUFFICES ASSUME NEW j \in DOMAIN t, t[j].role = "tool"
             PROVE  \E i \in 1..j-1 : /\ t[i].role = "calls"
                                      /\ t[i].turn = t[j].turn /\ t[i].group = t[j].group
                                      /\ t[j].n \in 1..t[i].n
  BY DEF ResultsAsked, Asked
<1>2. CASE j \in 1..Len(s)
  <2>1. PICK i \in 1..j-1 : /\ s[i].role = "calls"
                            /\ s[i].turn = s[j].turn /\ s[i].group = s[j].group
                            /\ s[j].n \in 1..s[i].n
    BY <1>1, <1>2 DEF ResultsAsked, Asked
  <2>2. i \in 1..Len(s)
    BY <1>1, <1>2
  <2> QED
    BY <1>1, <1>2, <2>1, <2>2
<1>3. CASE j = Len(s) + 1
  <2>1. PICK i \in DOMAIN s : /\ s[i].role = "calls"
                              /\ s[i].turn = x.turn /\ s[i].group = x.group
                              /\ x.n \in 1..s[i].n
    BY <1>1, <1>3
  <2>2. i \in 1..Len(s) /\ i \in 1..j-1
    BY <1>1, <1>3
  <2> QED
    BY <1>1, <1>3, <2>1, <2>2
<1> QED
  BY <1>1, <1>2, <1>3

LEMMA GroupNext == AnswerInv /\ GroupInv /\ [Next]_vars => GroupInv'
<1> SUFFICES ASSUME AnswerInv, GroupInv, [Next]_vars PROVE GroupInv'
  OBVIOUS
<1>0. /\ TypeInv /\ RowInv /\ PlaceInv
      /\ produced \in Seq(Message) /\ pending \in Seq(Call)
  BY DEF AnswerInv, TypeInv, TypeOK, Call
<1>1. CASE ChatCalls
  <2>1. PICK k \in 1..MaxCalls :
          /\ CallsMessage(Me, round + 1, k) \in Message
          /\ produced' = Append(produced, CallsMessage(Me, round + 1, k))
          /\ \A p \in DOMAIN pending' : pending'[p].n \in 1..k
          /\ \A i \in 1..k : \E p \in DOMAIN pending' : pending'[p].n = i
          /\ round' = round + 1
    BY <1>0, <1>1, ChatCallsEffect
  <2> DEFINE x == CallsMessage(Me, round + 1, k)
  <2>2. x.role = "calls" /\ x.turn = Me /\ x.group = round' /\ x.n = k /\ x \in Message
    BY <2>1 DEF CallsMessage
  <2>3. produced' = Append(produced, x)
    BY <2>1
  <2> HIDE DEF x
  <2>4. /\ Len(produced) \in Nat /\ Len(produced') = Len(produced) + 1
        /\ DOMAIN produced = 1..Len(produced) /\ DOMAIN produced' = 1..(Len(produced) + 1)
        /\ \A i \in 1..Len(produced) : produced'[i] = produced[i]
        /\ produced'[Len(produced) + 1] = x
        /\ \A i \in DOMAIN produced' : i \in DOMAIN produced \/ i = Len(produced) + 1
    BY <1>0, <2>2, <2>3, Appended
  <2>5. pc = "chat" /\ row.status = "processing" /\ row' = row /\ pending = <<>>
    BY <1>0, <1>1 DEF ChatCalls, RowInv, PlaceInv, Place, dbVars
  <2>6. \A i \in DOMAIN produced' :
          produced'[i].turn = Me /\ produced'[i].role \in {"calls", "tool", "text"}
    BY <2>2, <2>4 DEF GroupInv
  <2>7. ASSUME NEW i \in DOMAIN produced', produced'[i].role = "calls",
               NEW n \in 1..produced'[i].n
        PROVE  \/ \E j \in i+1..Len(produced') :
                    produced'[j] = ToolMessage(produced'[i].turn, produced'[i].group, n)
               \/ /\ produced'[i].group = round'
                  /\ \E p \in DOMAIN pending' : pending'[p].n = n
    <3>1. CASE i \in DOMAIN produced
      <4>1. PICK j \in i+1..Len(produced) :
              produced[j] = ToolMessage(produced[i].turn, produced[i].group, n)
        BY <2>4, <2>5, <2>7, <3>1 DEF GroupInv
      <4>2. j \in 1..Len(produced) /\ j \in i+1..Len(produced')
        BY <2>4, <3>1
      <4> QED
        BY <2>4, <3>1, <4>1, <4>2
    <3>2. CASE i = Len(produced) + 1
      BY <2>1, <2>2, <2>4, <2>7, <3>2
    <3> QED
      BY <2>4, <3>1, <3>2
  <2>8. \A p \in DOMAIN pending' : \E i \in DOMAIN produced' :
          /\ produced'[i].role = "calls" /\ produced'[i].turn = Me
          /\ produced'[i].group = round' /\ pending'[p].n \in 1..produced'[i].n
    <3>1. Len(produced) + 1 \in DOMAIN produced'
      BY <2>4
    <3> QED
      BY <2>1, <2>2, <2>4, <3>1
  <2>9. ResultsAsked(produced')
    BY <1>0, <2>2, <2>3, ResultsAskedGrows DEF GroupInv
  <2> QED
    BY <2>5, <2>6, <2>7, <2>8, <2>9 DEF GroupInv
<1>2. CASE ChatText \/ GiveUp
  <2> DEFINE x == TextMessage(Me)
  <2>1. /\ produced' = Append(produced, x) /\ pc = "chat"
        /\ UNCHANGED <<pending, row>>
    BY <1>0, <1>2, EndWithEffect DEF dbVars
  <2>2. x.role = "text" /\ x.turn = Me /\ x \in Message
    BY MessageTypes DEF TextMessage
  <2> HIDE DEF x
  <2>4. /\ Len(produced) \in Nat /\ Len(produced') = Len(produced) + 1
        /\ DOMAIN produced = 1..Len(produced) /\ DOMAIN produced' = 1..(Len(produced) + 1)
        /\ \A i \in 1..Len(produced) : produced'[i] = produced[i]
        /\ produced'[Len(produced) + 1] = x
        /\ \A i \in DOMAIN produced' : i \in DOMAIN produced \/ i = Len(produced) + 1
    BY <1>0, <2>1, <2>2, Appended
  <2>5. row.status = "processing" /\ pending = <<>>
    BY <1>0, <2>1 DEF RowInv, PlaceInv, Place
  <2>6. \A i \in DOMAIN produced' :
          produced'[i].turn = Me /\ produced'[i].role \in {"calls", "tool", "text"}
    BY <2>2, <2>4 DEF GroupInv
  <2>7. ASSUME NEW i \in DOMAIN produced', produced'[i].role = "calls",
               NEW n \in 1..produced'[i].n
        PROVE  \E j \in i+1..Len(produced') :
                 produced'[j] = ToolMessage(produced'[i].turn, produced'[i].group, n)
    <3>1. i \in DOMAIN produced
      BY <2>2, <2>4, <2>7
    <3>2. PICK j \in i+1..Len(produced) :
            produced[j] = ToolMessage(produced[i].turn, produced[i].group, n)
      BY <2>4, <2>5, <2>7, <3>1 DEF GroupInv
    <3>3. j \in 1..Len(produced) /\ j \in i+1..Len(produced')
      BY <2>4, <3>1
    <3> QED
      BY <2>4, <3>1, <3>2, <3>3
  <2>8. ResultsAsked(produced')
    BY <1>0, <2>1, <2>2, ResultsAskedGrows DEF GroupInv
  <2> QED
    BY <2>1, <2>5, <2>6, <2>7, <2>8 DEF GroupInv
<1>3. CASE Execute
  <2> DEFINE call == Head(pending)
             x == ToolMessage(Me, round, call.n)
  <2>1. /\ call \in Call /\ pending # <<>> /\ pending' = Tail(pending)
        /\ produced' = Append(produced, x) /\ x \in Message
        /\ pc \in {"call", "execute"} /\ UNCHANGED <<round, row>>
    BY <1>0, <1>3, ExecuteEffect DEF Execute, dbVars
  <2>2. x.role = "tool" /\ x.turn = Me /\ x.group = round /\ x.n = call.n
    BY DEF ToolMessage
  <2>3. /\ call = pending[1] /\ Len(pending) \in Nat /\ Len(pending) >= 1
        /\ DOMAIN pending = 1..Len(pending) /\ DOMAIN pending' = 1..(Len(pending) - 1)
        /\ \A p \in DOMAIN pending' : p + 1 \in DOMAIN pending /\ pending'[p] = pending[p + 1]
    BY <1>0, <2>1, HeadTailProperties, LenProperties, EmptySeq
  <2>4. /\ Len(produced) \in Nat /\ Len(produced') = Len(produced) + 1
        /\ DOMAIN produced = 1..Len(produced) /\ DOMAIN produced' = 1..(Len(produced) + 1)
        /\ \A i \in 1..Len(produced) : produced'[i] = produced[i]
        /\ produced'[Len(produced) + 1] = x
        /\ \A i \in DOMAIN produced' : i \in DOMAIN produced \/ i = Len(produced) + 1
    <3> HIDE DEF x
    <3> QED
      BY <1>0, <2>1, Appended
  <2> HIDE DEF call
  <2>5. row.status = "processing"
    BY <1>0, <2>1 DEF RowInv, Place
  <2>6. \A i \in DOMAIN produced' :
          produced'[i].turn = Me /\ produced'[i].role \in {"calls", "tool", "text"}
    <3> HIDE DEF x
    <3> QED
      BY <2>2, <2>4 DEF GroupInv
  <2>7. ASSUME NEW i \in DOMAIN produced', produced'[i].role = "calls",
               NEW n \in 1..produced'[i].n
        PROVE  \/ \E j \in i+1..Len(produced') :
                    produced'[j] = ToolMessage(produced'[i].turn, produced'[i].group, n)
               \/ /\ produced'[i].group = round'
                  /\ \E p \in DOMAIN pending' : pending'[p].n = n
    <3>1. i \in DOMAIN produced /\ produced'[i] = produced[i]
      <4> HIDE DEF x
      <4> QED
        BY <2>2, <2>4, <2>7
    <3>2. CASE \E j \in i+1..Len(produced) :
                 produced[j] = ToolMessage(produced[i].turn, produced[i].group, n)
      <4>1. PICK j \in i+1..Len(produced) :
              produced[j] = ToolMessage(produced[i].turn, produced[i].group, n)
        BY <3>2
      <4>2. j \in 1..Len(produced) /\ j \in i+1..Len(produced')
        BY <2>4, <3>1
      <4> QED
        BY <2>4, <3>1, <4>1, <4>2
    <3>3. CASE produced[i].group = round /\ \E p \in DOMAIN pending : pending[p].n = n
      <4>1. PICK p \in DOMAIN pending : pending[p].n = n
        BY <3>3
      <4>2. CASE p = 1
        <5>1. produced[i].turn = Me
          BY <3>1 DEF GroupInv
        <5>2. x = ToolMessage(produced[i].turn, produced[i].group, n)
          BY <2>3, <3>3, <4>1, <4>2, <5>1
        <5>3. Len(produced) + 1 \in i+1..Len(produced')
          BY <2>4, <3>1
        <5> QED
          BY <2>4, <3>1, <5>2, <5>3
      <4>3. CASE p # 1
        <5>1. p - 1 \in DOMAIN pending' /\ (p - 1) + 1 = p
          BY <2>3, <4>3
        <5>2. pending'[p - 1] = pending[p]
          BY <2>3, <5>1
        <5> QED
          BY <2>1, <3>1, <3>3, <4>1, <5>1, <5>2
      <4> QED
        BY <4>2, <4>3
    <3> QED
      BY <2>7, <3>1, <3>2, <3>3 DEF GroupInv
  <2>8. \A p \in DOMAIN pending' : \E i \in DOMAIN produced' :
          /\ produced'[i].role = "calls" /\ produced'[i].turn = Me
          /\ produced'[i].group = round' /\ pending'[p].n \in 1..produced'[i].n
    <3> SUFFICES ASSUME NEW p \in DOMAIN pending'
                 PROVE  \E i \in DOMAIN produced' :
                          /\ produced'[i].role = "calls" /\ produced'[i].turn = Me
                          /\ produced'[i].group = round' /\ pending'[p].n \in 1..produced'[i].n
      OBVIOUS
    <3>1. PICK i \in DOMAIN produced :
            /\ produced[i].role = "calls" /\ produced[i].turn = Me
            /\ produced[i].group = round /\ pending[p + 1].n \in 1..produced[i].n
      BY <2>3 DEF GroupInv
    <3>2. i \in DOMAIN produced' /\ produced'[i] = produced[i]
      BY <2>4
    <3> QED
      BY <2>1, <2>3, <3>1, <3>2
  <2>9. ResultsAsked(produced')
    <3>1. \E i \in DOMAIN produced : /\ produced[i].role = "calls"
                                     /\ produced[i].turn = x.turn /\ produced[i].group = x.group
                                     /\ x.n \in 1..produced[i].n
      <4> HIDE DEF x
      <4>1. 1 \in DOMAIN pending
        BY <2>3
      <4> QED
        BY <2>2, <2>3, <4>1 DEF GroupInv
    <3>2. ResultsAsked(produced)
      BY DEF GroupInv
    <3> HIDE DEF x
    <3> QED
      BY <1>0, <2>1, <3>1, <3>2, ResultsAskedGrows
  <2> QED
    BY <2>1, <2>5, <2>6, <2>7, <2>8, <2>9 DEF GroupInv
<1>4. CASE ChatFails
  <2>1. UNCHANGED <<produced, pending, row>> /\ pending = <<>>
    BY <1>0, <1>4 DEF ChatFails, dbVars, PlaceInv, Place
  <2> QED
    BY <2>1, GroupFrame
<1>5. CASE Begin \/ CommitCompleted \/ CommitFailed
  <2>1. UNCHANGED <<produced, pending, round>> /\ row'.status # "absent"
    BY <1>5 DEF Begin, CommitCompleted, CommitFailed, Store, turnVars
  <2> QED
    BY <2>1, GroupFrame
<1>6. CASE \/ Screen \/ BeginFails \/ Ping \/ PingRaises \/ Speak \/ Finish \/ CommitRaises
           \/ Consolidate \/ ConsolidateRaises \/ Apologise \/ Crash \/ UNCHANGED vars
  <2>1. UNCHANGED <<produced, pending, round, row>>
    BY <1>6 DEF Screen, Refuse, DownloadFails, DropUnusable, Admit, BeginFails, Ping, PingRaises,
       Speak, SkipBlank, PausePulse, SendChunk, SendFails, Finish, CommitRaises, Consolidate,
       ConsolidateRaises, Apologise, Crash, vars, turnVars, dbVars
  <2> QED
    BY <2>1, GroupFrame
<1> QED
  BY <1>1, <1>2, <1>3, <1>4, <1>5, <1>6 DEF Next, Step, Loop, Settle

LEMMA WorkInit == Init => WorkInv /\ StoredInv
BY DEF Init, WorkInv, StoredInv

LEMMA TotalType ==
  ASSUME NEW h \in Seq(Message), NEW p \in Seq(Message)
  PROVE  Total(h, p) \in Nat /\ Total(h, p) = Len(h) + 1 + Len(p) /\ Len(h) \in Nat
         /\ Len(p) \in Nat
BY LenProperties DEF Total

\* A message is appended.
LEMMA EndAppends ==
  ASSUME NEW h \in Seq(Message), NEW w \in Seq(Message), NEW p \in Seq(Message), NEW x \in Message, IsEnd(h, w, p)
  PROVE  IsEnd(h, Append(w, x), Append(p, x))
<1> DEFINE v == Append(w, x)
           q == Append(p, x)
<1>1. /\ v \in Seq(Message) /\ Len(v) = Len(w) + 1 /\ Len(w) \in Nat
      /\ \A i \in 1..Len(w) : v[i] = w[i]
      /\ v[Len(w) + 1] = x
  BY Appended
<1>2. /\ q \in Seq(Message) /\ Len(q) = Len(p) + 1 /\ Len(p) \in Nat
      /\ \A i \in 1..Len(p) : q[i] = p[i]
      /\ q[Len(p) + 1] = x
  BY Appended
<1> HIDE DEF v, q
<1> DEFINE n == Total(h, p)
           m == Total(h, q)
<1>3. n \in Nat /\ n = Len(h) + 1 + Len(p) /\ m = n + 1 /\ Len(h) \in Nat
  <2>1. n \in Nat /\ n = Len(h) + 1 + Len(p) /\ Len(h) \in Nat
    BY TotalType
  <2>2. m = Len(h) + 1 + Len(q)
    BY <1>2, TotalType
  <2> HIDE DEF n, m
  <2> QED
    BY <1>2, <2>1, <2>2
<1>4. /\ Len(w) \in Kept(n)..n
      /\ \A i \in 1..Len(w) : w[i] = Told(h, p, i + (n - Len(w)))
  BY DEF IsEnd
<1> HIDE DEF n, m
<1>5. Kept(n) \in Nat /\ Kept(m) \in Nat /\ Kept(m) <= Kept(n) + 1
  BY <1>3, KeptBounds
<1>6. Len(v) \in Kept(m)..m
  BY <1>1, <1>3, <1>4, <1>5
<1>7. m - Len(v) = n - Len(w) /\ n - Len(w) \in Nat
  BY <1>1, <1>3, <1>4, <1>5
<1>8. ASSUME NEW i \in 1..Len(v) PROVE v[i] = Told(h, q, i + (m - Len(v)))
  <2> DEFINE a == i + (n - Len(w))
  <2>1. a \in Nat /\ a >= 1 /\ i \in Nat
    BY <1>7
  <2>2. CASE i = Len(w) + 1
    <3>1. a = Len(h) + 1 + (Len(p) + 1)
      BY <1>1, <1>3, <1>4, <1>5, <2>2
    <3> HIDE DEF a
    <3>2. ~ (a <= Len(h)) /\ a # Len(h) + 1 /\ a - (Len(h) + 1) = Len(p) + 1
      BY <1>2, <1>3, <3>1
    <3>3. Told(h, q, a) = q[Len(p) + 1]
      BY <3>2 DEF Told
    <3> QED
      BY <1>1, <1>2, <1>7, <2>2, <3>3 DEF a
  <2>3. CASE i \in 1..Len(w)
    <3>1. v[i] = Told(h, p, a) /\ a <= n
      BY <1>1, <1>3, <1>4, <1>5, <2>3
    <3> HIDE DEF a
    <3>2. CASE a > Len(h) + 1
      <4>1. a - (Len(h) + 1) \in 1..Len(p)
        BY <1>2, <1>3, <2>1, <3>1, <3>2
      <4>2. q[a - (Len(h) + 1)] = p[a - (Len(h) + 1)]
        BY <1>2, <4>1
      <4>3. ~ (a <= Len(h)) /\ a # Len(h) + 1
        BY <1>3, <2>1, <3>2
      <4>4. Told(h, q, a) = Told(h, p, a)
        BY <4>2, <4>3 DEF Told
      <4> QED
        BY <1>7, <3>1, <4>4 DEF a
    <3>3. CASE a <= Len(h) + 1
      <4>1. a <= Len(h) \/ a = Len(h) + 1
        BY <1>3, <2>1, <3>3
      <4>2. Told(h, q, a) = Told(h, p, a)
        BY <4>1 DEF Told
      <4> QED
        BY <1>7, <3>1, <4>2 DEF a
    <3> QED
      BY <1>3, <2>1, <3>2, <3>3
  <2> QED
    BY <1>1, <2>2, <2>3
<1> QED
  BY <1>6, <1>8 DEF IsEnd, v, q, n, m

\* Trimming an end leaves as much as trimming the whole would.
LEMMA EndTrims ==
  ASSUME NEW h \in Seq(Message), NEW w \in Seq(Message), NEW p \in Seq(Message), IsEnd(h, w, p)
  PROVE  IsEnd(h, Trim(w), p) /\ Len(Trim(w)) = Kept(Total(h, p))
<1> DEFINE v == Trim(w)
           n == Total(h, p)
<1>1. n \in Nat /\ Len(w) \in Nat
  BY TotalType, LenProperties
<1>2. /\ v \in Seq(Message) /\ Len(v) = Kept(Len(w))
      /\ \A i \in 1..Len(v) : v[i] = w[i + Len(w) - Kept(Len(w))]
  BY TrimProperties
<1>3. /\ Len(w) \in Kept(n)..n
      /\ \A i \in 1..Len(w) : w[i] = Told(h, p, i + (n - Len(w)))
  BY DEF IsEnd
<1> HIDE DEF v, n
<1>4. Kept(Len(w)) = Kept(n) /\ Kept(n) \in 0..n /\ Kept(Len(w)) \in 0..Len(w)
  BY <1>1, <1>3, KeptBounds
<1>5. ASSUME NEW i \in 1..Len(v) PROVE v[i] = Told(h, p, i + (n - Len(v)))
  <2>1. i + Len(w) - Kept(n) \in 1..Len(w)
    BY <1>1, <1>2, <1>4
  <2>2. (i + Len(w) - Kept(n)) + (n - Len(w)) = i + (n - Len(v))
    BY <1>1, <1>2, <1>4
  <2> QED
    BY <1>2, <1>3, <1>4, <2>1, <2>2
<1> QED
  BY <1>2, <1>4, <1>5 DEF IsEnd, v, n

LEMMA BeginEnd ==
  ASSUME TypeInv, Begin, produced = <<>>
  PROVE  IsEnd(prior, working', produced)
<1> DEFINE h == prior
           v == Append(h, UserMessage(Me))
           n == Len(h) + 1
<1>1. h \in Seq(Message) /\ working' = Trim(v)
  BY BeginType, PriorType DEF TypeInv, TypeOK
<1>2. UserMessage(Me) \in Message
  BY MessageTypes
<1> HIDE DEF h
<1>3. /\ v \in Seq(Message) /\ Len(v) = n /\ Len(h) \in Nat
      /\ \A i \in 1..Len(h) : v[i] = h[i]
      /\ v[n] = UserMessage(Me)
  BY <1>1, <1>2, Appended
<1>4. Total(h, produced) = n /\ n \in Nat
  <2>1. Len(produced) = 0
    OBVIOUS
  <2> QED
    BY <1>3, <2>1 DEF Total
<1> HIDE DEF v
<1>5. /\ Len(working') = Kept(n)
      /\ \A i \in 1..Len(working') : working'[i] = v[i + n - Kept(n)]
  BY <1>1, <1>3, TrimProperties
<1>6. Kept(n) \in 0..n
  BY <1>4, KeptBounds
<1>7. ASSUME NEW i \in 1..Len(working')
      PROVE  working'[i] = Told(h, produced, i + (n - Len(working')))
  <2> DEFINE a == i + (n - Len(working'))
  <2>1. a \in 1..n /\ a = i + n - Kept(n)
    BY <1>4, <1>5, <1>6
  <2>2. working'[i] = v[a]
    BY <1>5, <2>1
  <2> HIDE DEF a
  <2>3. CASE a <= Len(h)
    BY <1>3, <2>1, <2>2, <2>3 DEF Told, a
  <2>4. CASE a = n
    <3>1. ~ (a <= Len(h))
      BY <1>3, <2>4
    <3> QED
      BY <1>3, <2>2, <2>4, <3>1 DEF Told, a
  <2> QED
    BY <1>3, <2>1, <2>3, <2>4
<1>8. Len(working') \in Kept(n)..n
  BY <1>4, <1>5, <1>6
<1> HIDE DEF n
<1> QED
  BY <1>4, <1>7, <1>8 DEF IsEnd, h

LEMMA WorkNext == AnswerInv /\ GroupInv /\ WorkInv /\ [Next]_vars => WorkInv'
<1> SUFFICES ASSUME AnswerInv, GroupInv, WorkInv, [Next]_vars PROVE WorkInv'
  OBVIOUS
<1>0. /\ TypeInv /\ RowInv /\ PlaceInv
      /\ produced \in Seq(Message) /\ working \in Seq(Message)
      /\ prior \in Seq(Message)
  BY PriorType DEF AnswerInv, TypeInv, TypeOK
<1>00. prior' = prior
  BY InputStays
<1>1. CASE Begin
  <2>1. /\ produced = <<>> /\ produced' = produced /\ pc' = "chat" /\ Place' = "chat"
    BY <1>0, <1>1 DEF Begin, RowInv, Place, GroupInv
  <2> QED
    BY <1>0, <1>00, <1>1, <2>1, BeginEnd DEF WorkInv
<1>2. CASE ChatCalls
  <2>1. PICK x \in Message : working' = Append(working, x) /\ produced' = Append(produced, x)
    BY <1>0, <1>2, ChatCallsEffect
  <2>2. row.status = "processing" /\ row' = row /\ pc' = "call" /\ Place' = "call"
    BY <1>0, <1>2 DEF ChatCalls, RowInv, Place, dbVars
  <2>3. IsEnd(prior, working', produced')
    BY <1>0, <2>1, <2>2, EndAppends DEF WorkInv
  <2> QED
    BY <1>00, <2>2, <2>3 DEF WorkInv
<1>3. CASE ChatText \/ GiveUp
  <2> DEFINE x == TextMessage(Me)
  <2>1. /\ working' = Trim(Append(working, x)) /\ produced' = Append(produced, x)
        /\ pc = "chat" /\ row' = row
    BY <1>0, <1>3, EndWithEffect DEF dbVars
  <2>2. x \in Message /\ row.status = "processing"
    BY <1>0, <2>1, MessageTypes DEF RowInv, Place
  <2> HIDE DEF x
  <2>3. /\ IsEnd(prior, Append(working, x), produced')
        /\ Append(working, x) \in Seq(Message) /\ produced' \in Seq(Message)
    BY <1>0, <2>1, <2>2, EndAppends, AppendProperties DEF WorkInv
  <2>4. IsEnd(prior, working', produced') /\ Len(working') = Kept(Total(prior, produced'))
    BY <1>0, <2>1, <2>3, EndTrims
  <2> QED
    BY <1>00, <2>4 DEF WorkInv
<1>4. CASE Execute
  <2> DEFINE x == ToolMessage(Me, round, Head(pending).n)
  <2>1. /\ working' = IF pending' = <<>> THEN Trim(Append(working, x)) ELSE Append(working, x)
        /\ produced' = Append(produced, x) /\ x \in Message
        /\ pc \in {"call", "execute"} /\ pc' \in {"chat", "call"} /\ row' = row
    BY <1>0, <1>4, ExecuteEffect DEF Execute, dbVars
  <2>2. row.status = "processing" /\ Place' = pc'
    BY <1>0, <2>1 DEF RowInv, Place
  <2> HIDE DEF x
  <2>3. /\ IsEnd(prior, Append(working, x), produced')
        /\ Append(working, x) \in Seq(Message) /\ produced' \in Seq(Message)
    BY <1>0, <2>1, <2>2, EndAppends, AppendProperties DEF WorkInv
  <2>4. IsEnd(prior, working', produced')
    BY <1>0, <2>1, <2>3, EndTrims
  <2> QED
    BY <1>00, <2>1, <2>2, <2>4 DEF WorkInv
<1>5. CASE CommitCompleted \/ CommitFailed
  <2>1. /\ UNCHANGED <<working, produced>> /\ pc' \in {"consolidate", "apologise"}
        /\ Place' = pc' /\ row.status = "processing"
    BY <1>0, <1>5 DEF CommitCompleted, CommitFailed, turnVars, Place, RowInv
  <2> QED
    BY <1>00, <2>1 DEF WorkInv
<1>6. ASSUME UNCHANGED <<working, produced, row>>,
             Place' \in {"finish", "commit"} => Place \in {"finish", "commit"}
      PROVE  WorkInv'
  BY <1>00, <1>6 DEF WorkInv
<1>7. CASE \/ Screen \/ BeginFails \/ ChatFails \/ Ping \/ PingRaises
  <2>1. UNCHANGED <<working, produced, row>>
    BY <1>7 DEF Screen, Refuse, DownloadFails, DropUnusable, Admit, BeginFails, ChatFails, Ping,
                PingRaises, turnVars, dbVars
  <2>2. Place' \notin {"finish", "commit"}
    <3>1. CASE \E kind \in Kinds, c \in 0..MaxChunks, next \in {"done", "execute"} :
                 Yield(kind, c, next)
      BY <3>1 DEF Yield, Place
    <3>2. CASE pc' \in {"begin", "done", "apologise", "close"}
      BY <3>2 DEF Place
    <3> QED
      BY <1>7, <3>1, <3>2, ChunkBounds
         DEF Screen, Refuse, DownloadFails, DropUnusable, Admit, BeginFails, ChatFails, Ping,
             PingRaises, Kinds
  <2> QED
    BY <1>6, <2>1, <2>2
<1>8. CASE \/ PausePulse \/ SendFails \/ Finish \/ CommitRaises
           \/ Consolidate \/ ConsolidateRaises \/ Apologise \/ Crash \/ UNCHANGED vars
  <2>1. UNCHANGED <<working, produced, row>>
    BY <1>8 DEF PausePulse, SendFails, Finish, CommitRaises, Consolidate,
       ConsolidateRaises, Apologise, Crash, vars, turnVars, dbVars
  <2>2. Place' \in {"finish", "commit"} => Place \in {"finish", "commit"}
    BY <1>8 DEF PausePulse, SendFails, Finish, CommitRaises, Consolidate,
       ConsolidateRaises, Apologise, Crash, vars, Place
  <2> QED
    BY <1>6, <2>1, <2>2
<1>9. CASE SkipBlank \/ SendChunk
  <2>1. UNCHANGED <<working, produced, row>> /\ pc \in {"speak", "send"}
    BY <1>9 DEF SkipBlank, SendChunk, turnVars, dbVars
  <2>2. CASE Resume
    BY <1>0, <1>6, <2>1, <2>2, ResumeEffect
  <2>3. CASE SendChunk /\ speech.chunks > 1
    <3>1. /\ pc = "send" /\ pc' = pc /\ speech' = [speech EXCEPT !.chunks = @ - 1]
          /\ speech \in Speech
      BY <1>0, <2>3 DEF SendChunk, PlaceInv
    <3>2. speech'.next = speech.next
      BY <3>1 DEF Speech
    <3> QED
      BY <1>6, <2>1, <3>1, <3>2 DEF Place
  <2> QED
    BY <1>9, <2>2, <2>3 DEF SkipBlank, SendChunk
<1> QED
  BY <1>1, <1>2, <1>3, <1>4, <1>5, <1>7, <1>8, <1>9 DEF Next, Step, Loop, Speak, Settle

\* What a message of the untrimmed history is.
LEMMA ToldCases ==
  ASSUME NEW h \in Seq(Message), NEW p \in Seq(Message), NEW a \in 1..Total(h, p)
  PROVE  /\ a <= Len(h) => Told(h, p, a) = h[a]
         /\ a = Len(h) + 1 => Told(h, p, a) = UserMessage(Me)
         /\ a > Len(h) + 1 => /\ a - (Len(h) + 1) \in 1..Len(p)
                              /\ Told(h, p, a) = p[a - (Len(h) + 1)]
<1>1. Len(h) \in Nat /\ Len(p) \in Nat /\ Total(h, p) = Len(h) + 1 + Len(p)
  BY TotalType
<1>2. a <= Len(h) => Told(h, p, a) = h[a]
  BY DEF Told
<1>3. a = Len(h) + 1 => Told(h, p, a) = UserMessage(Me)
  BY <1>1 DEF Told
<1>4. ASSUME a > Len(h) + 1
      PROVE  /\ a - (Len(h) + 1) \in 1..Len(p)
             /\ Told(h, p, a) = p[a - (Len(h) + 1)]
  <2>1. a - (Len(h) + 1) \in 1..Len(p) /\ ~ (a <= Len(h)) /\ a # Len(h) + 1
    BY <1>1, <1>4
  <2> QED
    BY <2>1 DEF Told
<1> QED
  BY <1>2, <1>3, <1>4

\* What a turn has added to a trimmed history is what trimming leaves of all
\* it has added.
LEMMA OutputOfEnd ==
  ASSUME NEW h \in Seq(Message), NEW w \in Seq(Message), NEW p \in Seq(Message),
         IsEnd(h, w, p), Len(w) = Kept(Total(h, p)),
         \A i \in DOMAIN h : h[i].turn = Earlier,
         \A i \in DOMAIN p : p[i].turn = Me /\ p[i].role \in {"calls", "tool", "text"}
  PROVE  OutputOf(w, Me) = Trim(p)
<1> DEFINE n == Total(h, p)
           d == n - Len(w)
           P == Len(h) + 1
           a == IF d <= P THEN P - d + 1 ELSE 1
           I == {i \in DOMAIN w : w[i].turn = Me /\ w[i].role # "user"}
<1>1. /\ n \in Nat /\ n = P + Len(p) /\ P \in Nat /\ P >= 1 /\ Len(p) \in Nat
      /\ Len(w) \in Nat /\ DOMAIN w = 1..Len(w) /\ DOMAIN p = 1..Len(p)
  BY TotalType, LenProperties
<1>2. /\ Len(w) = Kept(n)
      /\ \A i \in 1..Len(w) : w[i] = Told(h, p, i + d)
  BY DEF IsEnd
<1>3. Kept(n) \in 0..n /\ Kept(Len(p)) \in 0..Len(p)
  BY <1>1, KeptBounds
<1>4. d \in Nat
  BY <1>1, <1>2, <1>3
<1>5. \A b \in 1..n :
        /\ b <= P - 1 => Told(h, p, b).turn = Earlier
        /\ b = P => Told(h, p, b) = UserMessage(Me)
        /\ b > P => b - P \in 1..Len(p) /\ Told(h, p, b) = p[b - P]
  <2>1. P - 1 = Len(h) /\ Len(h) \in Nat /\ DOMAIN h = 1..Len(h)
    BY LenProperties
  <2>2. \A b \in 1..n : b <= P - 1 => b \in DOMAIN h
    BY <1>1, <2>1
  <2> QED
    BY <2>1, <2>2, ToldCases
<1>6. Earlier # Me /\ UserMessage(Me).role = "user"
  BY DEF UserMessage, Me, Earlier
<1> HIDE DEF n, d, P
<1>7. I = a..Len(w)
  <2>1. ASSUME NEW i \in 1..Len(w)
        PROVE  w[i].turn = Me /\ w[i].role # "user" <=> i + d > P
    <3>1. i + d \in 1..n /\ w[i] = Told(h, p, i + d)
      BY <1>1, <1>2, <1>3, <1>4 DEF d
    <3>2. CASE i + d <= P - 1
      BY <1>1, <1>4, <1>5, <1>6, <3>1, <3>2
    <3>3. CASE i + d = P
      BY <1>1, <1>4, <1>5, <1>6, <3>1, <3>3
    <3>4. CASE i + d > P
      BY <1>1, <1>4, <1>5, <3>1, <3>4
    <3> QED
      BY <1>1, <1>4, <3>1, <3>2, <3>3, <3>4
  <2>2. \A i \in 1..Len(w) : i + d > P <=> i >= a
    BY <1>1, <1>4
  <2>3. a \in Nat /\ a >= 1
    BY <1>1, <1>4
  <2> HIDE DEF a
  <2> QED
    BY <1>1, <2>1, <2>2, <2>3
<1>8. a \in Int /\ a <= Len(w) + 1 /\ Len(w) - a + 1 = Kept(Len(p))
      /\ a + d = P + 1 + (Len(p) - Kept(Len(p)))
  <2>1. n = Len(w) + d /\ n = P + Len(p)
    BY <1>1, <1>4 DEF d
  <2>2. CASE d <= P
    <3>1. a = P - d + 1
      BY <2>2
    <3>2. Kept(Len(p)) = Len(p)
      <4>1. Len(w) = Kept(n) /\ Len(p) \in Nat /\ Len(w) \in Nat /\ n \in Nat
        BY <1>1, <1>2
      <4>2. CASE n + 1 <= MaxHistory \/ MaxHistory = 1
        BY <1>1, <2>1, <4>1, <4>2, MaxHistoryAssumption DEF Kept
      <4>3. CASE ~ (n + 1 <= MaxHistory \/ MaxHistory = 1)
        <5>1. Len(w) = MaxHistory - 1
          BY <4>1, <4>3 DEF Kept
        <5>2. Len(p) <= MaxHistory - 1
          BY <1>1, <1>4, <2>1, <2>2, <5>1
        <5>3. Len(p) + 1 <= MaxHistory
          BY <1>1, <5>2, MaxHistoryAssumption
        <5> QED
          BY <5>3 DEF Kept
      <4> QED
        BY <4>2, <4>3
    <3> HIDE DEF a
    <3> QED
      BY <1>1, <1>4, <2>1, <2>2, <3>1, <3>2
  <2>3. CASE d > P
    <3>1. a = 1
      BY <1>1, <1>4, <2>3
    <3>2. Kept(Len(p)) = Len(w)
      BY <1>1, <1>2, <1>4, <2>1, <2>3, MaxHistoryAssumption DEF Kept
    <3> HIDE DEF a
    <3>3. Len(w) \in Int /\ Len(p) \in Int /\ P \in Int /\ d \in Int
      BY <1>1, <1>4
    <3>4. a \in Int /\ a <= Len(w) + 1 /\ Len(w) - a + 1 = Kept(Len(p))
      BY <1>1, <3>1, <3>2
    <3>5. Len(w) + d = P + Len(p)
      BY <2>1
    <3>6. a + d = P + 1 + (Len(p) - Kept(Len(p)))
      BY <3>1, <3>2, <3>3, <3>5
    <3> QED
      BY <3>4, <3>6
  <2>4. d <= P \/ d > P
    BY <1>1, <1>4
  <2> HIDE DEF a
  <2> QED
    BY <2>2, <2>3, <2>4
<1>9. OutputOf(w, Me) = [k \in 1..Kept(Len(p)) |-> w[a + k - 1]]
  <2>1. OutputOf(w, Me) = Extract(w, I)
    BY DEF OutputOf
  <2> HIDE DEF a, I
  <2>2. a \in Int /\ Len(w) \in Int /\ a <= Len(w) + 1
    BY <1>1, <1>8
  <2>3. Extract(w, a..Len(w)) = [k \in 1..(Len(w) - a + 1) |-> w[a + k - 1]]
    BY <2>2, ExtractInterval
  <2> QED
    BY <1>7, <1>8, <2>1, <2>3
<1> DEFINE t == Trim(p)
<1>10. /\ t \in Seq(Message) /\ Len(t) = Kept(Len(p)) /\ DOMAIN t = 1..Len(t)
       /\ \A k \in 1..Len(t) : t[k] = p[k + Len(p) - Kept(Len(p))]
  BY TrimProperties, LenProperties
<1> HIDE DEF t, a
<1>11. ASSUME NEW k \in 1..Kept(Len(p)) PROVE w[a + k - 1] = t[k]
  <2> DEFINE i == a + k - 1
  <2>1. a >= 1 /\ a \in Int
    BY <1>1, <1>4, <1>8 DEF a
  <2>2. n = Len(w) + d
    BY <1>1, <1>4 DEF d
  <2>3. Kept(Len(p)) \in Int /\ k \in Int /\ 1 <= k /\ k <= Kept(Len(p))
    BY <1>1, <1>3
  <2>4. i \in Int /\ 1 <= i /\ i <= Len(w)
    BY <1>1, <1>8, <2>1, <2>3
  <2>5. i + d > P /\ (i + d) - P = k + Len(p) - Kept(Len(p))
    <3> DEFINE l == Len(p)
               K == Kept(Len(p))
    <3>1. /\ a + d = P + 1 + (l - K) /\ l \in Int /\ K \in Int /\ K <= l /\ P \in Int /\ d \in Int
      BY <1>1, <1>3, <1>4, <1>8
    <3> HIDE DEF l, K
    <3>2. i + d = P + k + (l - K)
      BY <2>1, <2>3, <3>1
    <3>3. i \in Int
      BY <2>4
    <3> HIDE DEF i
    <3>4. i + d > P /\ (i + d) - P = k + l - K
      BY <2>3, <3>1, <3>2, <3>3
    <3> QED
      BY <3>4 DEF l, K
  <2> HIDE DEF i
  <2>6. i \in 1..Len(w) /\ i + d \in 1..n
    BY <1>1, <1>4, <2>2, <2>4
  <2>7. w[i] = Told(h, p, i + d)
    BY <1>2, <2>6
  <2>8. Told(h, p, i + d) = p[(i + d) - P]
    BY <1>5, <2>5, <2>6
  <2>9. k \in 1..Len(t)
    BY <1>10
  <2> QED
    BY <1>10, <2>5, <2>7, <2>8, <2>9 DEF i
<1>12. t = [k \in 1..Kept(Len(p)) |-> t[k]]
  BY <1>10
<1> QED
  BY <1>9, <1>11, <1>12 DEF t

LEMMA StoredNext ==
  AnswerInv /\ GroupInv /\ WorkInv /\ StoredInv /\ [Next]_vars => StoredInv'
<1> SUFFICES ASSUME AnswerInv, GroupInv, WorkInv, StoredInv, [Next]_vars PROVE StoredInv'
  OBVIOUS
<1>0. /\ TypeInv /\ RowInv
      /\ produced \in Seq(Message) /\ working \in Seq(Message)
  BY DEF AnswerInv, TypeInv, TypeOK
<1>1. CASE Begin
  BY <1>1 DEF Begin, StoredInv
<1>2. CASE CommitCompleted
  <2>1. /\ row' = [status |-> "completed", msgs |-> row.msgs \o OutputOf(working, Me)]
        /\ row.status = "processing" /\ produced' = produced
    BY <1>0, <1>2 DEF CommitCompleted, Store, turnVars, RowInv, Place
  <2>2. OutputOf(working, Me) = Trim(produced)
    <3>1. IsEnd(prior, working, produced) /\ Len(working) = Kept(Total(prior, produced))
      BY <1>2, <2>1 DEF CommitCompleted, WorkInv, Place
    <3>2. prior \in Seq(Message) /\ \A i \in DOMAIN prior : prior[i].turn = Earlier
      BY <1>0, PriorType DEF TypeInv, TypeOK
    <3> QED
      BY <1>0, <3>1, <3>2, OutputOfEnd DEF GroupInv
  <2>3. row.msgs = <<UserMessage(Me)>>
    BY <2>1 DEF StoredInv
  <2>4. row'.status = "completed" /\ row'.msgs = row.msgs \o OutputOf(working, Me)
    BY <2>1
  <2> QED
    BY <2>1, <2>2, <2>3, <2>4 DEF StoredInv
<1>3. CASE CommitFailed
  <2>1. row'.status = "failed"
    BY <1>3 DEF CommitFailed, Store
  <2> QED
    BY <2>1 DEF StoredInv
<1>4. CASE ChatCalls \/ ChatText \/ GiveUp \/ Execute
  <2>1. row' = row /\ row.status = "processing"
    BY <1>0, <1>4 DEF ChatCalls, ChatText, GiveUp, EndWith, Execute, dbVars, RowInv, Place
  <2> QED
    BY <2>1 DEF StoredInv
<1>5. CASE \/ Screen \/ BeginFails \/ ChatFails \/ Ping \/ PingRaises \/ Speak \/ Finish
           \/ CommitRaises \/ Consolidate \/ ConsolidateRaises \/ Apologise \/ Crash
           \/ UNCHANGED vars
  <2>1. UNCHANGED <<produced, row>>
    BY <1>5 DEF Screen, Refuse, DownloadFails, DropUnusable, Admit, BeginFails, ChatFails, Ping,
       PingRaises, Speak, SkipBlank, PausePulse, SendChunk, SendFails, Finish, CommitRaises,
       Consolidate, ConsolidateRaises, Apologise, Crash, vars, turnVars, dbVars
  <2> QED
    BY <2>1 DEF StoredInv
<1> QED
  BY <1>1, <1>2, <1>3, <1>4, <1>5 DEF Next, Step, Loop, Settle

HistoryInv == GroupInv /\ WorkInv /\ StoredInv

LEMMA AlwaysHistoryInv == Spec => []HistoryInv
<1>1. Init => HistoryInv
  BY GroupInit, WorkInit DEF HistoryInv
<1>2. AnswerInv /\ HistoryInv /\ [Next]_vars => HistoryInv'
  BY GroupNext, WorkNext, StoredNext DEF HistoryInv
<1> QED
  BY <1>1, <1>2, AlwaysAnswerInv, PTL DEF Spec

\* A completed turn that fits the history limit is stored whole, however many
\* groups it ran, whatever the history was before it and wherever that was
\* trimmed on the way: its user message and everything it appended.
THEOREM CompletedIsWhole == Spec => []CompletedTurnIsWhole
<1>1. AnswerInv /\ HistoryInv => CompletedTurnIsWhole
  <2> SUFFICES ASSUME AnswerInv, HistoryInv, row.status = "completed", Len(produced) < MaxHistory
               PROVE  row.msgs = <<UserMessage(Me)>> \o produced
    BY DEF CompletedTurnIsWhole
  <2>1. Len(produced) \in Nat
    BY LenProperties DEF AnswerInv, TypeInv, TypeOK
  <2>2. Trim(produced) = produced
    BY <2>1, MaxHistoryAssumption DEF Trim
  <2> QED
    BY <2>2 DEF HistoryInv, StoredInv
<1> QED
  BY <1>1, AlwaysAnswerInv, AlwaysHistoryInv, PTL

\* Whenever the model is asked, the turn has opened no gap in the history it
\* is shown: what lacks a result lacked it in the history before the turn,
\* whatever that was, and trimming cuts the turn's own messages only between
\* groups and only when it has outgrown the limit.
THEOREM PromptsAreWellFormed == Spec => []PromptIsWellFormed
<1>1. ASSUME AnswerInv, HistoryInv, pc = "chat"
      PROVE  /\ \A i \in DOMAIN working :
                   working[i].role = "calls" /\ ~Answered(working, i) =>
                     \E j \in DOMAIN prior : prior[j] = working[i] /\ ~Answered(prior, j)
             /\ Len(produced) < MaxHistory =>
                  \A i \in DOMAIN working :
                    working[i].turn = Me /\ working[i].role = "tool" => Asked(working, i)
  <2> DEFINE h == prior
             P == Len(h) + 1
             n == Total(h, produced)
             d == n - Len(working)
  <2>1. /\ produced \in Seq(Message) /\ working \in Seq(Message) /\ h \in Seq(Message)
        /\ \A i \in DOMAIN h : h[i].turn = Earlier
        /\ row.status = "processing" /\ pending = <<>>
    BY <1>1, PriorType DEF AnswerInv, TypeInv, TypeOK, RowInv, PlaceInv, Place
  <2> HIDE DEF h
  <2>2. /\ n \in Nat /\ n = P + Len(produced) /\ P \in Nat /\ P >= 1 /\ Len(produced) \in Nat
        /\ Len(working) \in Nat /\ DOMAIN working = 1..Len(working)
        /\ DOMAIN produced = 1..Len(produced)
        /\ Len(h) \in Nat /\ Len(h) = P - 1 /\ DOMAIN h = 1..Len(h)
    BY <2>1, TotalType, LenProperties
  <2>3. /\ Len(working) \in Kept(n)..n
        /\ \A i \in 1..Len(working) : working[i] = Told(h, produced, i + d)
    BY <1>1, <2>1 DEF HistoryInv, WorkInv, IsEnd, h
  <2>4. Kept(n) \in 0..n /\ Kept(Len(produced)) <= Kept(n)
    <3>1. Len(produced) \in 0..n
      BY <2>2
    <3> HIDE DEF n
    <3> QED
      BY <2>2, <3>1, KeptBounds
  <2>5. d \in Nat /\ n = Len(working) + d
    BY <2>2, <2>3, <2>4
  <2>6. \A b \in 1..n :
          /\ b < P => b \in DOMAIN h /\ Told(h, produced, b) = h[b]
          /\ b = P => Told(h, produced, b).role = "user"
          /\ b > P => b - P \in 1..Len(produced) /\ Told(h, produced, b) = produced[b - P]
    <3>1. UserMessage(Me).role = "user"
      BY DEF UserMessage
    <3> SUFFICES ASSUME NEW b \in 1..n
                 PROVE  /\ b < P => b \in DOMAIN h /\ Told(h, produced, b) = h[b]
                        /\ b = P => Told(h, produced, b).role = "user"
                        /\ b > P => /\ b - P \in 1..Len(produced)
                                    /\ Told(h, produced, b) = produced[b - P]
      OBVIOUS
    <3>2. /\ b <= Len(h) => Told(h, produced, b) = h[b]
          /\ b = Len(h) + 1 => Told(h, produced, b) = UserMessage(Me)
          /\ b > Len(h) + 1 => /\ b - (Len(h) + 1) \in 1..Len(produced)
                               /\ Told(h, produced, b) = produced[b - (Len(h) + 1)]
      BY <2>1, ToldCases
    <3>3. b < P => b <= Len(h) /\ b \in 1..Len(h)
      BY <2>2
    <3> QED
      BY <2>2, <3>1, <3>2, <3>3
  <2> HIDE DEF P, n, d
  <2>7. ASSUME NEW i \in 1..Len(working), working[i].role \in {"calls", "tool"}
        PROVE  \/ i + d \in DOMAIN h /\ working[i] = h[i + d]
               \/ (i + d) - P \in 1..Len(produced) /\ working[i] = produced[(i + d) - P]
    <3>1. i + d \in 1..n /\ working[i] = Told(h, produced, i + d)
      BY <2>2, <2>3, <2>5
    <3>2. i + d < P \/ i + d > P
      <4>1. i + d # P
        BY <2>6, <2>7, <3>1
      <4> QED
        BY <2>2, <2>5, <4>1
    <3> QED
      BY <2>6, <3>1, <3>2
  <2>8. ASSUME NEW j \in 1..Len(produced), j + P - d >= 1
        PROVE  j + P - d \in 1..Len(working) /\ working[j + P - d] = produced[j]
    <3>1. j + P - d \in 1..Len(working) /\ (j + P - d) + d \in 1..n /\ (j + P - d) + d > P
          /\ ((j + P - d) + d) - P = j
      BY <2>2, <2>5, <2>8
    <3> QED
      BY <2>3, <2>6, <3>1
  <2>9. ASSUME NEW i \in 1..Len(working), working[i].role = "calls",
               (i + d) - P \in 1..Len(produced), working[i] = produced[(i + d) - P]
        PROVE  Answered(working, i)
    <3> SUFFICES ASSUME NEW k \in 1..working[i].n
                 PROVE  \E j \in i+1..Len(working) :
                          working[j] = ToolMessage(working[i].turn, working[i].group, k)
      BY DEF Answered
    <3> DEFINE a == (i + d) - P
    <3>1. a \in 1..Len(produced) /\ working[i] = produced[a]
      BY <2>9
    <3> HIDE DEF a
    <3>2. PICK j \in a+1..Len(produced) :
            produced[j] = ToolMessage(produced[a].turn, produced[a].group, k)
      <4>1. ~ \E p \in DOMAIN pending : TRUE
        BY <2>1
      <4> QED
        BY <1>1, <2>2, <2>9, <3>1, <4>1 DEF HistoryInv, GroupInv
    <3>3. j \in 1..Len(produced) /\ j + P - d >= i + 1 /\ j + P - d \in Int
      BY <2>2, <2>5, <3>1 DEF a
    <3>4. j + P - d \in 1..Len(working) /\ working[j + P - d] = produced[j]
      BY <2>8, <3>3
    <3>5. j + P - d \in i+1..Len(working)
      BY <2>2, <3>3, <3>4
    <3> QED
      BY <3>1, <3>2, <3>4, <3>5
  <2>10. ASSUME NEW i \in 1..Len(working), i + d \in DOMAIN h, working[i] = h[i + d],
                Answered(h, i + d)
         PROVE  Answered(working, i)
    <3> SUFFICES ASSUME NEW k \in 1..working[i].n
                 PROVE  \E j \in i+1..Len(working) :
                          working[j] = ToolMessage(working[i].turn, working[i].group, k)
      BY DEF Answered
    <3>1. PICK b \in (i + d)+1..Len(h) : h[b] = ToolMessage(h[i + d].turn, h[i + d].group, k)
      BY <2>10 DEF Answered
    <3>2. /\ b - d \in i+1..Len(working) /\ b - d \in 1..Len(working)
          /\ (b - d) + d = b /\ b \in 1..n /\ b < P
      BY <2>2, <2>5
    <3>3. working[b - d] = h[b]
      BY <2>3, <2>6, <3>2
    <3> QED
      BY <2>10, <3>1, <3>2, <3>3
  <2>11. ASSUME NEW i \in 1..Len(working), working[i].role = "calls", ~Answered(working, i)
         PROVE  \E j \in DOMAIN h : h[j] = working[i] /\ ~Answered(h, j)
    <3>1. i + d \in DOMAIN h /\ working[i] = h[i + d]
      BY <2>7, <2>9, <2>11
    <3>2. ~Answered(h, i + d)
      BY <2>10, <2>11, <3>1
    <3> QED
      BY <3>1, <3>2
  <2>12. ASSUME Len(produced) < MaxHistory,
                NEW j \in 1..Len(working), working[j].turn = Me, working[j].role = "tool"
         PROVE  Asked(working, j)
    <3>1. d <= P
      <4>1. Kept(Len(produced)) = Len(produced)
        BY <2>2, <2>12, MaxHistoryAssumption DEF Kept
      <4> QED
        BY <2>2, <2>3, <2>4, <2>5, <4>1
    <3> SUFFICES \E i \in 1..j-1 : /\ working[i].role = "calls"
                                   /\ working[i].turn = working[j].turn
                                   /\ working[i].group = working[j].group
                                   /\ working[j].n \in 1..working[i].n
      BY DEF Asked
    <3> DEFINE a == (j + d) - P
    <3>2. a \in 1..Len(produced) /\ working[j] = produced[a]
      <4>1. Me # Earlier
        BY DEF Me, Earlier
      <4> QED
        BY <2>1, <2>7, <2>12, <4>1
    <3> HIDE DEF a
    <3>3. PICK i \in 1..a-1 : /\ produced[i].role = "calls"
                              /\ produced[i].turn = produced[a].turn
                              /\ produced[i].group = produced[a].group
                              /\ produced[a].n \in 1..produced[i].n
      BY <1>1, <2>2, <2>12, <3>2 DEF HistoryInv, GroupInv, ResultsAsked, Asked
    <3>4. i \in 1..Len(produced) /\ i + P - d >= 1 /\ i + P - d \in 1..j-1
      BY <2>2, <2>5, <3>1, <3>2 DEF a
    <3>5. working[i + P - d] = produced[i]
      BY <2>8, <3>4
    <3> QED
      BY <3>2, <3>3, <3>4, <3>5
  <2> QED
    BY <2>2, <2>11, <2>12 DEF h
<1>2. AnswerInv /\ HistoryInv => PromptIsWellFormed
  BY <1>1 DEF PromptIsWellFormed
<1> QED
  BY <1>2, AlwaysAnswerInv, AlwaysHistoryInv, PTL

-----------------------------------------------------------------------------
(* The typing pulse. *)

AliveThreads == {i \in DOMAIN thread : Alive(i)}

\* The thread that was started and not stopped yet, or is waited for.
Focus == CASE owner = "typing" -> current
           [] owner = "joining" -> joined
           [] OTHER -> 0

\* What a pulse thread may do to the list of threads.
Advances(i) ==
  \E place \in ThreadPlaces :
    thread' = [thread EXCEPT ![i] = place] /\ thread[i] # "dead"

-----------------------------------------------------------------------------
(* Types. *)

LEMMA PulseTypeInit == PulseInit => PulseTypeOK
<1> SUFFICES ASSUME PulseInit PROVE PulseTypeOK
  OBVIOUS
<1>1. thread \in Seq(ThreadPlaces)
  BY EmptySeq DEF PulseInit
<1>2. owner \in OwnerPlaces /\ last \in {"none", "start", "stop"} /\ overruns \in Nat
  BY DEF PulseInit, OwnerPlaces
<1> QED
  BY <1>1, <1>2 DEF PulseInit, PulseTypeOK

LEMMA AdvancesType ==
  ASSUME PulseTypeOK, NEW i \in DOMAIN thread, Advances(i)
  PROVE  thread' \in Seq(ThreadPlaces) /\ DOMAIN thread' = DOMAIN thread
BY DEF PulseTypeOK, Advances

LEMMA PulseAdvances ==
  ASSUME PulseTypeOK, NEW i \in DOMAIN thread, Pulse(i)
  PROVE  /\ Advances(i)
         /\ UNCHANGED <<active, stopped, current, joined, owner, final, overruns>>
         /\ last' = last \/ (last' = "start" /\ thread[i] = "emitting")
<1> USE DEF PulseTypeOK, Pulse, CheckStop, Gate, EmitStart, Pause, WaitTimesOut, Leave, Goto
<1>1. UNCHANGED <<active, stopped, current, joined, owner, final, overruns>>
  OBVIOUS
<1>2. last' = last \/ (last' = "start" /\ thread[i] = "emitting")
  OBVIOUS
<1>3. Advances(i)
  BY DEF Advances, ThreadPlaces
<1> QED
  BY <1>1, <1>2, <1>3

\* The threads after self._stop.set().
LEMMA WakeType ==
  ASSUME PulseTypeOK, WakeAll
  PROVE  /\ stopped' = TRUE /\ thread' \in Seq(ThreadPlaces)
         /\ DOMAIN thread' = DOMAIN thread
         /\ \A i \in DOMAIN thread : thread'[i] = "dead" <=> thread[i] = "dead"
<1> DEFINE f(i) == IF thread[i] = "waiting" THEN "leaving" ELSE thread[i]
<1>1. thread' = [i \in 1..Len(thread) |-> f(i)] /\ stopped' = TRUE
  BY DEF WakeAll, PulseTypeOK
<1>2. \A i \in 1..Len(thread) : f(i) \in ThreadPlaces
  BY DEF PulseTypeOK, ThreadPlaces
<1>3. Len(thread) \in Nat /\ DOMAIN thread = 1..Len(thread)
  BY DEF PulseTypeOK
<1> QED
  BY <1>1, <1>2, <1>3, IsASeq

LEMMA PulseTypeNext == PulseTypeOK /\ [PulseNext]_pulseVars => PulseTypeOK'
<1> SUFFICES ASSUME PulseTypeOK, [PulseNext]_pulseVars PROVE PulseTypeOK'
  OBVIOUS
<1> USE DEF PulseTypeOK
<1>1. CASE Start
  <2>1. CASE HasThread
    BY <1>1, <2>1 DEF Start, OwnerPlaces
  <2>2. CASE ~ HasThread
    <3>1. /\ Append(thread, "checking") \in Seq(ThreadPlaces)
          /\ DOMAIN Append(thread, "checking") = 1..(Len(thread) + 1)
      BY DEF ThreadPlaces
    <3>2. /\ thread' = Append(thread, "checking") /\ current' = Len(thread) + 1
          /\ joined' = joined
      BY <1>1, <2>2 DEF Start
    <3>3. current' \in DOMAIN thread' /\ joined' \in {0} \cup DOMAIN thread'
      BY <3>1, <3>2
    <3> QED
      BY <1>1, <2>2, <3>1, <3>2, <3>3 DEF Start, OwnerPlaces
  <2> QED
    BY <2>1, <2>2
<1>2. CASE Stop
  <2>1. WakeAll
    BY <1>2 DEF Stop
  <2> QED
    BY <1>2, <2>1, WakeType DEF Stop, Detach, OwnerPlaces
<1>3. CASE FinishStop
  BY <1>3 DEF FinishStop, JoinReturns, JoinTimesOut, EmitStop, OwnerPlaces
<1>4. ASSUME NEW i \in DOMAIN thread, Pulse(i) PROVE PulseTypeOK'
  BY <1>4, PulseAdvances, AdvancesType
<1>5. CASE UNCHANGED pulseVars
  BY <1>5 DEF pulseVars
<1> QED
  BY <1>1, <1>2, <1>3, <1>4, <1>5 DEF PulseNext

\* The attributes of the object, the threads and the signal keep their types.
THEOREM PulseTypeCorrect == PulseSpec => []PulseTypeOK
BY PulseTypeInit, PulseTypeNext, PTL DEF PulseSpec

-----------------------------------------------------------------------------
(* Every thread is accounted for. *)

ThreadsInv ==
  /\ current # 0 => owner = "typing"
  /\ Cardinality(AliveThreads \ {Focus}) <= overruns
  /\ owner \in {"quiet", "over"} /\ overruns = 0 => last = "stop"

LEMMA AliveFinite ==
  ASSUME PulseTypeOK
  PROVE  IsFiniteSet(AliveThreads) /\ 0 \notin AliveThreads
<1>1. IsFiniteSet(1..Len(thread)) /\ DOMAIN thread = 1..Len(thread)
  BY FS_Interval DEF PulseTypeOK
<1>2. AliveThreads \subseteq 1..Len(thread)
  BY <1>1 DEF AliveThreads
<1>3. IsFiniteSet(AliveThreads)
  BY <1>1, <1>2, FS_Subset
<1>4. 0 \notin AliveThreads
  BY <1>2
<1> QED
  BY <1>3, <1>4

\* Removing threads from a finite set does not make it larger.
LEMMA FewerOthers ==
  ASSUME NEW S, NEW T, IsFiniteSet(T), S \subseteq T, NEW n \in Nat,
         Cardinality(T) <= n
  PROVE  Cardinality(S) <= n
<1>1. Cardinality(S) \in Nat /\ Cardinality(T) \in Nat
  BY FS_Subset, FS_CardinalityType
<1>2. Cardinality(S) <= Cardinality(T)
  BY FS_Subset
<1> QED
  BY <1>1, <1>2

\* ... and one thread counts for one.
LEMMA OneMore ==
  ASSUME NEW S, IsFiniteSet(S), NEW x, NEW n \in Nat, Cardinality(S \ {x}) <= n
  PROVE  Cardinality(S) <= n + 1
<1>1. Cardinality(S) \in Nat /\ IsFiniteSet(S \ {x}) /\ Cardinality(S \ {x}) \in Nat
  BY FS_Subset, FS_CardinalityType
<1>2. CASE x \in S
  BY <1>1, <1>2, FS_RemoveElement
<1>3. CASE x \notin S
  <2>1. S \ {x} = S
    BY <1>3
  <2> QED
    BY <1>1, <2>1
<1> QED
  BY <1>2, <1>3

LEMMA ThreadsInit == PulseInit => ThreadsInv
<1> SUFFICES ASSUME PulseInit PROVE ThreadsInv
  OBVIOUS
<1>1. AliveThreads \ {Focus} = {}
  BY DEF PulseInit, AliveThreads
<1> QED
  BY <1>1, FS_EmptySet DEF PulseInit, ThreadsInv

LEMMA ThreadsStart ==
  ASSUME PulseTypeOK, PulseTypeOK', ThreadsInv, Start
  PROVE  ThreadsInv'
<1>1. current = 0 /\ Focus = 0 /\ owner' = "typing" /\ overruns' = overruns
  BY DEF Start, ThreadsInv, Focus
<1>2. /\ thread' = Append(thread, "checking") /\ current' = Len(thread) + 1
  BY <1>1 DEF Start, HasThread
<1>3. Focus' = current'
  BY <1>1 DEF Focus
<1>4. DOMAIN thread = 1..Len(thread) /\ DOMAIN thread' = 1..(Len(thread) + 1)
  BY <1>2 DEF PulseTypeOK
<1>5. \A i \in DOMAIN thread : thread'[i] = thread[i]
  BY <1>2 DEF PulseTypeOK
<1>6. (AliveThreads \ {Focus})' \subseteq AliveThreads \ {Focus}
  BY <1>1, <1>2, <1>3, <1>4, <1>5, AliveFinite DEF AliveThreads, Alive, PulseTypeOK
<1>7. IsFiniteSet(AliveThreads \ {Focus}) /\ overruns \in Nat
  BY AliveFinite, FS_Subset DEF PulseTypeOK
<1>8. Cardinality((AliveThreads \ {Focus})') <= overruns
  BY <1>6, <1>7, FewerOthers DEF ThreadsInv
<1> QED
  BY <1>1, <1>8 DEF ThreadsInv

LEMMA ThreadsStop ==
  ASSUME PulseTypeOK, PulseTypeOK', ThreadsInv, Stop
  PROVE  ThreadsInv'
<1>1. /\ owner' = "joining" /\ overruns' = overruns /\ current' = 0
      /\ joined' = current
  BY DEF Stop, Detach
<1>2. Focus' = Focus
  BY <1>1 DEF Stop, ThreadsInv, Focus
<1>3. AliveThreads' = AliveThreads
  BY WakeType DEF Stop, AliveThreads, Alive
<1> QED
  BY <1>1, <1>2, <1>3 DEF ThreadsInv

LEMMA ThreadsFinish ==
  ASSUME PulseTypeOK, PulseTypeOK', ThreadsInv, FinishStop
  PROVE  ThreadsInv'
<1>1. /\ thread' = thread /\ current' = current /\ joined' = joined
      /\ AliveThreads' = AliveThreads /\ current = 0
  BY DEF FinishStop, JoinReturns, JoinTimesOut, EmitStop, AliveThreads, Alive, ThreadsInv
<1>2. IsFiniteSet(AliveThreads) /\ 0 \notin AliveThreads /\ overruns \in Nat
  BY AliveFinite DEF PulseTypeOK
<1>3. CASE JoinReturns
  <2>1. Focus = joined /\ Focus' = 0 /\ owner' = "silencing" /\ overruns' = overruns
    BY <1>3 DEF JoinReturns, Focus
  <2>2. joined \notin AliveThreads
    BY <1>2, <1>3 DEF JoinReturns, Joinable, AliveThreads
  <2>3. (AliveThreads \ {Focus})' = AliveThreads \ {Focus}
    BY <1>1, <1>2, <2>1, <2>2
  <2> QED
    BY <1>1, <2>1, <2>3 DEF ThreadsInv
<1>4. CASE JoinTimesOut
  <2>1. /\ Focus = joined /\ Focus' = 0 /\ owner' = "silencing"
        /\ overruns' = overruns + 1
    BY <1>4 DEF JoinTimesOut, Focus
  <2>2. (AliveThreads \ {Focus})' = AliveThreads
    BY <1>1, <1>2, <2>1
  <2>3. Cardinality(AliveThreads) <= overruns + 1
    BY <1>2, OneMore DEF ThreadsInv
  <2>4. overruns + 1 # 0
    BY <1>2
  <2> QED
    BY <1>1, <2>1, <2>2, <2>3, <2>4 DEF ThreadsInv
<1>5. CASE EmitStop
  <2>1. Focus = 0 /\ Focus' = 0 /\ last' = "stop" /\ overruns' = overruns
    BY <1>5 DEF EmitStop, Focus
  <2> QED
    BY <1>1, <2>1 DEF ThreadsInv
<1> QED
  BY <1>3, <1>4, <1>5 DEF FinishStop

LEMMA NoneAlive ==
  ASSUME PulseTypeOK, ThreadsInv, overruns = 0, owner \in {"quiet", "over"}
  PROVE  AliveThreads = {}
<1>1. Focus = 0
  BY DEF Focus
<1>2. IsFiniteSet(AliveThreads) /\ AliveThreads \ {Focus} = AliveThreads
  BY <1>1, AliveFinite
<1>3. Cardinality(AliveThreads) \in Nat /\ Cardinality(AliveThreads) <= 0
  BY <1>2, FS_CardinalityType DEF ThreadsInv
<1> QED
  BY <1>2, <1>3, FS_EmptySet

LEMMA ThreadsThread ==
  ASSUME PulseTypeOK, PulseTypeOK', ThreadsInv, NEW i \in DOMAIN thread, Pulse(i)
  PROVE  ThreadsInv'
<1>1. /\ Advances(i)
      /\ UNCHANGED <<active, stopped, current, joined, owner, final, overruns>>
      /\ last' = last \/ (last' = "start" /\ thread[i] = "emitting")
  BY PulseAdvances
<1>2. AliveThreads' \subseteq AliveThreads
  BY <1>1, AdvancesType DEF Advances, AliveThreads, Alive, PulseTypeOK
<1>3. Focus' = Focus
  BY <1>1 DEF Focus
<1>4. IsFiniteSet(AliveThreads \ {Focus}) /\ overruns \in Nat
  BY AliveFinite, FS_Subset DEF PulseTypeOK
<1>5. Cardinality((AliveThreads \ {Focus})') <= overruns
  BY <1>2, <1>3, <1>4, FewerOthers DEF ThreadsInv
<1>6. owner \in {"quiet", "over"} /\ overruns = 0 => last' = last
  BY <1>1, NoneAlive DEF AliveThreads, Alive
<1> QED
  BY <1>1, <1>5, <1>6 DEF ThreadsInv

LEMMA ThreadsNext == PulseTypeOK /\ ThreadsInv /\ [PulseNext]_pulseVars => ThreadsInv'
<1> SUFFICES ASSUME PulseTypeOK, ThreadsInv, [PulseNext]_pulseVars PROVE ThreadsInv'
  OBVIOUS
<1>1. PulseTypeOK'
  BY PulseTypeNext
<1>2. CASE UNCHANGED pulseVars
  BY <1>2 DEF pulseVars, ThreadsInv, AliveThreads, Alive, Focus
<1> QED
  BY <1>1, <1>2, ThreadsStart, ThreadsStop, ThreadsFinish, ThreadsThread DEF PulseNext

\* For any number of starts: after stop() the indicator stays off, unless a
\* call to Sendblue has outlasted a join.
THEOREM AlwaysSilent == PulseSpec => []SilentAfterStop
<1>1. PulseTypeOK /\ ThreadsInv => SilentAfterStop
  <2> SUFFICES ASSUME PulseTypeOK, ThreadsInv, owner \in {"quiet", "over"}, overruns = 0
               PROVE  last = "stop" /\ \A i \in DOMAIN thread : thread[i] # "emitting"
    BY DEF SilentAfterStop
  <2>1. AliveThreads = {}
    BY NoneAlive
  <2> QED
    BY <2>1 DEF ThreadsInv, AliveThreads, Alive
<1> QED
  BY <1>1, PulseTypeInit, PulseTypeNext, ThreadsInit, ThreadsNext, PTL DEF PulseSpec

\* For any number of starts: one thread, and one more for each such call.
THEOREM AlwaysFew == PulseSpec => []FewPulses
<1>1. PulseTypeOK /\ ThreadsInv => FewPulses
  <2> SUFFICES ASSUME PulseTypeOK, ThreadsInv PROVE Cardinality(AliveThreads) <= overruns + 1
    BY DEF FewPulses, AliveThreads, PulseTypeOK
  <2>1. overruns \in Nat
    BY DEF PulseTypeOK
  <2> QED
    BY <2>1, AliveFinite, OneMore DEF ThreadsInv
<1> QED
  BY <1>1, PulseTypeInit, PulseTypeNext, ThreadsInit, ThreadsNext, PTL DEF PulseSpec
=============================================================================
