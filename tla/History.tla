------------------------------ MODULE History ------------------------------
(***************************************************************************)
(* Conversation histories (agents/chat_agent.py).  A history is the        *)
(* sequence of its messages after the system prompt, which every operation *)
(* keeps in front.  A message is [turn, role, group, n]:                   *)
(*   "user"   the inbound text;                                            *)
(*   "calls"  an assistant message asking for the n tool calls of a group; *)
(*   "tool"   the result of call n of a group;                             *)
(*   "text"   an assistant message with text.                              *)
(***************************************************************************)
EXTENDS Integers, Sequences, FiniteSets

CONSTANT MaxHistory   \* max_history_messages, the system prompt included

ASSUME MaxHistoryAssumption == MaxHistory \in Nat \ {0}

Roles == {"user", "calls", "tool", "text"}

UserMessage(t)     == [turn |-> t, role |-> "user",  group |-> 0, n |-> 0]
CallsMessage(t, g, k) == [turn |-> t, role |-> "calls", group |-> g, n |-> k]
ToolMessage(t, g, k)  == [turn |-> t, role |-> "tool",  group |-> g, n |-> k]
TextMessage(t)     == [turn |-> t, role |-> "text",  group |-> 0, n |-> 0]

LastN(s, n) == IF Len(s) <= n THEN s ELSE SubSeq(s, Len(s) - n + 1, Len(s))

\* Mutant: the system prompt is not counted.
Trim_SystemForgotten(rest) ==
  IF Len(rest) + 1 <= MaxHistory \/ MaxHistory = 1
  THEN rest
  ELSE LastN(rest, MaxHistory)

\* _trim_history.  rest[-(N - 1):] is the last N - 1 messages, except that
\* rest[-0:] is all of them.
Trim(rest) ==
  IF Len(rest) + 1 <= MaxHistory \/ MaxHistory = 1
  THEN rest
  ELSE LastN(rest, MaxHistory - 1)

\* The k-th smallest member of the finite set I of integers.
Nth(I, k) == CHOOSE i \in I : Cardinality({j \in I : j <= i}) = k

\* The elements of s at the positions I, in order.
Extract(s, I) == [k \in 1..Cardinality(I) |-> s[Nth(I, k)]]

\* Mutant: tool results are left out.
OutputOf_NoResults(working, t) ==
  Extract(working, {i \in DOMAIN working :
                      working[i].turn = t /\ working[i].role \in {"calls", "text"}})

\* What a turn has added to its working copy: new_msgs of _commit_turn.
OutputOf(working, t) ==
  Extract(working, {i \in DOMAIN working :
                      working[i].turn = t /\ working[i].role # "user"})

\* Mutant: output is always appended.
SpliceAt_End(rest, t) == Len(rest)

\* Where _commit_turn inserts: after the user message of t and the messages
\* of t that follow it; at the end when the user message is gone.
SpliceAt(rest, t) ==
  LET starts == {i \in DOMAIN rest : rest[i] = UserMessage(t)}
      first  == CHOOSE i \in starts : \A j \in starts : i <= j
      ends   == {i \in first..Len(rest) :
                   \A j \in first..i : rest[j].turn = t}
  IN  IF starts = {} THEN Len(rest)
      ELSE CHOOSE i \in ends : \A j \in ends : j <= i

Splice(rest, t, new) ==
  LET at == SpliceAt(rest, t)
  IN  SubSeq(rest, 1, at) \o new \o SubSeq(rest, at + 1, Len(rest))

-----------------------------------------------------------------------------
(* Predicates the properties use. *)

\* Every call that message i of s asks for has its result further on.
Answered(s, i) ==
  \A k \in 1..s[i].n :
    \E j \in i+1..Len(s) : s[j] = ToolMessage(s[i].turn, s[i].group, k)

AllAnswered(s) == \A i \in DOMAIN s : s[i].role = "calls" => Answered(s, i)

\* The result at j in s follows the message that asked for it.
Asked(s, j) ==
  \E i \in 1..j-1 : /\ s[i].role = "calls"
                    /\ s[i].turn = s[j].turn /\ s[i].group = s[j].group
                    /\ s[j].n \in 1..s[i].n

\* The messages of one turn stand together.
Contiguous(s) ==
  \A i, j \in DOMAIN s : i < j /\ s[i].turn = s[j].turn =>
    \A k \in i..j : s[k].turn = s[i].turn
=============================================================================
