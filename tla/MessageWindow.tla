--------------------------- MODULE MessageWindow ---------------------------
(***************************************************************************)
(* What the inbox promises, without requests, tables or clocks: it         *)
(* remembers the last Size messages it took, takes a message only while it *)
(* does not remember it, and owes one piece of work for each one taken     *)
(* until that work is settled or the process dies with it.                 *)
(***************************************************************************)
EXTENDS Integers, Sequences

CONSTANTS Messages, Anonymous, Size

VARIABLES
  window,   \* remembered messages, oldest first
  owed      \* owed[m]: pieces of work taken for m and not settled

Remembered == {window[i] : i \in DOMAIN window}

Init ==
  /\ window = <<>>
  /\ owed = [m \in Messages \cup {Anonymous} |-> 0]

Slide(s) == IF Len(s) > Size THEN Tail(s) ELSE s

Take(m) ==
  /\ m \notin Remembered
  /\ window' = Slide(Append(window, m))
  /\ owed' = [owed EXCEPT ![m] = @ + 1]

TakeAnonymous ==
  /\ owed' = [owed EXCEPT ![Anonymous] = @ + 1]
  /\ UNCHANGED window

Settle(m) ==
  /\ owed[m] > 0
  /\ owed' = [owed EXCEPT ![m] = @ - 1]
  /\ UNCHANGED window

Die ==
  /\ owed' = [m \in DOMAIN owed |-> 0]
  /\ UNCHANGED window

Next ==
  \/ \E m \in Messages : Take(m)
  \/ TakeAnonymous
  \/ \E m \in Messages \cup {Anonymous} : Settle(m)
  \/ Die

Spec == Init /\ [][Next]_<<window, owed>>
=============================================================================
