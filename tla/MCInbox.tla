------------------------------ MODULE MCInbox ------------------------------
(* A small instance of Inbox for TLC. *)
EXTENDS Inbox, TLC

CONSTANTS h1, h2, h3, bare, forged, blank, alice

Plain(h) ==
  [authentic |-> TRUE, json |-> TRUE, outbound |-> FALSE, sender |-> alice,
   empty |-> FALSE, handle |-> h]

\* Three messages with handles, more than the table holds, each named by its
\* handle; one without a handle; one that is rejected and one that is ignored.
MessageIds == {h1, h2, h3, bare, forged, blank}
Messages ==
  [p \in MessageIds |->
     CASE p = bare   -> Plain(NoHandle)
       [] p = forged -> [Plain(NoHandle) EXCEPT !.authentic = FALSE]
       [] p = blank  -> [Plain(NoHandle) EXCEPT !.empty = TRUE]
       [] OTHER      -> Plain(p)]

OnlyAlice == {alice}
TwoTimes == 1..2

\* Messages with handles differ in nothing but the handle.
HandleSymmetry == Permutations({h1, h2, h3})
=============================================================================
