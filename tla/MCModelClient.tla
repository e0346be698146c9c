--------------------------- MODULE MCModelClient ---------------------------
(* A small instance of ModelClient for TLC. *)
EXTENDS ModelClient, TLC

CONSTANTS ears, text, router, down, bare

\* ears listens, and says so only in /props; text has no input but text;
\* router serves two models, the configured one second;
\* down answers nothing, bare is up and lists no model.
MCListing ==
  [s \in Servers |->
     CASE s = ears   -> <<[id |-> "ears", arch |-> {}, capable |-> TRUE]>>
       [] s = text   -> <<[id |-> "main", arch |-> {}, capable |-> FALSE]>>
       [] s = router -> <<[id |-> "draft", arch |-> {"image"}, capable |-> TRUE],
                          [id |-> "main", arch |-> {"video"}, capable |-> TRUE]>>
       [] OTHER      -> <<>>]
MCProperties ==
  [s \in Servers |-> CASE s = ears -> {"audio"}
                       [] s = text -> {}
                       [] OTHER    -> Absent]
MCName ==
  [s \in Servers |-> CASE s = ears -> "ears" [] s = text -> "main"
                       [] s = router -> "draft" [] OTHER -> None]

ThreadSymmetry == Permutations(Threads)
=============================================================================
