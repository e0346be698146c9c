------------------------------ MODULE MCRecall ------------------------------
(* Small instances of Recall for TLC. *)
EXTENDS Recall, TLC

CONSTANTS alice, bob, strong, weak, near, drink, city

\* strong and weak match the words of the query, near only its meaning;
\* weak is far from it.
TextStrength ==
  [x \in Texts |-> IF x = strong THEN 3 ELSE IF x = weak THEN 1 ELSE 0]
TextCosine ==
  [x \in Texts |-> IF x = strong THEN 80 ELSE IF x = weak THEN 10 ELSE 90]
TextDistance ==
  [x \in Texts |-> IF x = strong THEN 40 ELSE IF x = weak THEN 90 ELSE 30]
NearestOf == [memory |-> 2, summary |-> 1]
=============================================================================
