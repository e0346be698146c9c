---------------------------- MODULE MCSkillIndex ----------------------------
(* Small instances of SkillIndex for TLC. *)
EXTENDS SkillIndex, TLC

Symmetry == Permutations(Texts) \cup Permutations(ToolLists)
=============================================================================
