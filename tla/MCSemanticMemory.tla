-------------------------- MODULE MCSemanticMemory --------------------------
(* Small instances of SemanticMemory for TLC. *)
EXTENDS SemanticMemory

CONSTANTS tea, Tea, alice, bob

\* "Tea" is a spelling of the key that _safe_key turns into "tea".
Spellings == [k \in {tea, Tea} |-> tea]
=============================================================================
