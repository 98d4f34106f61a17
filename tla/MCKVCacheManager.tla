--------------------------- MODULE MCKVCacheManager ---------------------------
(* Small instances of KVCacheManager for TLC. *)
EXTENDS KVCacheManager, TLC

CONSTANTS r1, r2

\* Two full blocks as long as max_model_len, and a prompt that goes on differently
\* when two requests share it.
MCPrompts == {<<1, 1, 1, 1>>, <<2, 2>>}

RequestSymmetry == Permutations({r1, r2})
================================================================================
