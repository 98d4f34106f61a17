-------------------------- MODULE MCEncoderScheduling --------------------------
(* Instances of EncoderScheduling for TLC. *)
EXTENDS EncoderScheduling

CONSTANTS r1, r2, r3, a, b, c

ThreeHashes == {a, b, c}
MCNumTokens == [h \in Hash |-> IF h = c THEN 3 ELSE 2]

\* r1 has two images, r2 the same image twice, r3 another large one.
MCPromptLen == [r \in Request |-> CASE r = r1 -> 6 [] r = r2 -> 5 [] OTHER -> 4]
MCItems ==
    [r \in Request |->
       CASE r = r1 -> <<[hash |-> a, offset |-> 1], [hash |-> b, offset |-> 4]>>
         [] r = r2 -> <<[hash |-> a, offset |-> 0], [hash |-> a, offset |-> 3]>>
         [] OTHER  -> <<[hash |-> c, offset |-> 1]>>]
================================================================================
