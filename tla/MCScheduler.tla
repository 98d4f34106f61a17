----------------------------- MODULE MCScheduler -----------------------------
(* Small instances of Scheduler for TLC. *)
EXTENDS Scheduler, TLC

CONSTANTS r1, r2, t1, t2

\* A prompt that fills its block, so that the first decode needs another one,
\* and a prompt that takes both other blocks.
CompetingPrompts == {<<t1, t1>>, <<t2, t2, t2>>}

\* Prompts that differ in length and share what they can.
SharingPrompts == {<<t1>>, <<t1, t1, t1>>}

\* One prompt for all requests.
SamePrompt == {<<t1, t1, t1>>}

\* A prompt as long as max_model_len.
MaxLenPrompts == {<<t1, t1, t1, t1>>}

MCPriority == r1 :> 1 @@ r2 :> 2
================================================================================
