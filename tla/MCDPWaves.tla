------------------------------- MODULE MCDPWaves -------------------------------
(***************************************************************************)
(* Two or three engines and two front ends; one request comes in at each,  *)
(* or two at the first.  SyncInterval is 32 in the code; 2 is the smallest *)
(* interval in which a pass without an all-reduce happens.                 *)
(***************************************************************************)
EXTENDS DPWaves

MCFrontOf == [r \in Request |-> IF r = "r2" THEN "f2" ELSE "f1"]
MCSteps == [r \in Request |-> IF r = "r1" THEN 1 ELSE 2]
===============================================================================
