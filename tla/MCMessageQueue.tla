---------------------------- MODULE MCMessageQueue ----------------------------
(* Instances of MessageQueue for TLC. *)
EXTENDS MessageQueue

CONSTANTS l1, l2, e1
===============================================================================
