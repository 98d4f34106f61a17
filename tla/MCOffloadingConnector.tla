------------------------- MODULE MCOffloadingConnector -------------------------
(* Instances of OffloadingConnector for TLC. *)
EXTENDS OffloadingConnector

\* r1 and r2 share their first block; r3 has a prompt of its own.
MCPrompt == [r \in Request |-> CASE r = "r1" -> <<"a", "b">>
                                 [] r = "r2" -> <<"a", "c">>
                                 [] OTHER -> <<"d", "e">>]
===============================================================================
