---------------------------- MODULE BroadcastQueue ----------------------------
(***************************************************************************)
(* What vllm/distributed/device_communicators/shm_broadcast.py promises to *)
(* its users: one writer's messages, numbered in the order they are        *)
(* enqueued, reach each reader complete and in that order, and the writer  *)
(* runs ahead of a local reader by a bounded number of messages only.      *)
(***************************************************************************)
EXTENDS Naturals

CONSTANTS
    LocalReader,   \* readers of the shared-memory ring
    RemoteReader,  \* readers of the remote socket
    Window         \* how many messages a local reader may lag behind

VARIABLES
    sent,    \* how many messages have been enqueued
    got      \* the last message each reader has dequeued

vars == <<sent, got>>

Init == sent = 0 /\ got = [r \in LocalReader \cup RemoteReader |-> 0]

Enqueue ==
    /\ \A r \in LocalReader : sent < got[r] + Window
    /\ sent' = sent + 1
    /\ UNCHANGED got

Dequeue(r) ==
    /\ got[r] < sent
    /\ got' = [got EXCEPT ![r] = @ + 1]
    /\ UNCHANGED sent

Next == Enqueue \/ \E r \in LocalReader \cup RemoteReader : Dequeue(r)

Spec == Init /\ [][Next]_vars
===============================================================================
