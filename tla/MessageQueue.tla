----------------------------- MODULE MessageQueue -----------------------------
(***************************************************************************)
(* The broadcast queue of shm_broadcast.py: the class ShmRingBuffer (a     *)
(* ring of chunks in shared memory, each with a written flag and one read  *)
(* flag per local reader) and the class MessageQueue on top of it.  One    *)
(* process writes; local readers poll the ring, remote readers a socket.   *)
(* There is no lock: every access of a flag is a step of its own here, and *)
(* so are the beginning and the end of the caller's copy into a chunk.     *)
(* The flags are single bytes, read and written in program order.          *)
(***************************************************************************)
EXTENDS Naturals, Sequences, FiniteSets

CONSTANTS
    LocalReader,    \* readers on the writer's node
    RemoteReader,   \* readers on other nodes
    Impatient,      \* local readers whose dequeue may time out on the socket
    MaxChunks,      \* max_chunks
    MaxMessages     \* bound of the model: how many messages are enqueued

ASSUME QueueAssumption ==
    /\ LocalReader \cap RemoteReader = {}
    /\ Impatient \subseteq LocalReader
    /\ MaxChunks \in Nat \ {0}
    /\ MaxMessages \in Nat

Reader == LocalReader \cup RemoteReader
Chunk == 0 .. MaxChunks - 1

\* Messages are numbered from 1 in the order of the enqueue calls; 0 is the
\* READY message on a socket, and partly written bytes in a chunk.
READY == 0
Garbage == [msg |-> 0, overflow |-> FALSE]

VARIABLES
    \* Shared memory: the metadata bytes and the data of each chunk.
    written, read, data,
    \* The sockets, as the queue of messages each reader has yet to receive.
    subscribed, socket,
    \* The writer: where it is, current_idx, the message it is enqueuing,
    \* whether that one overflows a chunk, the read flags still to reset.
    wpc, widx, msg, overflow, toReset, sent,
    \* Each reader: where it is, current_idx, the read flag it sampled, the
    \* chunk's content it copied, the last message dequeue returned.
    rpc, ridx, readFlag, copy, got

shm == <<written, read, data>>
sockets == <<subscribed, socket>>
writer == <<wpc, widx, msg, overflow, toReset, sent>>
reader == <<rpc, ridx, readFlag, copy, got>>
vars == <<shm, sockets, writer, reader>>

Init ==
    /\ written = [c \in Chunk |-> FALSE]
    /\ read = [c \in Chunk |-> [r \in LocalReader |-> FALSE]]
    /\ data = [c \in Chunk |-> Garbage]
    /\ subscribed = {}
    /\ socket = [r \in Reader |-> <<>>]
    /\ wpc = "wait_local" /\ widx = 0 /\ msg = 0 /\ overflow = FALSE
    /\ toReset = {} /\ sent = 0
    /\ rpc = [r \in Reader |-> "connect"]
    /\ ridx = [r \in LocalReader |-> 0]
    /\ readFlag = [r \in LocalReader |-> FALSE]
    /\ copy = [r \in LocalReader |-> Garbage]
    /\ got = [r \in Reader |-> 0]

NextIdx(i) == (i + 1) % MaxChunks

\* A publish socket delivers in order to those who have subscribed, and drops
\* the message for those who have not.
Send(S, m) ==
    /\ socket' = [r \in Reader |-> IF r \in S \cap subscribed
                                   THEN Append(socket[r], m) ELSE socket[r]]
    /\ UNCHANGED subscribed

-------------------------------------------------------------------------------
(* wait_until_ready, the rendezvous before first use. *)

\* Mutant of AllSubscribed: one subscription is not waited for.
AllButOneSubscribed(S) == Cardinality(S \ subscribed) <= 1

AllSubscribed(S) == S \subseteq subscribed

WaitLocal ==
    /\ wpc = "wait_local" /\ AllSubscribed(LocalReader)
    /\ Send(LocalReader, READY)
    /\ wpc' = "wait_remote"
    /\ UNCHANGED <<shm, widx, msg, overflow, toReset, sent, reader>>

WaitRemote ==
    /\ wpc = "wait_remote" /\ AllSubscribed(RemoteReader)
    /\ Send(RemoteReader, READY)
    /\ wpc' = "idle"
    /\ UNCHANGED <<shm, widx, msg, overflow, toReset, sent, reader>>

\* create_from_handle: the subscription reaches the writer's socket.
Connect(r) ==
    /\ rpc[r] = "connect"
    /\ subscribed' = subscribed \cup {r}
    /\ rpc' = [rpc EXCEPT ![r] = "wait_ready"]
    /\ UNCHANGED <<shm, socket, writer, ridx, readFlag, copy, got>>

WaitReady(r) ==
    /\ rpc[r] = "wait_ready" /\ socket[r] # <<>>
    /\ rpc' = [rpc EXCEPT ![r] = IF Head(socket[r]) = READY THEN "idle" ELSE "failed"]
    /\ socket' = [socket EXCEPT ![r] = Tail(@)]
    /\ UNCHANGED <<shm, subscribed, writer, ridx, readFlag, copy, got>>

-------------------------------------------------------------------------------
(* enqueue and acquire_write. *)

Enqueue ==
    /\ wpc = "idle" /\ sent < MaxMessages
    /\ msg' = sent + 1
    /\ IF LocalReader = {}
       THEN wpc' = "send_remote" /\ UNCHANGED overflow
       ELSE wpc' = "acquire" /\ overflow' \in BOOLEAN
    /\ UNCHANGED <<shm, sockets, widx, toReset, sent, reader>>

\* Mutant of ChunkBusy: one reader's flag is enough.
ChunkBusyUnlessSomeRead ==
    written[widx] /\ \A r \in LocalReader : ~read[widx][r]

\* The chunk is written and some reader has yet to read it.  sum() looks at the
\* read flags one by one; they only rise while the writer waits, so a sum of
\* n_reader is still true when the last of them has been read.
ChunkBusy == written[widx] /\ \E r \in LocalReader : ~read[widx][r]

AcquireWrite ==
    /\ wpc = "acquire" /\ ~ChunkBusy
    /\ wpc' = "unmark"
    /\ UNCHANGED <<shm, sockets, widx, msg, overflow, toReset, sent, reader>>

\* TimeoutError leaves the ring as it is; the message is not enqueued.
AcquireWriteTimeout ==
    /\ wpc = "acquire" /\ ChunkBusy
    /\ wpc' = "idle"
    /\ UNCHANGED <<shm, sockets, widx, msg, overflow, toReset, sent, reader>>

Unmark ==
    /\ wpc = "unmark"
    /\ written' = [written EXCEPT ![widx] = FALSE]
    /\ wpc' = "fill"
    /\ UNCHANGED <<read, data, sockets, widx, msg, overflow, toReset, sent, reader>>

BeginFill ==
    /\ wpc = "fill"
    /\ data' = [data EXCEPT ![widx] = Garbage]
    /\ wpc' = "filling"
    /\ UNCHANGED <<written, read, sockets, widx, msg, overflow, toReset, sent, reader>>

\* Mutant of EndFill: the overflow byte is not written.
EndFillWithoutOverflow ==
    /\ wpc = "filling"
    /\ data' = [data EXCEPT ![widx] = [msg |-> IF overflow THEN 0 ELSE msg,
                                       overflow |-> FALSE]]
    /\ toReset' = LocalReader
    /\ wpc' = "reset"
    /\ UNCHANGED <<written, read, sockets, widx, msg, overflow, sent, reader>>

\* An overflowing message leaves only the overflow byte in the chunk.
EndFill ==
    /\ wpc = "filling"
    /\ data' = [data EXCEPT ![widx] = [msg |-> IF overflow THEN 0 ELSE msg,
                                       overflow |-> overflow]]
    /\ toReset' = LocalReader
    /\ wpc' = "reset"
    /\ UNCHANGED <<written, read, sockets, widx, msg, overflow, sent, reader>>

\* Mutant of ResetReadFlag: the read flags stay as the last round left them.
ReadFlagsKept ==
    /\ wpc = "reset" /\ toReset # {}
    /\ toReset' = {}
    /\ UNCHANGED <<shm, sockets, wpc, widx, msg, overflow, sent, reader>>

ResetReadFlag ==
    /\ wpc = "reset"
    /\ \E r \in toReset : /\ read' = [read EXCEPT ![widx][r] = FALSE]
                          /\ toReset' = toReset \ {r}
    /\ UNCHANGED <<written, data, sockets, wpc, widx, msg, overflow, sent, reader>>

MarkWritten ==
    /\ wpc = "reset" /\ toReset = {}
    /\ written' = [written EXCEPT ![widx] = TRUE]
    /\ widx' = NextIdx(widx)
    /\ sent' = msg
    /\ wpc' = IF overflow THEN "send_local"
              ELSE IF RemoteReader # {} THEN "send_remote" ELSE "idle"
    /\ UNCHANGED <<read, data, sockets, msg, overflow, toReset, reader>>

\* The message itself follows its chunk on the local socket.
SendLocal ==
    /\ wpc = "send_local"
    /\ Send(LocalReader, msg)
    /\ wpc' = IF RemoteReader # {} THEN "send_remote" ELSE "idle"
    /\ UNCHANGED <<shm, widx, msg, overflow, toReset, sent, reader>>

SendRemote ==
    /\ wpc = "send_remote"
    /\ Send(RemoteReader, msg)
    /\ sent' = msg
    /\ wpc' = "idle"
    /\ UNCHANGED <<shm, widx, msg, overflow, toReset, reader>>

-------------------------------------------------------------------------------
(* dequeue and acquire_read. *)

Dequeue(r) ==
    /\ rpc[r] = "idle"
    /\ rpc' = [rpc EXCEPT ![r] = IF r \in LocalReader THEN "check_read" ELSE "recv"]
    /\ UNCHANGED <<shm, sockets, writer, ridx, readFlag, copy, got>>

CheckReadFlag(r) ==
    /\ rpc[r] = "check_read"
    /\ readFlag' = [readFlag EXCEPT ![r] = read[ridx[r]][r]]
    /\ rpc' = [rpc EXCEPT ![r] = "check_written"]
    /\ UNCHANGED <<shm, sockets, writer, ridx, copy, got>>

\* Not ready: poll again, or raise (a timeout, or the shutdown event) to a
\* caller that may dequeue again later.
CheckWrittenFlag(r) ==
    /\ rpc[r] = "check_written"
    /\ \/ written[ridx[r]] /\ ~readFlag[r] /\ rpc' = [rpc EXCEPT ![r] = "read"]
       \/ /\ ~written[ridx[r]] \/ readFlag[r]
          /\ \E next \in {"check_read", "idle"} : rpc' = [rpc EXCEPT ![r] = next]
    /\ UNCHANGED <<shm, sockets, writer, ridx, readFlag, copy, got>>

ReadChunk(r) ==
    /\ rpc[r] = "read"
    /\ copy' = [copy EXCEPT ![r] = data[ridx[r]]]
    /\ rpc' = [rpc EXCEPT ![r] = "mark"]
    /\ UNCHANGED <<shm, sockets, writer, ridx, readFlag, got>>

MarkRead(r) ==
    /\ rpc[r] = "mark"
    /\ read' = [read EXCEPT ![ridx[r]][r] = TRUE]
    /\ ridx' = [ridx EXCEPT ![r] = NextIdx(@)]
    /\ IF copy[r].overflow
       THEN rpc' = [rpc EXCEPT ![r] = "recv"] /\ UNCHANGED got
       ELSE /\ rpc' = [rpc EXCEPT ![r] = "idle"]
            /\ got' = [got EXCEPT ![r] = copy[r].msg]
    /\ UNCHANGED <<written, data, sockets, writer, readFlag, copy>>

Recv(r) ==
    /\ rpc[r] = "recv" /\ socket[r] # <<>>
    /\ got' = [got EXCEPT ![r] = Head(socket[r])]
    /\ socket' = [socket EXCEPT ![r] = Tail(@)]
    /\ rpc' = [rpc EXCEPT ![r] = "idle"]
    /\ UNCHANGED <<shm, subscribed, writer, ridx, readFlag, copy>>

\* TimeoutError: the chunk that announced the message has been marked read.
RecvTimeout(r) ==
    /\ r \in RemoteReader \cup Impatient
    /\ rpc[r] = "recv" /\ socket[r] = <<>>
    /\ rpc' = [rpc EXCEPT ![r] = "idle"]
    /\ UNCHANGED <<shm, sockets, writer, ridx, readFlag, copy, got>>

-------------------------------------------------------------------------------
\* The steps of an enqueue that has begun, and of wait_until_ready.
WriterStep ==
    \/ WaitLocal \/ WaitRemote
    \/ AcquireWrite \/ Unmark \/ BeginFill \/ EndFill \/ ResetReadFlag
    \/ MarkWritten \/ SendLocal \/ SendRemote

ReaderStep(r) ==
    \/ Connect(r) \/ WaitReady(r) \/ Dequeue(r)
    \/ CheckReadFlag(r) \/ CheckWrittenFlag(r) \/ ReadChunk(r) \/ MarkRead(r)
    \/ Recv(r) \/ RecvTimeout(r)

Next == Enqueue \/ WriterStep \/ AcquireWriteTimeout \/ \E r \in Reader : ReaderStep(r)

Spec == Init /\ [][Next]_vars

\* When WriterStep and ReaderStep are enabled.
WriterReady ==
    /\ wpc # "idle"
    /\ wpc = "wait_local" => LocalReader \subseteq subscribed
    /\ wpc = "wait_remote" => RemoteReader \subseteq subscribed
    /\ wpc = "acquire" => ~ChunkBusy

ReaderReady(r) ==
    /\ rpc[r] # "failed"
    /\ rpc[r] = "wait_ready" => socket[r] # <<>>
    /\ rpc[r] = "recv" => socket[r] # <<>> \/ r \in RemoteReader \cup Impatient

\* Weak fairness, written out: the writer finishes the enqueue it is in, and every
\* reader keeps calling dequeue (worker_busy_loop does nothing else).
FairSpec ==
    /\ Spec
    /\ []<>(~WriterReady) \/ []<><<WriterStep>>_vars
    /\ \A r \in Reader : []<>(~ReaderReady(r)) \/ []<><<ReaderStep(r)>>_vars

-------------------------------------------------------------------------------
(* Properties *)

\* The ring's mutual exclusion, which no lock provides: while a reader is
\* between finding a chunk readable and marking it read, the writer is not
\* between claiming that chunk and marking it written.  It holds for a reader
\* that times out on the socket too: the ring itself stays sound.
NoWriteWhileReading ==
    \A r \in LocalReader :
        rpc[r] \in {"read", "mark"} =>
            ~(wpc \in {"unmark", "fill", "filling", "reset"} /\ widx = ridx[r])

\* wait_until_ready: the first thing every reader receives is READY, so no
\* message was sent to a socket before the reader subscribed to it.
ReadyComesFirst == \A r \in Reader : rpc[r] # "failed"

\* The readers that no timeout interrupts between a chunk and its message.
Patient == Reader \ Impatient

\* The queue as its patient users see it.  A local reader that has marked a chunk
\* read but waits for the overflowing message on the socket lags one message more
\* than the ring has chunks.
Broadcast == INSTANCE BroadcastQueue WITH
                 LocalReader <- LocalReader \ Impatient,
                 Window <- MaxChunks + 1,
                 got <- [r \in Patient |-> got[r]]

\* Each patient reader dequeues every message once, whole and in order, through the
\* ring or the sockets, and the writer never laps a local one: not even while
\* another reader gives up on the socket.
RefinesBroadcast == Broadcast!Spec

\* Every enqueued message is eventually dequeued by every patient reader, whatever
\* the timing of the writer's next messages, of polls that time out, and of
\* messages that overflow a chunk.
EveryMessageDelivered ==
    \A r \in Patient : \A m \in 1 .. MaxMessages : sent >= m ~> got[r] >= m
===============================================================================
