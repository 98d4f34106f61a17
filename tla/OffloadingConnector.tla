-------------------------- MODULE OffloadingConnector --------------------------
(***************************************************************************)
(* KV offloading: the OffloadingConnector between the scheduler, the       *)
(* LRUOffloadingManager and the workers' copy jobs, with the scheduler's   *)
(* states for requests whose KV is loaded and whose blocks are freed later.*)
(*                                                                         *)
(* A prompt is a sequence of block hashes and a partial block behind them; *)
(* one step computes one block of a request.  GPU prefix caching is off,   *)
(* blocks of GPU and CPU have one size, and a request ends once its prompt *)
(* is computed.  What a GPU or CPU block holds is the hash whose KV was    *)
(* written there.                                                          *)
(***************************************************************************)
EXTENDS LRUOffloading, Functions

CONSTANTS
    Request,
    Prompt,             \* Prompt[r]: the hashes of the full blocks of r
    NumGPUBlocks,
    MaxScheduled,       \* blocks computed in one step (the token budget)
    MayAbort,           \* requests that a client may abort
    AbortLoading,       \* whether it may while their KV is loaded
    StreamsOrdered      \* whether stores wait for the model to be computed

ASSUME ConnectorAssumption ==
    /\ \A r \in Request : Len(Prompt[r]) < NumGPUBlocks
    /\ MayAbort \subseteq Request
    /\ AbortLoading \in BOOLEAN /\ StreamsOrdered \in BOOLEAN
    /\ MaxScheduled > 0

Junk == "junk"      \* what a block holds that no one has written

VARIABLES
    lru,                                        \* the offloading manager
    \* The scheduler: queues, status, computed blocks, GPU block tables.
    waiting, running, status, num_computed, req_to_blocks, free_block_queue,
    finished_req_ids, finished_recving, step,
    \* OffloadingConnectorScheduler.
    request_block_ids, reqs_to_load, next_stored_block_idx,
    reqs_being_stored, reqs_being_loaded,
    \* The scheduler output under way and the workers' answer.
    output,
    \* OffloadingConnectorWorker: the jobs, the requests with an entry in
    \* _store_jobs, and those that ended before their stores did.
    jobs, store_reqs, finished_waiting_for_store,
    \* Memory, and the model's writes that are launched but not done.
    gpu, cpu, launched

scheduler == <<waiting, running, status, num_computed, req_to_blocks,
               free_block_queue, finished_req_ids, finished_recving, step>>
connector == <<request_block_ids, reqs_to_load, next_stored_block_idx,
               reqs_being_stored, reqs_being_loaded>>
worker == <<jobs, store_reqs, finished_waiting_for_store>>
memory == <<gpu, cpu, launched>>
vars == <<lru, scheduler, connector, output, worker, memory>>

GPUBlock == 1 .. NumGPUBlocks

Idle ==
    [phase |-> "idle", req_index |-> 1, budget |-> MaxScheduled,
     new_reqs |-> <<>>, cached_reqs |-> <<>>, skipped |-> <<>>, preempted |-> FALSE]

Init ==
    /\ lru = EmptyLRU
    /\ waiting = <<>> /\ running = <<>>
    /\ status = [r \in Request |-> "NONE"]
    /\ num_computed = [r \in Request |-> 0]
    /\ req_to_blocks = [r \in Request |-> <<>>]
    /\ free_block_queue = [i \in GPUBlock |-> i]
    /\ finished_req_ids = {} /\ finished_recving = {} /\ step = Idle
    /\ request_block_ids = [r \in Request |-> <<>>]
    /\ reqs_to_load = {}
    /\ next_stored_block_idx = [r \in Request |-> 0]
    /\ reqs_being_stored = [r \in Request |-> {}]
    /\ reqs_being_loaded = [r \in Request |-> {}]
    /\ output = <<>>
    /\ jobs = <<>> /\ store_reqs = {} /\ finished_waiting_for_store = {}
    /\ gpu = [b \in GPUBlock |-> Junk]
    /\ cpu = [b \in CPUBlock |-> Junk]
    /\ launched = {}

NumBlocks(r) == Len(Prompt[r]) + 1

\* The n oldest free blocks, and the queue without them.
Popped(n) == SubSeq(free_block_queue, 1, n)
Rest(n) == SubSeq(free_block_queue, n + 1, Len(free_block_queue))

-------------------------------------------------------------------------------
(* schedule(). *)

AddRequest(r) ==
    /\ step.phase = "idle" /\ output = <<>>
    /\ status[r] = "NONE"
    /\ status' = [status EXCEPT ![r] = "WAITING"]
    /\ waiting' = Append(waiting, r)
    /\ UNCHANGED <<lru, running, num_computed, req_to_blocks, free_block_queue,
                   finished_req_ids, finished_recving, step,
                   connector, output, worker, memory>>

\* The engine steps while a request is unfinished or its end is not yet told to
\* the workers.
has_requests == waiting # <<>> \/ running # <<>> \/ finished_req_ids # {}

BeginSchedule ==
    /\ step.phase = "idle" /\ output = <<>> /\ has_requests
    /\ step' = [step EXCEPT !.phase = "running"]
    /\ UNCHANGED <<lru, waiting, running, status, num_computed, req_to_blocks,
                   free_block_queue, finished_req_ids, finished_recving,
                   connector, output, worker, memory>>

\* The next running request gets a block, unless it holds one already; when
\* none is free, the last running request is preempted and it is tried again.
ScheduleRunning ==
    /\ step.phase = "running"
    /\ step.req_index <= Len(running) /\ step.budget > 0
    /\ LET r == running[step.req_index]
           missing == num_computed[r] + 1 - Len(req_to_blocks[r])
           victim == Last(running)
       IN  \/ /\ missing <= Len(free_block_queue)
              /\ req_to_blocks' = [req_to_blocks EXCEPT ![r] = @ \o Popped(missing)]
              /\ free_block_queue' = Rest(missing)
              /\ step' = [step EXCEPT !.req_index = @ + 1, !.budget = @ - 1,
                             !.cached_reqs = Append(@, [req |-> r, resumed |-> FALSE,
                                                        new |-> Popped(missing)])]
              /\ UNCHANGED <<waiting, running, status, num_computed>>
           \/ /\ missing > Len(free_block_queue)
              /\ running' = Front(running)
              /\ waiting' = <<victim>> \o waiting
              /\ status' = [status EXCEPT ![victim] = "PREEMPTED"]
              /\ num_computed' = [num_computed EXCEPT ![victim] = 0]
              /\ free_block_queue' = free_block_queue \o Reverse(req_to_blocks[victim])
              /\ req_to_blocks' = [req_to_blocks EXCEPT ![victim] = <<>>]
              /\ step' = [step EXCEPT !.preempted = TRUE,
                             !.phase = IF victim = r THEN "output" ELSE @]
    /\ UNCHANGED <<lru, finished_req_ids, finished_recving, connector, output,
                   worker, memory>>

BeginWaiting ==
    /\ step.phase = "running"
    /\ step.req_index > Len(running) \/ step.budget = 0
    /\ step' = [step EXCEPT !.phase = IF step.preempted THEN "output" ELSE "waiting"]
    /\ UNCHANGED <<lru, waiting, running, status, num_computed, req_to_blocks,
                   free_block_queue, finished_req_ids, finished_recving,
                   connector, output, worker, memory>>

\* The head of the waiting queue whose KV is still being loaded is skipped.
SkipLoading ==
    /\ step.phase = "waiting" /\ waiting # <<>> /\ step.budget > 0
    /\ LET r == Head(waiting)
       IN  /\ status[r] = "WAITING_FOR_REMOTE_KVS" /\ r \notin finished_recving
           /\ waiting' = Tail(waiting)
           /\ step' = [step EXCEPT !.skipped = <<r>> \o @]
    /\ UNCHANGED <<lru, running, status, num_computed, req_to_blocks,
                   free_block_queue, finished_req_ids, finished_recving,
                   connector, output, worker, memory>>

\* Mutant of LoadArrived: the arrival is taken note of, but the request keeps waiting.
ArrivalForgotten ==
    /\ step.phase = "waiting" /\ waiting # <<>> /\ step.budget > 0
    /\ Head(waiting) \in finished_recving
    /\ finished_recving' = finished_recving \ {Head(waiting)}
    /\ UNCHANGED <<lru, waiting, running, status, num_computed, req_to_blocks,
                   free_block_queue, finished_req_ids, step, connector, output, worker,
                   memory>>

\* _update_waiting_for_remote_kv.
LoadArrived ==
    /\ step.phase = "waiting" /\ waiting # <<>> /\ step.budget > 0
    /\ LET r == Head(waiting)
       IN  /\ status[r] = "WAITING_FOR_REMOTE_KVS" /\ r \in finished_recving
           /\ status' = [status EXCEPT ![r] = "WAITING"]
           /\ num_computed' = [num_computed EXCEPT ![r] = Len(req_to_blocks[r])]
           /\ finished_recving' = finished_recving \ {r}
    /\ UNCHANGED <<lru, waiting, running, req_to_blocks, free_block_queue,
                   finished_req_ids, step, connector, output, worker, memory>>

\* get_num_new_matched_tokens touches the blocks and counts those offloaded.
Hits(r) ==
    IF num_computed[r] > 0 THEN 0 ELSE lookup(touch(lru, Prompt[r]), Prompt[r])
TouchedBy(r) == IF num_computed[r] > 0 THEN lru ELSE touch(lru, Prompt[r])

\* Offloaded blocks of the head's prompt: GPU blocks are allocated for them, and
\* update_state_after_alloc prepares the load.
ScheduleLoad ==
    /\ step.phase = "waiting" /\ waiting # <<>> /\ step.budget > 0
    /\ LET r == Head(waiting)
           n == Hits(r)
           hashes == SubSeq(Prompt[r], 1, n)
           ids == [i \in 1 .. n |-> EntryOf(lru, hashes[i]).block_id]
       IN  /\ status[r] # "WAITING_FOR_REMOTE_KVS"
           /\ n > 0 /\ n <= Len(free_block_queue)
           /\ lru' = prepare_load(TouchedBy(r), ToSet(hashes))
           /\ req_to_blocks' = [req_to_blocks EXCEPT ![r] = Popped(n)]
           /\ free_block_queue' = Rest(n)
           /\ status' = [status EXCEPT ![r] = "WAITING_FOR_REMOTE_KVS"]
           /\ waiting' = Tail(waiting)
           /\ step' = [step EXCEPT !.skipped = <<r>> \o @]
           /\ request_block_ids' = [request_block_ids EXCEPT ![r] = <<>>]
           /\ reqs_to_load' = reqs_to_load \cup
                 {[req |-> r, store |-> FALSE, src |-> ids, dst |-> Popped(n),
                   copied |-> FALSE]}
           /\ reqs_being_loaded' = [reqs_being_loaded EXCEPT ![r] = @ \cup ToSet(hashes)]
           /\ next_stored_block_idx' = [next_stored_block_idx EXCEPT ![r] = n]
    /\ UNCHANGED <<running, num_computed, finished_req_ids, finished_recving,
                   reqs_being_stored, output, worker, memory>>

\* Nothing to load: the head gets its next block and runs.
ScheduleNew ==
    /\ step.phase = "waiting" /\ waiting # <<>> /\ step.budget > 0
    /\ LET r == Head(waiting)
           table == req_to_blocks[r] \o Popped(1)
           data == [req |-> r, resumed |-> status[r] = "PREEMPTED", new |-> table]
       IN  /\ status[r] # "WAITING_FOR_REMOTE_KVS"
           /\ Hits(r) = 0 /\ free_block_queue # <<>>
           /\ lru' = TouchedBy(r)
           /\ req_to_blocks' = [req_to_blocks EXCEPT ![r] = table]
           /\ free_block_queue' = Rest(1)
           /\ status' = [status EXCEPT ![r] = "RUNNING"]
           /\ waiting' = Tail(waiting) /\ running' = Append(running, r)
           /\ step' = IF status[r] = "PREEMPTED"
                      THEN [step EXCEPT !.budget = @ - 1,
                                        !.cached_reqs = Append(@, data)]
                      ELSE [step EXCEPT !.budget = @ - 1,
                                        !.new_reqs = Append(@, data)]
           /\ request_block_ids' = [request_block_ids EXCEPT ![r] = <<>>]
    /\ UNCHANGED <<num_computed, finished_req_ids, finished_recving, reqs_to_load,
                   next_stored_block_idx, reqs_being_stored, reqs_being_loaded,
                   output, worker, memory>>

\* allocate_slots returns None for the head of the waiting queue.
NoRoom ==
    /\ step.phase = "waiting" /\ waiting # <<>> /\ step.budget > 0
    /\ LET r == Head(waiting)
       IN  /\ status[r] # "WAITING_FOR_REMOTE_KVS"
           /\ Max({1, Hits(r)}) > Len(free_block_queue)
           /\ lru' = TouchedBy(r)
           /\ step' = [step EXCEPT !.phase = "output"]
    /\ UNCHANGED <<waiting, running, status, num_computed, req_to_blocks,
                   free_block_queue, finished_req_ids, finished_recving,
                   connector, output, worker, memory>>

-------------------------------------------------------------------------------
(* The end of schedule(): build_connector_meta and _update_after_schedule. *)

\* Mutant of ListIds: the new blocks replace the known ones.
ListIdsReplaced(acc, d) == [acc EXCEPT !.ids[d.req] = d.new]

\* The new blocks of a scheduled request are added to those known.
ListIds(acc, d) ==
    [acc EXCEPT !.ids[d.req] = (IF d.resumed THEN <<>> ELSE @) \o d.new]

\* _get_reqs_to_store for one scheduled request.  acc holds the connector's
\* state, the jobs made so far, and whether the loop was left with break.  The
\* block id 0 stands for an index beyond the end of block_ids.
StoreBlocks(acc, d) ==
    LET r == d.req
        listed == ListIds(acc, d)
        ids == listed.ids[r]
        start == acc.next[r]
        end == Min({num_computed[r] + 1, Len(Prompt[r])})
        hashes == SubSeq(Prompt[r], start + 1, end)
        new == ToStore(acc.lru, hashes)
        prepared == prepare_store(acc.lru, hashes)
        places == SelectSeq([i \in 1 .. end |-> i],
                            LAMBDA i : i > start /\ Prompt[r][i] \in ToSet(new))
        src == [i \in DOMAIN places |-> IF places[i] <= Len(ids) THEN ids[places[i]]
                                        ELSE 0]
        stored == [listed EXCEPT !.next[r] = end, !.lru = prepared.manager]
    IN  CASE acc.stop -> acc
          [] ~ acc.stop /\ end <= start -> listed
          [] ~ acc.stop /\ end > start /\ ~ CanStore(acc.lru, hashes) ->
               [listed EXCEPT !.stop = TRUE]
          [] ~ acc.stop /\ end > start /\ CanStore(acc.lru, hashes) /\ new = <<>> ->
               stored
          [] OTHER ->
               [stored EXCEPT
                   !.lru = touch(@, SubSeq(Prompt[r], 1, end)),
                   !.being_stored[r] = @ \cup ToSet(new),
                   !.jobs = Append(@, [req |-> r, store |-> TRUE, src |-> src,
                                       dst |-> prepared.ids, copied |-> FALSE])]

\* Mutant of Requeued: the skipped requests are forgotten.
SkippedForgotten(skipped, queue) == queue

\* prepend_requests: the requests skipped in this step wait in front again.
Requeued(skipped, queue) == skipped \o queue

FinishSchedule ==
    /\ \/ step.phase = "output"
       \/ step.phase = "waiting" /\ (waiting = <<>> \/ step.budget = 0)
    /\ LET scheduled == step.new_reqs \o step.cached_reqs
           reqs == {d.req : d \in ToSet(scheduled)}
           meta == FoldLeft(StoreBlocks,
                            [lru |-> lru, ids |-> request_block_ids,
                             next |-> next_stored_block_idx,
                             being_stored |-> reqs_being_stored,
                             jobs |-> <<>>, stop |-> FALSE],
                            scheduled)
       IN  /\ lru' = meta.lru
           /\ request_block_ids' = meta.ids
           /\ next_stored_block_idx' = meta.next
           /\ reqs_being_stored' = meta.being_stored
           /\ output' = <<[load |-> SetToSeq(reqs_to_load), store |-> meta.jobs,
                           reqs |-> reqs,
                           writes |-> {<<req_to_blocks[r][num_computed[r] + 1],
                                         num_computed[r] + 1, r>> : r \in reqs},
                           finished |-> finished_req_ids, executed |-> FALSE,
                           sent |-> {}, received |-> {}]>>
           /\ num_computed' = [r \in Request |-> IF r \in reqs THEN num_computed[r] + 1
                                                 ELSE num_computed[r]]
    /\ reqs_to_load' = {}
    /\ finished_req_ids' = {}
    /\ waiting' = Requeued(step.skipped, waiting)
    /\ step' = Idle
    /\ UNCHANGED <<running, status, req_to_blocks, free_block_queue,
                   finished_recving, reqs_being_loaded, worker, memory>>

-------------------------------------------------------------------------------
(* The workers. *)

StoreJobs(js, r) == {j \in ToSet(js) : j.store /\ j.req = r}


\* get_finished, the requests that finished sending: those that ended and have
\* no store left.
FinishedSending(done, left, ended) ==
    LET pending(r) == StoreJobs(left, r) # {}
    IN  {r \in finished_waiting_for_store : StoreJobs(done, r) # {} /\ ~ pending(r)}
        \cup {r \in ended \cap store_reqs : ~ pending(r)}

\* execute_model: the loads start, the model is launched, the stores start, and
\* get_finished collects the jobs that are done.
ExecuteModel ==
    /\ output # <<>> /\ ~ output[1].executed
    /\ LET out == output[1]
           all == jobs \o out.load \o out.store
           done == SelectSeq(all, LAMBDA j : j.copied)
           left == SelectSeq(all, LAMBDA j : ~ j.copied)
           started == store_reqs \cup {j.req : j \in ToSet(out.store)}
           sent == FinishedSending(done, left, out.finished)
           received == {j.req : j \in {k \in ToSet(done) : ~ k.store}}
       IN  /\ jobs' = left
           /\ store_reqs' = started \ sent
           /\ finished_waiting_for_store' =
                 (finished_waiting_for_store \cup
                    {r \in out.finished : StoreJobs(left, r) # {}}) \ sent
           /\ launched' = out.writes
           /\ output' = <<[out EXCEPT !.executed = TRUE, !.sent = sent,
                                      !.received = received]>>
    /\ UNCHANGED <<lru, scheduler, connector, gpu, cpu>>

\* The model writes the KV of the scheduled blocks.
Compute ==
    /\ launched # {}
    /\ gpu' = [b \in GPUBlock |->
                 IF \E w \in launched : w[1] = b
                 THEN LET w == CHOOSE x \in launched : x[1] = b
                      IN  IF w[2] <= Len(Prompt[w[3]]) THEN Prompt[w[3]][w[2]] ELSE Junk
                 ELSE gpu[b]]
    /\ launched' = {}
    /\ UNCHANGED <<lru, scheduler, connector, output, worker, cpu>>

\* The oldest job of a stream copies its blocks.
Copy(k) ==
    /\ ~ jobs[k].copied
    /\ \A i \in 1 .. k - 1 : jobs[i].store = jobs[k].store => jobs[i].copied
    /\ StreamsOrdered /\ jobs[k].store => launched = {}
    /\ LET j == jobs[k]
           moved(to, from) ==
              [b \in DOMAIN to |->
                 IF \E i \in DOMAIN j.dst : j.dst[i] = b
                 THEN LET s == j.src[CHOOSE i \in DOMAIN j.dst : j.dst[i] = b]
                      IN  IF s \in DOMAIN from THEN from[s] ELSE Junk
                 ELSE to[b]]
       IN  IF j.store THEN cpu' = moved(cpu, gpu) /\ UNCHANGED gpu
           ELSE gpu' = moved(gpu, cpu) /\ UNCHANGED cpu
    /\ jobs' = [jobs EXCEPT ![k].copied = TRUE]
    /\ UNCHANGED <<lru, scheduler, connector, output, store_reqs,
                   finished_waiting_for_store, launched>>

-------------------------------------------------------------------------------
(* update_from_output and aborts. *)

\* Mutant of RequestFinished: the connector never delays the free.
FreeAtOnce(S) == {}

\* request_finished: the requests of S whose blocks are still being stored.
RequestFinished(S) == {r \in S : reqs_being_stored[r] # {}}

\* _free_blocks of the requests of a sequence.
FreeBlocks(gone) ==
    /\ free_block_queue' = free_block_queue
          \o FlattenSeq([i \in DOMAIN gone |-> Reverse(req_to_blocks[gone[i]])])
    /\ req_to_blocks' = [r \in Request |-> IF r \in ToSet(gone) THEN <<>>
                                           ELSE req_to_blocks[r]]

\* The requests with all of their prompt computed end, then the transfers that
\* the workers report are done.
UpdateFromOutput ==
    /\ output # <<>> /\ output[1].executed /\ launched = {}
    /\ LET out == output[1]
           ended == {r \in out.reqs : num_computed[r] = NumBlocks(r)}
           kept == RequestFinished(ended)
           gone == (ended \ kept) \cup out.sent
       IN  /\ status' = [r \in Request |-> CASE r \in gone -> "GONE"
                                             [] r \in kept \ gone -> "FINISHED"
                                             [] OTHER -> status[r]]
           /\ running' = SelectSeq(running, LAMBDA r : r \notin ended)
           /\ finished_req_ids' = finished_req_ids \cup ended
           /\ finished_recving' = finished_recving \cup out.received
           /\ FreeBlocks(SetToSeq(gone))
           /\ lru' = FoldLeft(LAMBDA m, r : complete_load(m, reqs_being_loaded[r]),
                              FoldLeft(LAMBDA m, r : complete_store(m, reqs_being_stored[r]),
                                       lru, SetToSeq(out.sent)),
                              SetToSeq(out.received))
           /\ reqs_being_stored' = [r \in Request |->
                                      IF r \in out.sent THEN {} ELSE reqs_being_stored[r]]
           /\ reqs_being_loaded' = [r \in Request |->
                                      IF r \in out.received THEN {}
                                      ELSE reqs_being_loaded[r]]
    /\ output' = <<>>
    /\ UNCHANGED <<waiting, num_computed, step, request_block_ids, reqs_to_load,
                   next_stored_block_idx, worker, memory>>

\* finish_requests between two steps.
Abort(r) ==
    /\ step.phase = "idle" /\ output = <<>>
    /\ status[r] \notin {"NONE", "GONE"}
    /\ status[r] = "WAITING_FOR_REMOTE_KVS" => AbortLoading
    /\ waiting' = Remove(waiting, r) /\ running' = Remove(running, r)
    /\ finished_req_ids' = finished_req_ids \cup {r}
    /\ IF RequestFinished({r}) = {}
       THEN FreeBlocks(<<r>>) /\ status' = [status EXCEPT ![r] = "GONE"]
       ELSE /\ status' = [status EXCEPT ![r] = "FINISHED"]
            /\ UNCHANGED <<free_block_queue, req_to_blocks>>
    /\ UNCHANGED <<lru, num_computed, finished_recving, step, connector, output,
                   worker, memory>>

Done ==
    /\ ~ has_requests /\ step.phase = "idle" /\ output = <<>>
    /\ \A r \in Request : status[r] # "NONE"
    /\ \A k \in DOMAIN jobs : jobs[k].copied
    /\ UNCHANGED vars

EngineStep ==
    \/ BeginSchedule \/ ScheduleRunning \/ BeginWaiting \/ SkipLoading \/ LoadArrived
    \/ ScheduleLoad \/ ScheduleNew \/ NoRoom \/ FinishSchedule
    \/ ExecuteModel \/ UpdateFromOutput

Next ==
    \/ \E r \in Request : AddRequest(r)
    \/ \E r \in MayAbort : Abort(r)
    \/ EngineStep
    \/ Compute
    \/ \E k \in DOMAIN jobs : Copy(k)
    \/ Done

Spec == Init /\ [][Next]_vars

\* The engine loop takes its next step whenever it has one, the GPU computes what
\* was launched, and each copy stream works through its queue.
EngineReady ==
    IF output # <<>> THEN ~ output[1].executed \/ launched = {}
    ELSE step.phase # "idle" \/ has_requests
StreamReady(store) ==
    \E k \in DOMAIN jobs : jobs[k].store = store /\ ~ jobs[k].copied
StreamStep(store) == \E k \in DOMAIN jobs : jobs[k].store = store /\ Copy(k)

FairSpec ==
    /\ Spec
    /\ []<>(~ EngineReady) \/ []<><<EngineStep>>_vars
    /\ []<>(launched = {})
    /\ \A store \in BOOLEAN : []<>(~ StreamReady(store)) \/ []<><<StreamStep(store)>>_vars

-------------------------------------------------------------------------------
(* Properties. *)

\* The transfers that the workers have not yet reported.
Transfers ==
    ToSet(jobs) \cup reqs_to_load
    \cup (IF output # <<>> /\ ~ output[1].executed
          THEN ToSet(output[1].load) \cup ToSet(output[1].store) ELSE {})

\* Every variable has its type, and a request is queued where its status says.
ConnectorTypeOK ==
    /\ ToSet(lru.blocks) \subseteq Entry
    /\ \A r \in Request :
          /\ r \in ToSet(running) <=> status[r] = "RUNNING"
          /\ r \in ToSet(waiting \o step.skipped)
                <=> status[r] \in {"WAITING", "PREEMPTED", "WAITING_FOR_REMOTE_KVS"}
          /\ num_computed[r] \in 0 .. NumBlocks(r)
          /\ ToSet(req_to_blocks[r]) \subseteq GPUBlock
          /\ reqs_being_stored[r] \cup reqs_being_loaded[r] \subseteq Hash
    /\ \A j \in Transfers : Len(j.src) = Len(j.dst)
    /\ finished_waiting_for_store \subseteq store_reqs

\* Every CPU block the backend ever handed out is either the place of exactly
\* one offloaded hash or in the free list, once: eviction and reuse in
\* prepare_store neither lose a block nor share it.
CPUBlocksExact ==
    LET held == [i \in DOMAIN lru.blocks |-> lru.blocks[i].block_id]
        ids == held \o lru.allocated_blocks_free_list
    IN  /\ IsInjective(ids)
        /\ ToSet(ids) = 0 .. lru.num_allocated_blocks - 1
        /\ Cardinality(Stored(lru)) = Len(lru.blocks)

\* While a copy between GPU and CPU is under way, its CPU blocks keep the hash
\* they were prepared for: a store's blocks are not readable yet, and a load's
\* blocks are held, so no other prepare_store can evict or reuse them.
TransfersProtected ==
    \A j \in Transfers : \A b \in ToSet(IF j.store THEN j.dst ELSE j.src) :
        \E e \in ToSet(lru.blocks) :
            /\ e.block_id = b
            /\ IF j.store THEN e.hash \in reqs_being_stored[j.req] /\ ~ is_ready(e)
               ELSE e.hash \in reqs_being_loaded[j.req] /\ e.ref_cnt > 0

\* The reference count of a readable block is the number of loads of it, and a
\* block that is not readable is being stored by exactly one request: aborts,
\* preemptions and late completions leave no block pinned for ever.
RefCountsExact ==
    \A e \in ToSet(lru.blocks) :
        IF is_ready(e)
        THEN e.ref_cnt = Cardinality({r \in Request : e.hash \in reqs_being_loaded[r]})
        ELSE Cardinality({r \in Request : e.hash \in reqs_being_stored[r]}) = 1

\* A request whose end was reported with stores under way is still known when
\* its finished_sending arrives, so the late free finds it.
LateFreeFindsRequest ==
    output # <<>> => \A r \in output[1].sent : status[r] = "FINISHED"



\* No block in the free queue is read or written by a copy that is not done.
FreeBlocksIdle ==
    \A j \in Transfers : ~ j.copied =>
        ToSet(IF j.store THEN j.src ELSE j.dst) \cap ToSet(free_block_queue) = {}

\* Between two steps the connector knows the block table of every running
\* request.
BlockIdsTracked ==
    step.phase = "idle" =>
        \A r \in ToSet(running) : request_block_ids[r] = req_to_blocks[r]

\* Every request ends: it computes its prompt or is aborted, whatever it had to
\* load and whichever blocks were still being stored.
EveryRequestEnds ==
    \A r \in Request : status[r] # "NONE" ~> status[r] \in {"FINISHED", "GONE"}
===============================================================================
