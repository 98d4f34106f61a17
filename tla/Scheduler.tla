------------------------------- MODULE Scheduler -------------------------------
(***************************************************************************)
(* The scheduler of vllm/v1/core/sched/scheduler.py in the busy loop of    *)
(* vllm/v1/engine/core.py, on top of the KV-cache manager.                 *)
(*                                                                         *)
(* One engine step is a sequence of actions that nothing of the engine     *)
(* interrupts (the loop has one thread); phase says where it stands:       *)
(*   idle     between two steps, when client requests are handled          *)
(*   running  in the loop of schedule() over the running queue             *)
(*   waiting  in the loop of schedule() over the waiting queue             *)
(*   execute  the oldest batch of the batch queue is awaited               *)
(*   output   in the loop of update_from_output() over that batch          *)
(* An action is one iteration of a loop, from its head to the next.        *)
(*                                                                         *)
(* With BatchQueueSize = 1 the loop is EngineCore.step; with more it is    *)
(* step_with_batch_queue (pipeline parallelism), where schedule() runs     *)
(* while earlier batches are still in flight.  The worker executes the     *)
(* batches in order; only slots depends on when, so a batch is executed    *)
(* when its output is awaited.                                             *)
(***************************************************************************)
EXTENDS KVCacheManager, FiniteSetsExt

CONSTANTS
    MaxNumRunningReqs,          \* max_num_seqs
    MaxNumScheduledTokens,      \* max_num_batched_tokens
    LongPrefillTokenThreshold,  \* 0: no threshold
    BatchQueueSize,             \* max_concurrent_batches
    Policy,                     \* "fcfs" or "priority"
    Priority,                   \* the rank of (priority, arrival_time)
    Abortable                   \* bound: the requests that their clients may abort

ASSUME SchedulerAssumption ==
    /\ MaxNumRunningReqs \in Nat \ {0}
    /\ MaxNumScheduledTokens \in Nat \ {0}
    /\ LongPrefillTokenThreshold \in Nat
    /\ BatchQueueSize \in Nat \ {0}
    /\ BatchQueueSize > 1 => NumSpeculative = 0
    /\ Policy \in {"fcfs", "priority"}
    /\ Priority \in [Request -> Nat] /\ IsInjective(Priority)
    /\ Abortable \subseteq Request
    /\ NumGpuBlocks - 1 >= cdiv(MaxModelLen, BlockSize)

VARIABLES
    status,             \* request.status, "NONE" for a request not in requests
    running,
    waiting,
    finished_req_ids,
    phase,
    req_index,          \* of the loop over running, 1-based
    request,            \* the request that preempts others, << >> if none does
    token_budget,
    preempted_reqs,     \* has this call of schedule() preempted a request?
    scheduled,          \* the entries of the batch under construction
    batch_queue,        \* the scheduled batches, the oldest first
    output              \* what update_from_output has still to go through

schedVars == <<status, running, waiting, finished_req_ids, phase, req_index, request,
               token_budget, preempted_reqs, scheduled, batch_queue, output>>
allVars == <<vars, schedVars>>

\* A scheduled request: the worker computes the positions first ..
\* first + num - 1 of seq \o draft through the block table.  live is FALSE once
\* the request is gone: update_from_output then finds no such request id.
Entry(r, first, num, table, draft) ==
    [req |-> r, first |-> first, num |-> num, table |-> table,
     seq |-> tokens[r], draft |-> draft, live |-> TRUE]

\* The worker samples for a request whose last token is among those computed.
Samples(e) == e.first + e.num >= Len(e.seq)

Without(q, r) == SelectSeq(q, LAMBDA s : s # r)

Least(a, b) == IF a < b THEN a ELSE b

--------------------------------------------------------------------------------
(* The request queues *)

\* PriorityRequestQueue.add_request, the heap listed in the order of its pops.
HeapPush(q, r) ==
    SelectSeq(q, LAMBDA s : Priority[s] < Priority[r])
      \o <<r>> \o SelectSeq(q, LAMBDA s : Priority[s] > Priority[r])

add_request(q, r) == IF Policy = "fcfs" THEN Append(q, r) ELSE HeapPush(q, r)

prepend_request(q, r) == IF Policy = "fcfs" THEN <<r>> \o q ELSE HeapPush(q, r)

\* The request to preempt: the last of the running queue, or the one of the
\* lowest priority.
PreemptedReq ==
    IF Policy = "fcfs"
    THEN running[Len(running)]
    ELSE CHOOSE r \in Range(running) :
            \A s \in Range(running) : Priority[s] <= Priority[r]

--------------------------------------------------------------------------------
(* Clients, between two engine steps *)

SchedulerInit ==
    /\ Init
    /\ status = [r \in Request |-> "NONE"]
    /\ running = << >> /\ waiting = << >>
    /\ finished_req_ids = {}
    /\ phase = "idle"
    /\ req_index = 1 /\ request = << >> /\ token_budget = 0
    /\ preempted_reqs = FALSE
    /\ scheduled = << >> /\ batch_queue = << >> /\ output = << >>

AddRequest(r) ==
    /\ phase = "idle"
    /\ status[r] = "NONE"
    /\ status' = [status EXCEPT ![r] = "WAITING"]
    /\ waiting' = add_request(waiting, r)
    /\ UNCHANGED <<vars, running, finished_req_ids, phase, req_index, request,
                   token_budget, preempted_reqs, scheduled, batch_queue, output>>

\* The entries of a batch after request r has left self.requests.
Disown(batch, r) ==
    [i \in DOMAIN batch |-> IF batch[i].req = r
                            THEN [batch[i] EXCEPT !.live = FALSE]
                            ELSE batch[i]]

\* Mutant: a request that stops after it was preempted stays in the waiting queue.
FreeRequestKeepsWaiting(r) ==
    /\ Finish(r)
    /\ status' = [status EXCEPT ![r] = "NONE"]
    /\ running' = Without(running, r)
    /\ finished_req_ids' = finished_req_ids \cup {r}
    /\ batch_queue' = [i \in DOMAIN batch_queue |-> Disown(batch_queue[i], r)]
    /\ UNCHANGED waiting

\* _free_request, and the removal from the queues that goes with it.  The slot r
\* takes the next request of a client, see Finish.
FreeRequest(r) ==
    /\ Finish(r)
    /\ status' = [status EXCEPT ![r] = "NONE"]
    /\ running' = Without(running, r)
    /\ waiting' = Without(waiting, r)
    /\ finished_req_ids' = finished_req_ids \cup {r}
    /\ batch_queue' = [i \in DOMAIN batch_queue |-> Disown(batch_queue[i], r)]

\* finish_requests, for an abort.
FinishRequests(r) ==
    /\ phase = "idle"
    /\ r \in Abortable
    /\ status[r] # "NONE"
    /\ FreeRequest(r)
    /\ UNCHANGED <<phase, req_index, request, token_budget, preempted_reqs,
                   scheduled, output>>

ResetCache ==
    /\ phase = "idle"
    /\ ResetPrefixCache
    /\ UNCHANGED schedVars

--------------------------------------------------------------------------------
(* schedule() *)

has_requests == running # << >> \/ waiting # << >> \/ finished_req_ids # {}

\* _process_engine_step: schedule if the scheduler has requests, else await the
\* oldest batch.
StartStep ==
    /\ phase = "idle"
    /\ has_requests \/ batch_queue # << >>
    /\ phase' = IF has_requests THEN "running" ELSE "execute"
    /\ req_index' = 1
    /\ token_budget' = MaxNumScheduledTokens
    /\ preempted_reqs' = FALSE
    /\ UNCHANGED <<vars, status, running, waiting, finished_req_ids, request,
                   scheduled, batch_queue, output>>

WithinThreshold(n) ==
    IF 0 < LongPrefillTokenThreshold /\ LongPrefillTokenThreshold < n
    THEN LongPrefillTokenThreshold
    ELSE n


\* num_new_tokens of a running request.
NumNewTokens(r) ==
    Least(Least(WithinThreshold(num_tokens(r) + Len(spec_token_ids[r])
                                  - num_computed_tokens[r]),
                token_budget),
          MaxModelLen - 1 - num_computed_tokens[r])

InRunningLoop ==
    phase = "running" /\ (request # << >> \/ (req_index <= Len(running) /\ token_budget > 0))

CurrentRequest == IF request # << >> THEN request ELSE running[req_index]

\* Nothing to compute for this request in this step.
SkipRunning ==
    /\ InRunningLoop
    /\ NumNewTokens(CurrentRequest) = 0
    /\ req_index' = req_index + 1
    /\ UNCHANGED <<vars, status, running, waiting, finished_req_ids, phase, request,
                   token_budget, preempted_reqs, scheduled, batch_queue, output>>

\* The draft tokens that fit into num_new tokens.
ScheduledDrafts(r, num_new) ==
    SubSeq(spec_token_ids[r], 1, num_new + num_computed_tokens[r] - num_tokens(r))

ScheduleRunningRequest ==
    /\ InRunningLoop
    /\ LET r       == CurrentRequest
           num_new == NumNewTokens(r)
           draft   == ScheduledDrafts(r, num_new)
       IN  /\ num_new # 0
           /\ allocate_slots(r, num_computed_tokens[r], num_new, NumLookahead, << >>)
           /\ scheduled' = Append(scheduled,
                Entry(r, num_computed_tokens[r], num_new, req_to_blocks'[r], draft))
           /\ token_budget' = token_budget - num_new
           /\ spec_token_ids' = IF draft = << >>
                                THEN spec_token_ids
                                ELSE [spec_token_ids EXCEPT ![r] = draft]
    /\ req_index' = req_index + 1
    /\ request' = << >>
    /\ UNCHANGED <<tokens, num_computed_tokens, slots, status, running, waiting,
                   finished_req_ids, phase, preempted_reqs, batch_queue, output>>

PreemptVictim(victim) ==
    /\ free(victim)
    /\ num_computed_tokens' = [num_computed_tokens EXCEPT ![victim] = 0]
    /\ status' = [status EXCEPT ![victim] = "PREEMPTED"]
    /\ running' = Without(running, victim)
    /\ waiting' = prepend_request(waiting, victim)

\* Too few free blocks: preempt a request.  If it is the very request to be
\* scheduled the loop ends, else the allocation is tried again.
PreemptRequest ==
    /\ InRunningLoop
    /\ LET r       == CurrentRequest
           num_new == NumNewTokens(r)
           victim  == PreemptedReq
       IN  /\ num_new # 0
           /\ ~ CanAllocate(r, NumTokensNeedSlot(num_computed_tokens[r], num_new,
                                                 NumLookahead), << >>)
           /\ PreemptVictim(victim)
           /\ request' = IF victim = r THEN << >> ELSE r
           /\ phase' = IF victim = r THEN "waiting" ELSE "running"
    /\ preempted_reqs' = TRUE
    /\ UNCHANGED <<tokens, spec_token_ids, slots, finished_req_ids, req_index,
                   token_budget, scheduled, batch_queue, output>>

EndRunningLoop ==
    /\ phase = "running" /\ ~ InRunningLoop
    /\ phase' = "waiting"
    /\ UNCHANGED <<vars, status, running, waiting, finished_req_ids, req_index, request,
                   token_budget, preempted_reqs, scheduled, batch_queue, output>>

InWaitingLoop ==
    /\ phase = "waiting"
    /\ ~ preempted_reqs /\ waiting # << >> /\ token_budget > 0
    /\ Len(running) # MaxNumRunningReqs

\* The cached prefix of the request at the head of the waiting queue, and the
\* number of tokens that it covers.  A request that waits with computed tokens
\* keeps them (they came from a KV connector).
ComputedPrefixes(r) ==
    IF num_computed_tokens[r] = 0
    THEN {<<hit, Len(hit) * BlockSize>> : hit \in get_computed_blocks(r)}
    ELSE {<<<< >>, num_computed_tokens[r]>>}

\* Mutant: a prompt is scheduled beyond the budget.
NumNewWaitingUncapped(r, computed) == WithinThreshold(num_tokens(r) - computed)

NumNewWaiting(r, computed) == Least(WithinThreshold(num_tokens(r) - computed), token_budget)

WaitingLookahead(r) == IF num_computed_tokens[r] = 0 THEN 0 ELSE NumLookahead

ScheduleWaitingRequest ==
    /\ InWaitingLoop
    /\ LET r == Head(waiting) IN
       /\ \E prefix \in ComputedPrefixes(r) :
            LET computed == prefix[2]
                num_new  == NumNewWaiting(r, computed)
            IN  /\ allocate_slots(r, computed, num_new, WaitingLookahead(r), prefix[1])
                /\ scheduled' = Append(scheduled,
                     Entry(r, computed, num_new, req_to_blocks'[r], << >>))
                /\ token_budget' = token_budget - num_new
                /\ num_computed_tokens' = [num_computed_tokens EXCEPT ![r] = computed]
       /\ running' = Append(running, r)
       /\ status' = [status EXCEPT ![r] = "RUNNING"]
    /\ waiting' = Tail(waiting)
    /\ UNCHANGED <<tokens, spec_token_ids, slots, finished_req_ids, phase, req_index,
                   request, preempted_reqs, batch_queue, output>>

\* The head of the waiting queue cannot be scheduled, or the loop is over.
WaitingLoopEnds ==
    InWaitingLoop =>
        LET r == Head(waiting) IN
        \E prefix \in ComputedPrefixes(r) :
            ~ CanAllocate(r, NumTokensNeedSlot(prefix[2], NumNewWaiting(r, prefix[2]),
                                               WaitingLookahead(r)), prefix[1])

TotalNumScheduledTokens(batch) == SumFunction([i \in DOMAIN batch |-> batch[i].num])

\* The tokens that a batch computes for a request.
NumScheduledTokens(batch, r) ==
    SumFunction([i \in DOMAIN batch |-> IF batch[i].req = r THEN batch[i].num ELSE 0])

\* Mutant: the computed tokens do not count what is in flight.
UpdateAfterScheduleLate(r) == num_computed_tokens[r]

\* _update_after_schedule: the computed tokens count what is in flight.
UpdateAfterSchedule(r) == num_computed_tokens[r] + NumScheduledTokens(scheduled, r)

\* Mutant: one batch more than the queue is meant to hold.
BatchQueueHasRoomForOneMore == Len(batch_queue) < BatchQueueSize

\* Would the batch queue have room after this batch?
BatchQueueHasRoom == Len(batch_queue) + 1 < BatchQueueSize

\* The end of schedule(): _update_after_schedule advances the computed tokens and
\* the batch goes to the worker.  step_with_batch_queue returns to the loop if
\* the queue has room and its oldest batch is not done, else it waits for it.
EndSchedule ==
    /\ phase = "waiting"
    /\ WaitingLoopEnds
    /\ num_computed_tokens' = [r \in Request |-> UpdateAfterSchedule(r)]
    /\ finished_req_ids' = {}
    /\ batch_queue' = Append(batch_queue, scheduled)
    /\ scheduled' = << >> /\ req_index' = 1 /\ token_budget' = 0 /\ preempted_reqs' = FALSE
    /\ \/ phase' = "execute"
       \/ /\ TotalNumScheduledTokens(scheduled) > 0
          /\ BatchQueueHasRoom
          /\ phase' = "idle"
    /\ UNCHANGED <<pool, req_to_blocks, num_cached_block, tokens, spec_token_ids, slots,
                   status, running, waiting, request, output>>

--------------------------------------------------------------------------------
(* The worker and update_from_output() *)

\* The positions of an entry that are written to offset o of block b.
Writes(e, b, o) ==
    {p \in e.first .. e.first + e.num - 1 :
        SlotBlock(e.table, p) = b /\ SlotOffset(p) = o}

\* slots once the worker has computed a sequence of entries, in order.
SlotsAfter(entries) ==
    [b \in Block |-> [o \in 0 .. BlockSize - 1 |->
        LET writers == {i \in DOMAIN entries : Writes(entries[i], b, o) # {}}
        IN  IF writers = {}
            THEN slots[b][o]
            ELSE LET e == entries[Max(writers)]
                 IN  SubSeq(e.seq \o e.draft, 1, 1 + Max(Writes(e, b, o)))]]

ExecuteModel ==
    /\ phase = "execute"
    /\ slots' = SlotsAfter(Head(batch_queue))
    /\ output' = Head(batch_queue)
    /\ batch_queue' = Tail(batch_queue)
    /\ phase' = "output"
    /\ UNCHANGED <<pool, req_to_blocks, num_cached_block, tokens, num_computed_tokens,
                   spec_token_ids, status, running, waiting, finished_req_ids,
                   req_index, request, token_budget, preempted_reqs, scheduled>>

\* The tokens that the worker returns for an entry: nothing for a partial
\* prefill, else the accepted draft tokens and one sampled token.
SampledTokenIds(e) ==
    IF Samples(e)
    THEN {SubSeq(e.draft, 1, k) \o <<t>> : k \in 0 .. Len(e.draft), t \in Token}
    ELSE {<< >>}

\* The drafts that the worker proposes for the next step.
DraftTokenIds(e) ==
    IF Samples(e) THEN UNION {[1 .. n -> Token] : n \in 0 .. NumSpeculative} ELSE {<< >>}

\* check_stop: the length caps the request; a stop token may come at any time.
MustStop(r, generated) == num_tokens(r) + Len(generated) >= MaxModelLen


NumRejected(e, generated) == Len(e.draft) - (Len(generated) - 1)

\* An iteration of update_from_output for a request that goes on, with the new
\* drafts that update_draft_token_ids gives it at the end of the step.  A request
\* that was preempted in the meantime gets its token all the same.
UpdateRequest ==
    /\ phase = "output" /\ output # << >>
    /\ LET e == Head(output)
           r == e.req
       IN  /\ e.live
           /\ \E generated \in SampledTokenIds(e), draft \in DraftTokenIds(e) :
                /\ generated # << >> => ~ MustStop(r, generated)
                /\ tokens' = [tokens EXCEPT ![r] = @ \o generated]
                /\ num_computed_tokens' =
                     [num_computed_tokens EXCEPT
                        ![r] = IF e.draft = << >>
                               THEN @
                               ELSE @ - NumRejected(e, generated)]
                /\ spec_token_ids' = [spec_token_ids EXCEPT ![r] = draft]
    /\ output' = Tail(output)
    /\ UNCHANGED <<pool, req_to_blocks, num_cached_block, slots, status, running, waiting,
                   finished_req_ids, phase, req_index, request, token_budget,
                   preempted_reqs, scheduled, batch_queue>>

\* An iteration for a request that stops.
StopRequest ==
    /\ phase = "output" /\ output # << >>
    /\ LET e == Head(output) IN
         /\ e.live
         /\ Samples(e)
         /\ FreeRequest(e.req)
    /\ output' = Tail(output)
    /\ UNCHANGED <<phase, req_index, request, token_budget, preempted_reqs, scheduled>>

\* An iteration for a request that was aborted while its batch was in flight.
SkipGoneRequest ==
    /\ phase = "output" /\ output # << >>
    /\ ~ Head(output).live
    /\ output' = Tail(output)
    /\ UNCHANGED <<vars, status, running, waiting, finished_req_ids, phase, req_index,
                   request, token_budget, preempted_reqs, scheduled, batch_queue>>

EndStep ==
    /\ phase = "output" /\ output = << >>
    /\ phase' = "idle"
    /\ UNCHANGED <<vars, status, running, waiting, finished_req_ids, req_index, request,
                   token_budget, preempted_reqs, scheduled, batch_queue, output>>

EngineStep ==
    \/ StartStep
    \/ SkipRunning \/ ScheduleRunningRequest \/ PreemptRequest \/ EndRunningLoop
    \/ ScheduleWaitingRequest \/ EndSchedule
    \/ ExecuteModel
    \/ UpdateRequest \/ StopRequest \/ SkipGoneRequest \/ EndStep

SchedulerNext ==
    \/ \E r \in Request : AddRequest(r) \/ FinishRequests(r)
    \/ ResetCache
    \/ EngineStep

SchedulerSpec == SchedulerInit /\ [][SchedulerNext]_allVars

EngineBusy == phase # "idle" \/ has_requests \/ batch_queue # << >>

\* In SchedulerNext these are the steps of EngineStep: clients act only when the
\* engine is idle.
EngineMoves == phase # "idle" \/ phase' # "idle"

\* run_busy_loop goes on as long as there is work; clients need not do anything.
\* This is weak fairness of EngineStep written out: a busy engine can always take
\* a step, since a phase that it could not leave would be a deadlock.
FairSpec == SchedulerSpec /\ ([]<>(~ EngineBusy) \/ []<><<EngineMoves>>_allVars)

--------------------------------------------------------------------------------
(* Properties *)

InFlight == {e \in UNION {Range(b) : b \in Range(batch_queue)} \cup Range(output) : e.live}

\* Types of the scheduler's state.
SchedulerTypeOK ==
    /\ TypeOK
    /\ status \in [Request -> {"NONE", "WAITING", "RUNNING", "PREEMPTED"}]
    /\ running \in Seq(Request) /\ waiting \in Seq(Request)
    /\ finished_req_ids \subseteq Request
    /\ phase \in {"idle", "running", "waiting", "execute", "output"}
    /\ req_index \in Nat \ {0} /\ token_budget \in Nat
    /\ preempted_reqs \in BOOLEAN
    /\ Len(batch_queue) <= BatchQueueSize

\* Every request of the engine stands once in the queue that its status names,
\* whatever was preempted, stopped or aborted: none is lost or runs twice.
QueuesExact ==
    /\ IsInjective(running) /\ IsInjective(waiting)
    /\ Range(running) = {r \in Request : status[r] = "RUNNING"}
    /\ Range(waiting) = {r \in Request : status[r] \in {"WAITING", "PREEMPTED"}}
    /\ Len(running) <= MaxNumRunningReqs

\* The asserts of schedule() and of update_from_output(): a batch stays within
\* the token budget and computes at least one token for each of its requests.
BatchWithinBudget ==
    \A batch \in Range(batch_queue) \cup {scheduled} :
        /\ TotalNumScheduledTokens(batch) <= MaxNumScheduledTokens
        /\ \A i \in DOMAIN batch : batch[i].num > 0

\* A token that is still to come was sampled from the very tokens that it will
\* be appended to, although requests are scheduled again, preempted and resumed
\* while their batch is in flight.
SampledInOrder == \A e \in InFlight : Samples(e) => e.seq = tokens[e.req]

\* When the worker runs a batch, every position that a request of the batch
\* attends to holds the KV of the request's own prefix, although the blocks may
\* have been freed, cached, shared or handed on since the batch was scheduled.
ReadsOwnKV ==
    [][phase = "execute" =>
         \A e \in Range(Head(batch_queue)) : \A p \in 0 .. e.first + e.num - 1 :
            slots'[SlotBlock(e.table, p)][SlotOffset(p)] =
                SubSeq(e.seq \o e.draft, 1, p + 1)]_allVars


--------------------------------------------------------------------------------
(* Without a batch queue the scheduler implements the KV-cache manager's       *)
(* specification: a scheduled entry counts as computed and written at once.    *)

Pending == IF batch_queue = << >> THEN scheduled ELSE Head(batch_queue) \o scheduled

InFlightDraft(r) ==
    LET entries == {e \in Range(Pending) \cup Range(output) : e.req = r /\ e.live}
    IN  IF entries = {} THEN << >> ELSE (CHOOSE e \in entries : TRUE).draft

Manager == INSTANCE KVCacheManager WITH
    num_computed_tokens <- [r \in Request |-> num_computed_tokens[r]
                                                + NumScheduledTokens(scheduled, r)],
    spec_token_ids <- [r \in Request |-> InFlightDraft(r)],
    slots <- SlotsAfter(Pending)


--------------------------------------------------------------------------------
(* What the comments of the scheduler say *)

\* schedule(): a running request gets no token only if its tokens are in flight
\* (PP > 1), if it has reached its length under async scheduling, or for want of
\* encoder budget or cache; so never without any of these.
RunningMakesProgress ==
    phase = "running" /\ InRunningLoop => NumNewTokens(CurrentRequest) # 0

\* schedule(): only a KV transfer leaves a waiting request with computed tokens;
\* a preempted request is recomputed.
PreemptedRecomputed ==
    phase = "idle" => \A r \in Request :
        status[r] = "PREEMPTED" => num_computed_tokens[r] = 0
================================================================================
