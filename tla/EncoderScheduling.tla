--------------------------- MODULE EncoderScheduling ---------------------------
(***************************************************************************)
(* How the scheduler, the encoder-cache manager and the workers keep the   *)
(* encoder outputs that prompts with images need.  schedule() decides      *)
(* which items to encode and evicts old ones; its output, with the items   *)
(* to encode and the hashes to drop, is executed later by the workers,     *)
(* whose encoder_cache is the only place where the embeddings are.         *)
(*                                                                         *)
(* From the scheduler this module keeps what concerns encoder inputs: the  *)
(* two queues, the chunked prefill of prompts, preemption (first come,     *)
(* first served), and the batches in flight.  A request ends with the      *)
(* output of its last prompt token.  The KV cache is a count of tokens.    *)
(***************************************************************************)
EXTENDS EncoderCacheManager

CONSTANTS
    Request,
    PromptLen,          \* PromptLen[r]: tokens of the prompt of r
    Items,              \* Items[r]: mm_features, a sequence of [hash, offset]
    TokenBudget,        \* max_num_scheduled_tokens
    ComputeBudget,      \* max_num_encoder_input_tokens
    KVCapacity,         \* tokens the KV cache can hold
    PrefixHits,         \* lengths of cached prefixes a request may find
    BatchQueueSize,     \* batches in flight
    NoChunkedInput,     \* disable_chunked_mm_input
    UseEagle,           \* a draft model runs after the target model
    MayAbort            \* requests a client may abort

\* Every item lies in its prompt, in order, and fits the cache and the compute
\* budget, as compute_encoder_budget makes sure; one prompt fits the KV cache.
ASSUME SchedulingAssumption ==
    /\ \A r \in Request : \A i \in DOMAIN Items[r] :
          LET it == Items[r][i]
          IN  /\ NumTokens[it.hash] <= CacheSize
              /\ NumTokens[it.hash] <= ComputeBudget
              /\ it.offset + NumTokens[it.hash] <= PromptLen[r]
              /\ i > 1 => LET before == Items[r][i - 1]
                          IN  before.offset + NumTokens[before.hash] <= it.offset
    /\ \A r \in Request : PromptLen[r] <= KVCapacity
    /\ TokenBudget > 0 /\ BatchQueueSize > 0 /\ MayAbort \subseteq Request

VARIABLES
    manager,                \* encoder_cache_manager
    waiting, running,       \* the scheduler's queues
    num_computed_tokens,
    held,                   \* KV-cache tokens each request holds
    finished,               \* requests that ended
    step,                   \* the local variables of schedule()
    batch_queue,            \* scheduler outputs sent to the workers
    encoder_cache,          \* the workers' embeddings
    failed                  \* assertions that failed

queues == <<waiting, running, num_computed_tokens, held, finished>>
vars == <<manager, queues, step, batch_queue, encoder_cache, failed>>

Idle ==
    [phase |-> "idle", req_index |-> 1, token_budget |-> TokenBudget,
     compute_budget |-> ComputeBudget, scheduled |-> {}, encode |-> {},
     preempted |-> FALSE]

Init ==
    /\ manager = EmptyManager
    /\ waiting = <<>> /\ running = <<>>
    /\ num_computed_tokens = [r \in Request |-> 0]
    /\ held = [r \in Request |-> 0]
    /\ finished = {}
    /\ step = Idle
    /\ batch_queue = <<>>
    /\ encoder_cache = {}
    /\ failed = {}

Hashes(r) == [i \in DOMAIN Items[r] |-> Items[r][i].hash]
End(it) == it.offset + NumTokens[it.hash]

\* The items of r that the tokens first .. first + n - 1 overlap.
Overlapping(r, first, n) ==
    {i \in DOMAIN Items[r] : /\ Items[r][i].offset < first + n
                             /\ End(Items[r][i]) > first}

-------------------------------------------------------------------------------
(* _try_schedule_encoder_inputs. *)

\* One item of the loop.  acc holds the manager, the hashes to schedule and
\* their tokens, the compute budget left, num_new_tokens, and whether the loop
\* was left with break.
TryItem(r, computed, acc, it) ==
    LET beyond == it.offset >= computed + acc.num_new
        skip == End(it) <= computed \/ it.hash \in acc.hashes
        hit == it.hash \in DOMAIN acc.manager.cached
        split == /\ NoChunkedInput /\ computed < it.offset
                 /\ computed + acc.num_new < End(it)
        fits == can_allocate(acc.manager, it.hash, acc.budget, acc.tokens)
    IN  CASE acc.done \/ beyond -> [acc EXCEPT !.done = TRUE]
          [] ~ acc.done /\ ~ beyond /\ skip -> acc
          [] ~ acc.done /\ ~ beyond /\ ~ skip /\ hit ->
               [acc EXCEPT !.manager = check_and_update_cache(@, r, it.hash)]
          [] ~ acc.done /\ ~ beyond /\ ~ skip /\ ~ hit /\ (split \/ ~ fits) ->
               [acc EXCEPT !.done = TRUE,
                           !.num_new = IF computed < it.offset
                                       THEN it.offset - computed ELSE 0]
          [] OTHER ->
               [acc EXCEPT
                   !.manager = evict(@, NumTokens[it.hash], acc.tokens),
                   !.tokens = @ + NumTokens[it.hash],
                   !.budget = @ - NumTokens[it.hash],
                   !.hashes = @ \cup {it.hash}]

TrySchedule(r, computed, num_new) ==
    FoldLeft(LAMBDA acc, it : TryItem(r, computed, acc, it),
             [manager |-> manager, hashes |-> {}, tokens |-> 0,
              budget |-> step.compute_budget, num_new |-> num_new,
              done |-> num_new = 0],
             Items[r])

\* allocate for every scheduled item, in any order, and the assertions it makes.
AllocateAll(m, r, hashes) ==
    FoldLeft(LAMBDA acc, h : allocate(acc, r, h), m, SetToSeq(hashes))

AllAllocateAsserts(m, hashes) ==
    /\ m.num_free_slots >= Tokens(hashes)
    /\ m.num_freeable_slots >= Tokens(hashes)

-------------------------------------------------------------------------------
(* schedule(). *)

AddRequest(r) ==
    /\ step.phase = "idle"
    /\ r \notin finished \cup ToSet(waiting) \cup ToSet(running)
    /\ waiting' = Append(waiting, r)
    /\ UNCHANGED <<manager, running, num_computed_tokens, held, finished,
                   step, batch_queue, encoder_cache, failed>>

BeginSchedule ==
    /\ step.phase = "idle"
    /\ Len(batch_queue) < BatchQueueSize
    /\ waiting # <<>> \/ running # <<>>
    /\ step' = [step EXCEPT !.phase = "running"]
    /\ UNCHANGED <<manager, queues, batch_queue, encoder_cache, failed>>

\* allocate_slots finds room when the requests outside S hold little enough.
CanHold(r, n, S) ==
    n + MapThenSumSet(LAMBDA s : held[s], Request \ (S \cup {r})) <= KVCapacity

\* Schedules tokens of r from computed, with what TrySchedule found; m is the
\* manager once the victims' references are gone.
ScheduleTokens(r, computed, try, m, victims) ==
    /\ manager' = AllocateAll(m, r, try.hashes)
    /\ failed' = IF AllAllocateAsserts(m, try.hashes)
                 THEN failed ELSE failed \cup {"allocate"}
    /\ held' = [s \in Request |-> CASE s = r -> computed + try.num_new
                                    [] s \in victims -> 0
                                    [] OTHER -> held[s]]
    /\ step' = [step EXCEPT
                   !.req_index = @ + 1,
                   !.token_budget = @ - try.num_new,
                   !.compute_budget = IF try.hashes # {} THEN try.budget ELSE @,
                   !.scheduled = @ \cup {[req |-> r, first |-> computed,
                                          num |-> try.num_new]},
                   !.encode = @ \cup try.hashes,
                   !.preempted = @ \/ victims # {}]

\* The requests at positions from .. Len(running) are preempted, the last one
\* first.
Preempt(from) ==
    LET gone == SubSeq(running, from, Len(running))
    IN  /\ running' = SubSeq(running, 1, from - 1)
        /\ waiting' = gone \o waiting
        /\ num_computed_tokens' = [r \in Request |->
                                     IF r \in ToSet(gone) THEN 0
                                     ELSE num_computed_tokens[r]]

FreeVictims(m, from) ==
    FoldLeft(LAMBDA acc, r : FreeInputs(acc, r, Hashes(r)), m,
             Reverse(SubSeq(running, from, Len(running))))

\* The next request of the running queue.  While its tokens do not fit, the
\* last running request is preempted, in the end this one itself.
ScheduleRunning ==
    /\ step.phase = "running"
    /\ step.req_index <= Len(running) /\ step.token_budget > 0
    /\ LET i == step.req_index
           r == running[i]
           computed == num_computed_tokens[r]
           wanted == Min({PromptLen[r] - computed, step.token_budget})
           try == TrySchedule(r, computed, wanted)
           after(p) == ToSet(SubSeq(running, p, Len(running)))
           from == Max({i} \cup {p \in i + 1 .. Len(running) + 1 :
                                   CanHold(r, computed + try.num_new, after(p))})
       IN  \/ /\ try.num_new = 0
              /\ manager' = try.manager
              /\ step' = [step EXCEPT !.req_index = @ + 1]
              /\ UNCHANGED <<queues, failed>>
           \/ /\ try.num_new > 0 /\ from > i
              /\ ScheduleTokens(r, computed, try, FreeVictims(try.manager, from),
                                after(from))
              /\ Preempt(from)
              /\ UNCHANGED finished
           \/ /\ try.num_new > 0 /\ from = i
              /\ manager' = FreeVictims(try.manager, i)
              /\ Preempt(i)
              /\ held' = [s \in Request |-> IF s \in after(i) THEN 0 ELSE held[s]]
              /\ step' = [step EXCEPT !.phase = "output"]
              /\ UNCHANGED <<finished, failed>>
    /\ UNCHANGED <<batch_queue, encoder_cache>>

BeginWaiting ==
    /\ step.phase = "running"
    /\ step.req_index > Len(running) \/ step.token_budget = 0
    /\ step' = [step EXCEPT !.phase = IF step.preempted THEN "output" ELSE "waiting"]
    /\ UNCHANGED <<manager, queues, batch_queue, encoder_cache, failed>>

\* The head of the waiting queue, of whose prompt a prefix of hit tokens is in
\* the KV cache.  When its tokens do not fit the loop ends, and what
\* _try_schedule_encoder_inputs changed stays.
ScheduleWaiting(hit) ==
    /\ step.phase = "waiting"
    /\ waiting # <<>> /\ step.token_budget > 0
    /\ LET r == Head(waiting)
           wanted == Min({PromptLen[r] - hit, step.token_budget})
           try == TrySchedule(r, hit, wanted)
       IN  /\ hit < PromptLen[r]
           /\ \/ /\ try.num_new = 0 \/ ~ CanHold(r, hit + try.num_new, {})
                 /\ manager' = try.manager
                 /\ step' = [step EXCEPT !.phase = "output"]
                 /\ UNCHANGED <<queues, failed>>
              \/ /\ try.num_new > 0 /\ CanHold(r, hit + try.num_new, {})
                 /\ ScheduleTokens(r, hit, try, try.manager, {})
                 /\ waiting' = Tail(waiting) /\ running' = Append(running, r)
                 /\ num_computed_tokens' = [num_computed_tokens EXCEPT ![r] = hit]
                 /\ UNCHANGED finished
    /\ UNCHANGED <<batch_queue, encoder_cache>>

\* _free_encoder_inputs: the items of a scheduled request that are computed
\* once its batch is.
FreeProcessed(m, s) ==
    FreeInputs(m, s.req,
               LET its == SelectSeq(Items[s.req],
                                    LAMBDA it : End(it) <= s.first + s.num)
               IN  [i \in DOMAIN its |-> its[i].hash])

\* The end of schedule(): the output is built and takes the freed hashes, then
\* _update_after_schedule advances the scheduled requests.
FinishSchedule ==
    /\ \/ step.phase = "output"
       \/ step.phase = "waiting" /\ (waiting = <<>> \/ step.token_budget = 0)
    /\ batch_queue' = Append(batch_queue,
                             [scheduled |-> step.scheduled, encode |-> step.encode,
                              free |-> manager.freed, executed |-> FALSE])
    /\ num_computed_tokens' =
          [r \in Request |->
             num_computed_tokens[r]
             + MapThenSumSet(LAMBDA s : s.num,
                             {s \in step.scheduled : s.req = r})]
    /\ manager' = FoldLeft(FreeProcessed, [manager EXCEPT !.freed = {}],
                           SetToSeq(step.scheduled))
    /\ step' = Idle
    /\ UNCHANGED <<waiting, running, held, finished, encoder_cache, failed>>

-------------------------------------------------------------------------------
(* The workers and the outputs. *)

\* Mutant of UpdateEncoderCache: the hashes to drop are popped last.
DropAfterEncoding(cache, batch) == (cache \cup batch.encode) \ batch.free

\* Mutant of UpdateEncoderCache: the hashes to drop are ignored.
KeepFreed(cache, batch) == cache \cup batch.encode

\* _update_states drops the freed hashes, then the encoder runs.
UpdateEncoderCache(cache, batch) == (cache \ batch.free) \cup batch.encode

\* The hashes _gather_mm_embeddings looks up for a batch: for the target model,
\* and for the draft model one position further.
Needed(batch) ==
    UNION {{Items[s.req][i].hash :
              i \in Overlapping(s.req, s.first, s.num)
                    \cup (IF UseEagle THEN Overlapping(s.req, s.first + 1, s.num)
                          ELSE {})} : s \in batch.scheduled}

\* The workers execute the oldest batch they have not executed.
ExecuteModel ==
    \E k \in DOMAIN batch_queue :
       LET batch == batch_queue[k]
           cache == UpdateEncoderCache(encoder_cache, batch)
       IN  /\ \A j \in DOMAIN batch_queue : batch_queue[j].executed <=> j < k
           /\ encoder_cache' = cache
           /\ failed' = IF Needed(batch) \subseteq cache
                        THEN failed ELSE failed \cup {"encoder cache miss"}
           /\ batch_queue' = [batch_queue EXCEPT ![k].executed = TRUE]
           /\ UNCHANGED <<manager, queues, step>>

\* A request leaves: its references and its KV-cache tokens go.
FreeRequests(S) ==
    /\ manager' = FoldLeft(LAMBDA acc, r : FreeInputs(acc, r, Hashes(r)), manager,
                           SetToSeq(S))
    /\ held' = [r \in Request |-> IF r \in S THEN 0 ELSE held[r]]
    /\ waiting' = SelectSeq(waiting, LAMBDA r : r \notin S)
    /\ running' = SelectSeq(running, LAMBDA r : r \notin S)
    /\ finished' = finished \cup S
    /\ UNCHANGED num_computed_tokens

\* update_from_output: the requests whose last prompt token was computed got
\* their output token and end, preempted meanwhile or not.
UpdateFromOutput ==
    /\ step.phase = "idle"
    /\ batch_queue # <<>> /\ Head(batch_queue).executed
    /\ FreeRequests({s.req : s \in {t \in Head(batch_queue).scheduled :
                                       t.first + t.num = PromptLen[t.req]}}
                    \ finished)
    /\ batch_queue' = Tail(batch_queue)
    /\ UNCHANGED <<step, encoder_cache, failed>>

\* finish_requests.
Abort(r) ==
    /\ step.phase = "idle"
    /\ r \in ToSet(waiting) \cup ToSet(running)
    /\ FreeRequests({r})
    /\ UNCHANGED <<step, batch_queue, encoder_cache, failed>>

EngineStep ==
    \/ BeginSchedule
    \/ ScheduleRunning
    \/ BeginWaiting
    \/ \E hit \in PrefixHits : ScheduleWaiting(hit)
    \/ FinishSchedule
    \/ UpdateFromOutput

Done == finished = Request /\ batch_queue = <<>> /\ UNCHANGED vars

Next ==
    \/ EngineStep
    \/ ExecuteModel
    \/ \E r \in Request : AddRequest(r)
    \/ \E r \in MayAbort : Abort(r)
    \/ Done

Spec == Init /\ [][Next]_vars

\* Weak fairness of the engine's loop, which runs as long as there is something
\* to schedule or an output to take, and of the workers, which execute what they
\* are sent; written out, with what enables a step and what shows one was taken.
EngineBusy ==
    \/ step.phase # "idle"
    \/ Len(batch_queue) < BatchQueueSize /\ (waiting # <<>> \/ running # <<>>)
    \/ batch_queue # <<>> /\ Head(batch_queue).executed

EngineMoves == step' # step \/ Len(batch_queue') < Len(batch_queue)

WorkersBusy == \E k \in DOMAIN batch_queue : ~ batch_queue[k].executed

WorkersMove == batch_queue' # batch_queue /\ Len(batch_queue') = Len(batch_queue)

FairSpec ==
    /\ Spec
    /\ []<>(~ EngineBusy) \/ []<><<EngineMoves>>_vars
    /\ []<>(~ WorkersBusy) \/ []<><<WorkersMove>>_vars

-------------------------------------------------------------------------------
(* Properties. *)

\* The shape of the state; slots and budgets of schedule() stay within their limits.
EncoderTypeOK ==
    /\ DOMAIN manager.cached \subseteq Hash
    /\ \A h \in DOMAIN manager.cached : manager.cached[h] \subseteq Request
    /\ manager.num_free_slots \in 0 .. CacheSize
    /\ manager.num_freeable_slots \in 0 .. CacheSize
    /\ step.token_budget \in 0 .. TokenBudget
    /\ step.compute_budget \in 0 .. ComputeBudget
    /\ Len(batch_queue) <= BatchQueueSize
    /\ encoder_cache \subseteq Hash
    /\ \A r \in Request : num_computed_tokens[r] \in 0 .. PromptLen[r]

\* The two counters and the freeable list are what the entries and their
\* references say, after any sequence of hits, evictions, allocations, frees,
\* preemptions and aborts.
SlotsExact ==
    LET cached == DOMAIN manager.cached
    IN  /\ manager.num_free_slots = CacheSize - Tokens(cached)
        /\ manager.num_freeable_slots = CacheSize - Tokens(Referenced(manager))
        /\ ToSet(manager.freeable) = cached \ Referenced(manager)
        /\ Len(manager.freeable) = Cardinality(cached \ Referenced(manager))

\* Neither the assertions of allocate nor "Encoder cache miss" in
\* _gather_mm_embeddings ever fail, whatever was evicted, preempted or aborted
\* between the scheduling of a batch and its execution.
NoAssertionFails == failed = {}

\* Once the workers have executed all they were sent, their encoder_cache holds
\* exactly the entries the manager counts: no embedding stays behind that
\* nobody accounts for, and none is counted that is not there.
WorkersMirrorManager ==
    (step.phase = "idle" /\ \A k \in DOMAIN batch_queue : batch_queue[k].executed)
        => encoder_cache = DOMAIN manager.cached

\* Every request ends: entries nobody needs make room for those that are
\* needed, and no request waits for ever for the encoder cache.
EveryRequestEnds ==
    \A r \in Request : r \in ToSet(waiting) ~> r \in finished
===============================================================================
