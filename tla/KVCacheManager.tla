----------------------------- MODULE KVCacheManager -----------------------------
(***************************************************************************)
(* The KV-cache manager of one full-attention group:                       *)
(* vllm/v1/core/kv_cache_manager.py over single_type_kv_cache_manager.py   *)
(* (FullAttentionManager) and the BlockPool, driven by the calls that the  *)
(* scheduler makes for its requests.                                       *)
(*                                                                         *)
(* The ghost variable slots records, for every token slot of every block,  *)
(* the token prefix whose key and value the worker last wrote there (the   *)
(* KV of a position depends on every token up to it).  The worker writes   *)
(* the scheduled positions of a request through its block table, see       *)
(* compute_slot_mapping in vllm/v1/worker/block_table.py.                  *)
(***************************************************************************)
EXTENDS BlockPool

CONSTANTS
    Request,            \* request slots of the engine
    Prompts,            \* the prompts a client may submit
    MaxModelLen,        \* max_model_len
    NumLookahead,       \* num_lookahead_tokens (EAGLE)
    NumSpeculative,     \* num_speculative_tokens
    UseEagle,           \* use_eagle
    PromptLogprobs      \* the requests that ask for prompt_logprobs

ASSUME ManagerAssumption ==
    /\ IsFiniteSet(Request)
    /\ MaxModelLen \in Nat
    /\ NumLookahead \in Nat
    /\ NumSpeculative \in Nat
    /\ UseEagle \in BOOLEAN
    /\ PromptLogprobs \subseteq Request
    /\ Prompts \subseteq Seq(Token)
    /\ \A p \in Prompts : 0 < Len(p) /\ Len(p) <= MaxModelLen

VARIABLES
    pool,               \* self.block_pool
    req_to_blocks,      \* req_to_blocks[r], << >> for a request not in the dict
    num_cached_block,   \* num_cached_block[r], Untracked if not in the dict
    tokens,             \* request.all_token_ids
    num_computed_tokens,
    spec_token_ids,     \* the draft tokens of the batch in flight
    slots               \* ghost: what was written to the slots of each block

vars == <<pool, req_to_blocks, num_cached_block, tokens, num_computed_tokens,
          spec_token_ids, slots>>

Untracked == -1

cdiv(a, b) == (a + b - 1) \div b

\* request.num_tokens
num_tokens(r) == Len(tokens[r])

--------------------------------------------------------------------------------
(* Operations of the manager *)

\* The chains of k cached blocks for the first k full blocks of a request.
CachedChains(r, k) ==
    {c \in [1 .. k -> Block] :
        \A i \in 1 .. k : c[i] \in get_cached_block(pool, BlockHash(tokens[r], i))}

\* FullAttentionManager.find_longest_cache_hit: the scan goes on to the first
\* miss, at most over max_length tokens; EAGLE drops the last hit.
find_longest_cache_hit(r, max_length) ==
    LET max_num_blocks == max_length \div BlockSize
        Missing(k) == get_cached_block(pool, BlockHash(tokens[r], k)) = {}
        hits == UNION {CachedChains(r, k) : k \in {m \in 0 .. max_num_blocks :
                                    m < max_num_blocks => Missing(m + 1)}}
    IN  IF UseEagle THEN {SubSeq(c, 1, Len(c) - 1) : c \in hits} ELSE hits

\* get_computed_blocks: the last token is never covered, its logits have to be
\* computed; a request for prompt logprobs needs those of its whole prompt.
get_computed_blocks(r) ==
    IF EnableCaching /\ r \notin PromptLogprobs
    THEN find_longest_cache_hit(r, num_tokens(r) - 1)
    ELSE {<< >>}

\* num_tokens_need_slot of allocate_slots.
NumTokensNeedSlot(num_computed, num_new, num_lookahead) ==
    LET n == num_computed + num_new + num_lookahead
    IN  IF n < MaxModelLen THEN n ELSE MaxModelLen

\* get_num_blocks_to_allocate: cached blocks that are eviction candidates count
\* too, because touching them takes them from the free queue.
get_num_blocks_to_allocate(r, num_slots, new_computed_blocks) ==
    cdiv(num_slots, BlockSize)
      - Len(new_computed_blocks) - Len(req_to_blocks[r])
      + Cardinality({i \in DOMAIN new_computed_blocks :
                        /\ pool.ref_cnt[new_computed_blocks[i]] = 0
                        /\ new_computed_blocks[i] # null_block})

CanAllocate(r, num_slots, new_computed_blocks) ==
    get_num_blocks_to_allocate(r, num_slots, new_computed_blocks)
        <= get_num_free_blocks(pool)

\* num_tokens_to_cache of allocate_slots: draft tokens are never committed.
NumTokensToCache(r, num_computed, num_new) ==
    IF num_computed + num_new < num_tokens(r)
    THEN num_computed + num_new
    ELSE num_tokens(r)

\* The asserts of save_new_computed_blocks.
SaveFails(r, new_computed_blocks) ==
    IF num_cached_block[r] = Untracked
    THEN req_to_blocks[r] # << >>
    ELSE new_computed_blocks # << >>

\* Mutant of NumCachedBefore: the hits of a new request do not count as cached.
NumCachedWithoutHits(r, hit) ==
    IF num_cached_block[r] = Untracked THEN 0 ELSE num_cached_block[r]

\* num_cached_block after save_new_computed_blocks.
NumCachedBefore(r, hit) ==
    IF num_cached_block[r] = Untracked THEN Len(hit) ELSE num_cached_block[r]

\* allocate_slots when there are enough free blocks: touch the cached blocks,
\* save them as the head of the table, take new blocks from the free queue and
\* cache the blocks that become full.
allocate_slots(r, num_computed, num_new, num_lookahead, new_computed_blocks) ==
    LET num_slots == NumTokensNeedSlot(num_computed, num_new, num_lookahead)
        touched   == touch(pool, new_computed_blocks)
        saved     == req_to_blocks[r] \o new_computed_blocks
        missing   == cdiv(num_slots, BlockSize) - Len(saved)
        num_alloc == IF missing > 0 THEN missing ELSE 0
        allocated == get_new_blocks(touched, num_alloc)
        table     == saved \o popleft_n(touched.free_block_queue, num_alloc)
        num_cached == NumCachedBefore(r, new_computed_blocks)
        num_full  == NumTokensToCache(r, num_computed, num_new) \div BlockSize
        cached    == IF EnableCaching
                     THEN cache_full_blocks(allocated, tokens[r], table,
                                            num_cached, num_full)
                     ELSE allocated
    IN  /\ CanAllocate(r, num_slots, new_computed_blocks)
        /\ pool' = [cached EXCEPT !.failed =
                       @ \/ SaveFails(r, new_computed_blocks)]
        /\ req_to_blocks' = [req_to_blocks EXCEPT ![r] = table]
        /\ num_cached_block' =
              [num_cached_block EXCEPT ![r] = IF EnableCaching THEN num_full
                                                               ELSE num_cached]

\* Mutant of free: the blocks go back head first.
FreeHeadFirst(r) ==
    /\ pool' = free_blocks(pool, req_to_blocks[r])
    /\ req_to_blocks' = [req_to_blocks EXCEPT ![r] = << >>]
    /\ num_cached_block' = [num_cached_block EXCEPT ![r] = Untracked]

\* free: the blocks go back in reverse order, so that the tail of a prefix is
\* evicted before its head.
free(r) ==
    /\ pool' = free_blocks(pool, Reversed(req_to_blocks[r]))
    /\ req_to_blocks' = [req_to_blocks EXCEPT ![r] = << >>]
    /\ num_cached_block' = [num_cached_block EXCEPT ![r] = Untracked]

\* The slot that compute_slot_mapping gives to position p (0-based).
SlotBlock(table, p) == table[(p \div BlockSize) + 1]
SlotOffset(p) == p % BlockSize

\* slots after a forward pass over the positions first .. last of the token
\* sequence seq, with the block table of the request.
WriteSlots(table, seq, first, last) ==
    [b \in Block |-> [o \in 0 .. BlockSize - 1 |->
        IF \E p \in first .. last : SlotBlock(table, p) = b /\ SlotOffset(p) = o
        THEN SubSeq(seq, 1, 1 + CHOOSE p \in first .. last :
                                   SlotBlock(table, p) = b /\ SlotOffset(p) = o)
        ELSE slots[b][o]]]

--------------------------------------------------------------------------------
(* The scheduler's calls *)

Init ==
    /\ pool = InitPool
    /\ req_to_blocks = [r \in Request |-> << >>]
    /\ num_cached_block = [r \in Request |-> Untracked]
    /\ tokens \in [Request -> Prompts]
    /\ num_computed_tokens = [r \in Request |-> 0]
    /\ spec_token_ids = [r \in Request |-> << >>]
    /\ slots = [b \in Block |-> [o \in 0 .. BlockSize - 1 |-> << >>]]

Waiting(r) == num_cached_block[r] = Untracked
Running(r) == num_cached_block[r] # Untracked

\* A request of the batch in flight for which the worker will sample.
Sampling(r) == Running(r) /\ num_computed_tokens[r] >= num_tokens(r)

\* A waiting request (new or preempted) is scheduled: its cached prefix is
\* looked up and num_new further tokens are computed.  No lookahead slots.
ScheduleWaiting(r) ==
    /\ Waiting(r)
    /\ \E hit \in get_computed_blocks(r) :
         LET computed == Len(hit) * BlockSize IN
         \E num_new \in 1 .. num_tokens(r) - computed :
            /\ allocate_slots(r, computed, num_new, 0, hit)
            /\ slots' = WriteSlots(req_to_blocks'[r], tokens[r],
                                   computed, computed + num_new - 1)
            /\ num_computed_tokens' =
                  [num_computed_tokens EXCEPT ![r] = computed + num_new]
    /\ UNCHANGED <<tokens, spec_token_ids>>

\* A running request is scheduled for num_new of its tokens, or for all of them
\* followed by draft tokens; the input never reaches max_model_len.
ScheduleRunning(r) ==
    /\ Running(r)
    /\ \E draft \in UNION {[1 .. n -> Token] : n \in 0 .. NumSpeculative} :
       \E num_new \in 1 .. MaxModelLen - 1 - num_computed_tokens[r] :
         LET computed == num_computed_tokens[r] IN
            /\ computed < num_tokens(r)
            /\ IF draft = << >>
               THEN computed + num_new <= num_tokens(r)
               ELSE computed + num_new = num_tokens(r) + Len(draft)
            /\ allocate_slots(r, computed, num_new, NumLookahead, << >>)
            /\ slots' = WriteSlots(req_to_blocks'[r], tokens[r] \o draft,
                                   computed, computed + num_new - 1)
            /\ num_computed_tokens' =
                  [num_computed_tokens EXCEPT ![r] = computed + num_new]
            /\ spec_token_ids' = [spec_token_ids EXCEPT ![r] = draft]
    /\ UNCHANGED tokens

\* Mutant of UpdateFromOutput: rejected drafts still count as computed.
UpdateKeepsRejected(r) ==
    /\ Sampling(r)
    /\ \E k \in 0 .. Len(spec_token_ids[r]), t \in Token :
         /\ num_tokens(r) + k + 1 < MaxModelLen
         /\ tokens' = [tokens EXCEPT
                         ![r] = @ \o SubSeq(spec_token_ids[r], 1, k) \o <<t>>]
    /\ spec_token_ids' = [spec_token_ids EXCEPT ![r] = << >>]
    /\ UNCHANGED <<pool, req_to_blocks, num_cached_block, num_computed_tokens, slots>>

\* update_from_output: the worker accepts the first k draft tokens and samples
\* one more; the positions of rejected drafts are no longer computed.
UpdateFromOutput(r) ==
    /\ Sampling(r)
    /\ \E k \in 0 .. Len(spec_token_ids[r]), t \in Token :
         /\ num_tokens(r) + k + 1 < MaxModelLen
         /\ tokens' = [tokens EXCEPT
                         ![r] = @ \o SubSeq(spec_token_ids[r], 1, k) \o <<t>>]
         /\ num_computed_tokens' =
               [num_computed_tokens EXCEPT
                  ![r] = @ - (Len(spec_token_ids[r]) - k)]
    /\ spec_token_ids' = [spec_token_ids EXCEPT ![r] = << >>]
    /\ UNCHANGED <<pool, req_to_blocks, num_cached_block, slots>>

\* The scheduler preempts a running request: it keeps its tokens and starts
\* again from the cache.
Preempt(r) ==
    /\ Running(r)
    /\ ~ Sampling(r)
    /\ free(r)
    /\ num_computed_tokens' = [num_computed_tokens EXCEPT ![r] = 0]
    /\ UNCHANGED <<tokens, spec_token_ids, slots>>

\* A request finishes or is aborted, at any time, and its slot takes the next
\* request that a client submits.
Finish(r) ==
    /\ free(r)
    /\ num_computed_tokens' = [num_computed_tokens EXCEPT ![r] = 0]
    /\ spec_token_ids' = [spec_token_ids EXCEPT ![r] = << >>]
    /\ \E prompt \in Prompts : tokens' = [tokens EXCEPT ![r] = prompt]
    /\ UNCHANGED slots

\* The reset_prefix_cache utility call.
ResetPrefixCache ==
    /\ pool' = reset_prefix_cache(pool)
    /\ UNCHANGED <<req_to_blocks, num_cached_block, tokens,
                   num_computed_tokens, spec_token_ids, slots>>

Next ==
    \/ \E r \in Request :
         \/ ScheduleWaiting(r)
         \/ ScheduleRunning(r)
         \/ UpdateFromOutput(r)
         \/ Preempt(r)
         \/ Finish(r)
    \/ ResetPrefixCache

Spec == Init /\ [][Next]_vars

--------------------------------------------------------------------------------
(* Properties *)

\* Types of the manager's state.
TypeOK ==
    /\ pool \in Pool
    /\ req_to_blocks \in [Request -> Seq(Block)]
    /\ num_cached_block \in [Request -> Nat \cup {Untracked}]
    /\ tokens \in [Request -> Seq(Token)]
    /\ num_computed_tokens \in [Request -> Nat]
    /\ spec_token_ids \in [Request -> Seq(Token)]
    /\ slots \in [Block -> [0 .. BlockSize - 1 -> Seq(Token)]]

\* No method of the pool or of the manager raises: get_new_blocks always finds
\* the blocks that get_num_blocks_to_allocate counted, remove() only meets
\* linked blocks, and cache_full_blocks never meets a block that has a hash.
NoFailure == ~ pool.failed

\* The requests whose table has a block.
Holders(tables, b) == {r \in Request : b \in Range(tables[r])}

\* ref_cnt counts the block tables that a block occurs in, no table has a block
\* twice, and the free queue lists the blocks with no reference, once each: a
\* block is never leaked, freed twice or handed out while in use.
RefCountExact ==
    /\ \A b \in Block : pool.ref_cnt[b] = Cardinality(Holders(req_to_blocks, b))
    /\ \A r \in Request : IsInjective(req_to_blocks[r])
    /\ FreeQueueExact(pool)

\* Every position that a running request counts as computed, finally accepted
\* or still in flight, reads from its block table the KV of exactly its own
\* token prefix, whoever wrote the block and whatever was evicted, shared,
\* preempted or rejected since.
KVMatchesTokens ==
    \A r \in Request : \A p \in 0 .. num_computed_tokens[r] - 1 :
        slots[SlotBlock(req_to_blocks[r], p)][SlotOffset(p)] =
            SubSeq(tokens[r] \o spec_token_ids[r], 1, p + 1)

\* find_longest_cache_hit stops at the first miss because "the following block
\* hashes are not computed yet for sure": a cached block's parent is cached.
PrefixClosedCache ==
    \A b \in Block : Len(pool.block_hash[b]) > BlockSize =>
        \E c \in Block : pool.block_hash[c] = Parent(pool.block_hash[b])

\* A cached block is immutable: as long as it keeps its hash nobody writes to
\* its slots, so a prefix that was found in the cache is still there when the
\* batch that relies on it runs.
CachedBlockImmutable ==
    [][\A b \in Block :
         pool.block_hash[b] # NoHash /\ pool'.block_hash[b] = pool.block_hash[b]
           => slots'[b] = slots[b]]_vars

--------------------------------------------------------------------------------
(* The inductive invariant behind these properties *)

\* What the tables of a request, its counters and the hashes of its blocks have
\* to do with each other.  The blocks up to num_cached_block carry the hashes of
\* the request's own prefixes; the ones after it are still private.
RequestOK(r) ==
    LET table == req_to_blocks[r]
        num_cached == num_cached_block[r]
    IN  /\ num_tokens(r) \in 1 .. MaxModelLen
        /\ IsInjective(table) /\ null_block \notin Range(table)
        /\ Waiting(r) => /\ table = << >> /\ num_computed_tokens[r] = 0
                         /\ spec_token_ids[r] = << >>
        /\ Running(r) =>
             /\ num_cached <= Len(table)
             /\ num_cached * BlockSize <= num_computed_tokens[r]
             /\ num_cached * BlockSize <= num_tokens(r)
             /\ num_computed_tokens[r] <= Len(table) * BlockSize
             /\ num_computed_tokens[r] <= num_tokens(r) + Len(spec_token_ids[r])
             /\ spec_token_ids[r] # << >> =>
                  num_computed_tokens[r] = num_tokens(r) + Len(spec_token_ids[r])
             /\ \A i \in 1 .. num_cached :
                  pool.block_hash[table[i]] = BlockHash(tokens[r], i)
             /\ \A i \in num_cached + 1 .. Len(table) :
                  /\ pool.block_hash[table[i]] = NoHash
                  /\ \A s \in Request \ {r} : table[i] \notin Range(req_to_blocks[s])

\* The slots of a cached block hold the KV of the positions its hash stands for.
HashedSlots ==
    \A b \in Block : pool.block_hash[b] # NoHash =>
        /\ Len(pool.block_hash[b]) >= BlockSize
        /\ \A o \in 0 .. BlockSize - 1 :
             slots[b][o] = SubSeq(pool.block_hash[b], 1,
                              Len(pool.block_hash[b]) - BlockSize + o + 1)

\* What every operation of the manager preserves: the properties above, with the
\* facts about tables, hashes and the order of the free queue that they rest on.
IInv ==
    /\ TypeOK
    /\ PoolOK(pool)
    /\ NoFailure
    /\ RefCountExact
    /\ \A r \in Request : RequestOK(r)
    /\ HashedSlots
    /\ KVMatchesTokens
    /\ ParentBehind(pool)
================================================================================
