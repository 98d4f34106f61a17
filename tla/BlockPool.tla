------------------------------- MODULE BlockPool -------------------------------
(***************************************************************************)
(* The pool of GPU KV-cache blocks of vllm/v1/core/block_pool.py.          *)
(*                                                                         *)
(* A pool is a record whose fields are the attributes of class BlockPool   *)
(* and of its KVCacheBlocks; every method is an operator from the pool     *)
(* before the call to the pool after it.  Field failed records that the    *)
(* method raised (an assert, a ValueError or a RuntimeError).              *)
(*                                                                         *)
(* A block hash is a chain: hash_block_tokens feeds the parent's hash into *)
(* the hash of a block.  With a collision-free hash function it therefore  *)
(* identifies the whole token prefix that ends with the block, and the     *)
(* prefix itself stands for it here; the empty prefix stands for None.     *)
(***************************************************************************)
EXTENDS Integers, Sequences, FiniteSets, Functions

CONSTANTS
    NumGpuBlocks,       \* num_gpu_blocks, the null block included
    BlockSize,          \* token slots per block
    EnableCaching,      \* enable_caching (prefix caching)
    Token               \* token ids

ASSUME PoolAssumption ==
    /\ NumGpuBlocks \in Nat \ {0}
    /\ BlockSize \in Nat \ {0}
    /\ EnableCaching \in BOOLEAN

Block == 0 .. NumGpuBlocks - 1

\* The first block popped by BlockPool.__init__: a placeholder, never freed.
null_block == 0

NoHash == << >>

\* request.block_hashes[k - 1]: the hash of the k-th full block of a request.
BlockHash(tokens, k) == SubSeq(tokens, 1, k * BlockSize)

--------------------------------------------------------------------------------
(* Sequences *)

\* The indices of q that hold an element of S, and the rank of index i among
\* them.
IndicesOf(q, S) == {i \in DOMAIN q : q[i] \in S}
RankOf(K, i) == Cardinality({k \in K : k <= i})

\* The elements of q that lie in S, in the order of q.
Keep(q, S) ==
    LET K == IndicesOf(q, S)
    IN  [n \in 1 .. Cardinality(K) |-> q[CHOOSE i \in K : RankOf(K, i) = n]]

Occurrences(q, b) == Cardinality({i \in DOMAIN q : q[i] = b})

\* reversed(q)
Reversed(q) == [i \in 1 .. Len(q) |-> q[Len(q) + 1 - i]]

--------------------------------------------------------------------------------
(* The methods of BlockPool *)

\* BlockPool.__init__: every block is free, in the order of the block ids, but
\* for the null block, which is popped at once.
InitPool ==
    [free_block_queue           |-> [i \in 1 .. NumGpuBlocks - 1 |-> i],
     ref_cnt                    |-> [b \in Block |-> 0],
     block_hash                 |-> [b \in Block |-> NoHash],
     cached_block_hash_to_block |-> {},
     failed                     |-> FALSE]

get_num_free_blocks(pool) == Len(pool.free_block_queue)

\* The blocks get_cached_block may return for a hash: "any block with the given
\* block hash key".
get_cached_block(pool, hash) ==
    {b \in Block : <<hash, b>> \in pool.cached_block_hash_to_block}

\* Mutant of touch: an eviction candidate stays in the free queue.
TouchStaysQueued(pool, blocks) ==
    [free_block_queue |-> pool.free_block_queue,
     ref_cnt |-> [b \in Block |-> pool.ref_cnt[b] + Occurrences(blocks, b)],
     block_hash |-> pool.block_hash,
     cached_block_hash_to_block |-> pool.cached_block_hash_to_block,
     failed |-> pool.failed]

\* touch: a cached block gains a reference and leaves the free queue if it was
\* an eviction candidate; FreeKVCacheBlockQueue.remove raises on a block that
\* is not linked.
touch(pool, blocks) ==
    LET free == {b \in Range(blocks) : pool.ref_cnt[b] = 0 /\ b # null_block}
    IN  [free_block_queue |-> Keep(pool.free_block_queue, Block \ free),
         ref_cnt |-> [b \in Block |-> pool.ref_cnt[b] + Occurrences(blocks, b)],
         block_hash |-> pool.block_hash,
         cached_block_hash_to_block |-> pool.cached_block_hash_to_block,
         failed |-> \/ pool.failed
                    \/ ~ (free \subseteq Range(pool.free_block_queue))]

\* FreeKVCacheBlockQueue.popleft_n
popleft_n(queue, n) == SubSeq(queue, 1, n)

\* The blocks that _maybe_evict_cached_block drops from the cache: those it
\* finds in the map under their own hash.
Evicted(pool, blocks) ==
    {b \in Range(blocks) :
        /\ EnableCaching
        /\ <<pool.block_hash[b], b>> \in pool.cached_block_hash_to_block}

\* Mutant of get_new_blocks: no eviction.
GetNewBlocksNoEviction(pool, n) ==
    [free_block_queue |->
        SubSeq(pool.free_block_queue, n + 1, Len(pool.free_block_queue)),
     ref_cnt |-> [b \in Block |-> pool.ref_cnt[b]
                    + Occurrences(popleft_n(pool.free_block_queue, n), b)],
     block_hash |-> pool.block_hash,
     cached_block_hash_to_block |-> pool.cached_block_hash_to_block,
     failed |-> pool.failed]

\* get_new_blocks: take n blocks from the head of the free queue, evicting the
\* cached ones.
get_new_blocks(pool, n) ==
    LET ret     == popleft_n(pool.free_block_queue, n)
        evicted == Evicted(pool, ret)
    IN  [free_block_queue |->
            SubSeq(pool.free_block_queue, n + 1, Len(pool.free_block_queue)),
         ref_cnt |-> [b \in Block |-> IF b \in Range(ret)
                                      THEN pool.ref_cnt[b] + 1
                                      ELSE pool.ref_cnt[b]],
         block_hash |-> [b \in Block |-> IF b \in evicted
                                         THEN NoHash
                                         ELSE pool.block_hash[b]],
         cached_block_hash_to_block |->
            {e \in pool.cached_block_hash_to_block : e[2] \notin evicted},
         failed |-> \/ pool.failed
                    \/ n > get_num_free_blocks(pool)
                    \/ \E b \in Range(ret) : pool.ref_cnt[b] # 0]

\* cache_full_blocks: give the blocks num_cached + 1 .. num_full of a request
\* the hash of the token prefix that each of them completes.
cache_full_blocks(pool, tokens, blocks, num_cached, num_full) ==
    LET new == {i \in DOMAIN blocks : num_cached < i /\ i <= num_full}
        IndexOf(b) == CHOOSE i \in new : blocks[i] = b
    IN  [free_block_queue |-> pool.free_block_queue,
         ref_cnt |-> pool.ref_cnt,
         block_hash |-> [b \in Block |-> IF \E i \in new : blocks[i] = b
                                         THEN BlockHash(tokens, IndexOf(b))
                                         ELSE pool.block_hash[b]],
         cached_block_hash_to_block |->
             pool.cached_block_hash_to_block
               \cup {<<BlockHash(tokens, i), blocks[i]>> : i \in new},
         failed |-> \/ pool.failed
                    \/ /\ num_cached # num_full
                       /\ Len(tokens) \div BlockSize < num_full
                    \/ \E i \in new : pool.block_hash[blocks[i]] # NoHash]

\* Mutant of free_blocks: the reference is dropped in both passes over the list.
FreeBlocksTwice(pool, ordered_blocks) ==
    LET ref_cnt == [b \in Block |->
                      pool.ref_cnt[b] - 2 * Occurrences(ordered_blocks, b)]
        unused  == {b \in Block : ref_cnt[b] = 0 /\ b # null_block}
    IN  [free_block_queue |->
             pool.free_block_queue \o Keep(ordered_blocks, unused),
         ref_cnt |-> ref_cnt,
         block_hash |-> pool.block_hash,
         cached_block_hash_to_block |-> pool.cached_block_hash_to_block,
         failed |-> pool.failed]

\* free_blocks: drop a reference to every block of the list; those that nobody
\* references any more join the tail of the free queue, in the list's order.
free_blocks(pool, ordered_blocks) ==
    LET ref_cnt == [b \in Block |->
                      pool.ref_cnt[b] - Occurrences(ordered_blocks, b)]
        unused  == {b \in Block : ref_cnt[b] = 0 /\ b # null_block}
    IN  [free_block_queue |->
             pool.free_block_queue \o Keep(ordered_blocks, unused),
         ref_cnt |-> ref_cnt,
         block_hash |-> pool.block_hash,
         cached_block_hash_to_block |-> pool.cached_block_hash_to_block,
         failed |-> pool.failed]

\* reset_prefix_cache: refused unless the null block is the only one in use.
reset_prefix_cache(pool) ==
    IF NumGpuBlocks - get_num_free_blocks(pool) # 1
    THEN pool
    ELSE [free_block_queue |-> pool.free_block_queue,
          ref_cnt |-> pool.ref_cnt,
          block_hash |-> [b \in Block |-> NoHash],
          cached_block_hash_to_block |-> {},
          failed |-> pool.failed]

--------------------------------------------------------------------------------
(* What a pool promises to its callers *)

Pool ==
    [free_block_queue           : Seq(Block),
     ref_cnt                    : [Block -> Nat],
     block_hash                 : [Block -> Seq(Token)],
     cached_block_hash_to_block : SUBSET (Seq(Token) \X Block),
     failed                     : BOOLEAN]

\* The free queue lists the blocks that nobody references, once each.
FreeQueueExact(p) ==
    /\ IsInjective(p.free_block_queue)
    /\ Range(p.free_block_queue) =
          {b \in Block : p.ref_cnt[b] = 0 /\ b # null_block}

\* The hash map holds the blocks that have a hash, each under its own hash; the
\* null block is never cached.
HashMapExact(p) ==
    /\ p.cached_block_hash_to_block =
          {<<p.block_hash[b], b>> : b \in {c \in Block : p.block_hash[c] # NoHash}}
    /\ p.block_hash[null_block] = NoHash
    /\ ~ EnableCaching => \A b \in Block : p.block_hash[b] = NoHash

\* The parent of a cached block that waits for eviction is in use or waits
\* behind it in the free queue, so the tail of a cached prefix goes first.
Parent(hash) == SubSeq(hash, 1, Len(hash) - BlockSize)

Behind(p, b, c) ==
    \E i, j \in DOMAIN p.free_block_queue :
        i < j /\ p.free_block_queue[i] = b /\ p.free_block_queue[j] = c

ParentBehind(p) ==
    \A b \in Block : p.ref_cnt[b] = 0 /\ Len(p.block_hash[b]) > BlockSize =>
        \E c \in Block : /\ p.block_hash[c] = Parent(p.block_hash[b])
                         /\ p.ref_cnt[c] > 0 \/ Behind(p, b, c)

PoolOK(p) == p \in Pool /\ FreeQueueExact(p) /\ HashMapExact(p)
================================================================================
