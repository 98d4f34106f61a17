------------------------- MODULE KVCacheManagerProofs --------------------------
(***************************************************************************)
(* The safety of the KV-cache manager, for every number of blocks, block   *)
(* size, set of requests and prompts, with or without prefix caching,      *)
(* speculative tokens and EAGLE.                                           *)
(***************************************************************************)
EXTENDS KVScheduleProofs

--------------------------------------------------------------------------------
(* free *)

\* The block before a cached block in a table is cached as its parent.
LEMMA TableParent ==
    ASSUME IInv, NEW r \in Request, NEW k \in 1 .. Len(req_to_blocks[r]),
           Len(pool.block_hash[req_to_blocks[r][k]]) > BlockSize
    PROVE  /\ k - 1 \in 1 .. Len(req_to_blocks[r])
           /\ pool.block_hash[req_to_blocks[r][k - 1]]
                 = Parent(pool.block_hash[req_to_blocks[r][k]])
<1> DEFINE table == req_to_blocks[r]
           L == Len(table)
           num_cached == num_cached_block[r]
           toks == tokens[r]
           m == k - 1
<1>1. /\ toks \in Seq(Token) /\ num_tokens(r) = Len(toks) /\ num_tokens(r) \in Nat
      /\ BlockSize \in Nat \ {0} /\ L \in Nat
      /\ Waiting(r) => table = << >>
      /\ Running(r) => num_cached \in Nat
  BY RequestFacts DEF RequestOK
<1>2. Running(r)
  <2>1. table # << >>
    BY <1>1
  <2> QED  BY <1>1, <2>1 DEF Running, Waiting
<1>3. /\ num_cached <= L /\ num_cached * BlockSize <= Len(toks)
      /\ \A i \in 1 .. num_cached : pool.block_hash[table[i]] = BlockHash(toks, i)
      /\ \A i \in num_cached + 1 .. L : pool.block_hash[table[i]] = NoHash
  BY <1>1, <1>2, RequestFacts DEF RequestOK
<1>4. k \in 1 .. num_cached
  <2>1. k \notin num_cached + 1 .. L
    <3>1. ~ (Len(NoHash) > BlockSize)
      BY <1>1 DEF NoHash
    <3> QED  BY <1>3, <3>1
  <2>2. k \in 1 .. L /\ num_cached \in Nat /\ L \in Nat
    BY <1>1, <1>2
  <2> HIDE DEF L, num_cached
  <2> QED  BY <2>1, <2>2
<1>5. /\ k \in Nat \ {0} /\ k <= num_cached /\ num_cached \in Nat
      /\ pool.block_hash[table[k]] = BlockHash(toks, k)
  BY <1>1, <1>2, <1>3, <1>4
<1>6. k * BlockSize <= Len(toks) /\ k * BlockSize \in Nat
  <2>1. k * BlockSize <= num_cached * BlockSize
    BY <1>1, <1>5, MulMonotone, Zenon
  <2>2. num_cached * BlockSize \in Nat /\ k * BlockSize \in Nat /\ Len(toks) \in Nat
    BY <1>1, <1>5
  <2> HIDE DEF toks, num_cached
  <2> QED  BY <1>3, <2>1, <2>2
<1>7. Len(BlockHash(toks, k)) = k * BlockSize
  <2> HIDE DEF toks
  <2> QED  BY <1>1, <1>5, <1>6, BlockHashFacts
<1>8. /\ m \in Nat \ {0} /\ m \in 1 .. num_cached /\ m \in 1 .. L
      /\ m * BlockSize = k * BlockSize - BlockSize
  <2>1. k # 1
    <3>1. k * BlockSize > BlockSize
      BY <1>5, <1>7
    <3> QED  BY <1>1, <3>1
  <2>2. (k - 1) * BlockSize = k * BlockSize - BlockSize
    BY <1>1, <1>5
  <2>3. L \in Nat /\ num_cached <= L
    BY <1>1, <1>3
  <2> HIDE DEF num_cached, L
  <2> QED  BY <1>5, <2>1, <2>2, <2>3
<1>9. BlockHash(toks, m) = Parent(BlockHash(toks, k))
  <2>1. m * BlockSize \in 0 .. k * BlockSize /\ k * BlockSize \in 0 .. Len(toks)
    <3>1. m * BlockSize \in Nat
      BY <1>1, <1>8
    <3> HIDE DEF m
    <3> QED  BY <1>1, <1>6, <1>8, <3>1
  <2>2. Parent(BlockHash(toks, k)) = SubSeq(BlockHash(toks, k), 1, m * BlockSize)
    BY <1>7, <1>8, Zenon DEF Parent
  <2> HIDE DEF toks, m
  <2> QED  BY <1>1, <2>1, <2>2, PrefixOfPrefix DEF BlockHash
<1>10. pool.block_hash[table[m]] = BlockHash(toks, m)
  BY <1>3, <1>8
<1> QED  BY <1>5, <1>8, <1>9, <1>10

\* free returns every block of the table once, tail first.
LEMMA FreeOK ==
    ASSUME IInv, NEW r \in Request, free(r)
    PROVE  /\ PoolOK(pool') /\ ParentBehind(pool') /\ ~ pool'.failed
           /\ pool'.block_hash = pool.block_hash
           /\ \A b \in Block : pool'.ref_cnt[b] = Cardinality(Holders(req_to_blocks', b))
<1> DEFINE table == req_to_blocks[r]
           L == Len(table)
           blocks == Reversed(table)
<1>1. /\ TypeOK /\ PoolOK(pool) /\ ParentBehind(pool) /\ ~ pool.failed /\ RefCountExact
  BY DEF IInv, NoFailure
<1>2. /\ table \in Seq(Block) /\ L \in Nat
      /\ IsInjective(table) /\ null_block \notin Range(table)
  BY RequestFacts DEF RequestOK
<1>4. /\ blocks \in Seq(Block) /\ Len(blocks) = L
      /\ \A i \in 1 .. L : blocks[i] = table[L + 1 - i]
      /\ Range(blocks) = Range(table) /\ IsInjective(blocks)
  BY <1>2, ReversedFacts
<1>5. \A b \in Range(blocks) : pool.ref_cnt[b] > 0 /\ b \in Block
  <2>1. \A b \in Range(table) : b \in Block
    BY <1>2 DEF Range
  <2> HIDE DEF blocks
  <2> QED  BY <1>1, <1>4, <2>1, RefFacts
<1>6. ASSUME NEW i \in DOMAIN blocks, Len(pool.block_hash[blocks[i]]) > BlockSize
      PROVE  \E j \in DOMAIN blocks :
                i < j /\ pool.block_hash[blocks[j]] = Parent(pool.block_hash[blocks[i]])
  <2> HIDE DEF blocks
  <2> DEFINE k == L + 1 - i
             j == i + 1
  <2>1. DOMAIN blocks = 1 .. L
    BY <1>4
  <2>2. i \in 1 .. L /\ L \in Nat
    BY <1>2, <2>1
  <2>3. k \in 1 .. L /\ blocks[i] = table[k]
    <3>1. k \in 1 .. L
      <4> HIDE DEF L
      <4> QED  BY <2>2
    <3> QED  BY <1>4, <2>2, <3>1
  <2>4. k - 1 \in 1 .. L /\ pool.block_hash[table[k - 1]] = Parent(pool.block_hash[table[k]])
    <3> HIDE DEF k
    <3> QED  BY <1>6, <2>3, TableParent, Zenon
  <2>5. j \in 1 .. L /\ L + 1 - j = k - 1 /\ i < j
    <3> HIDE DEF L
    <3> QED  BY <2>2, <2>4
  <2>6. blocks[j] = table[k - 1]
    <3> HIDE DEF k, j, L
    <3> QED  BY <1>4, <2>5
  <2> HIDE DEF k, j
  <2> QED  BY <2>1, <2>3, <2>4, <2>5, <2>6
<1>7. /\ pool' = free_blocks(pool, blocks)
      /\ req_to_blocks' = [req_to_blocks EXCEPT ![r] = << >>]
  BY DEF free
<1> HIDE DEF blocks
<1>8. /\ PoolOK(pool') /\ pool'.failed = pool.failed
      /\ pool'.block_hash = pool.block_hash
      /\ pool'.ref_cnt = [b \in Block |-> IF b \in Range(blocks)
                                          THEN pool.ref_cnt[b] - 1
                                          ELSE pool.ref_cnt[b]]
  BY <1>1, <1>2, <1>4, <1>5, <1>7, FreeBlocksOK, Zenon
<1>9. ParentBehind(pool')
  BY <1>1, <1>2, <1>4, <1>5, <1>6, <1>7, ParentFreeBlocks, Zenon
<1>10. ASSUME NEW b \in Block
       PROVE  pool'.ref_cnt[b] = Cardinality(Holders(req_to_blocks', b))
  <2> DEFINE H == Cardinality(Holders(req_to_blocks, b))
             G == Cardinality(Holders(req_to_blocks', b))
  <2>1. /\ req_to_blocks \in [Request -> Seq(Block)] /\ << >> \in Seq(Block)
        /\ b \notin Range(<< >>)
    BY <1>1 DEF TypeOK, Range
  <2>2. /\ b \notin Range(table) => G = H
        /\ b \in Range(table) => G = H - 1
    <3> DEFINE none == << >>
               U == [req_to_blocks EXCEPT ![r] = none]
    <3>1. b \notin Range(none) /\ req_to_blocks' = U
      BY <1>7, <2>1
    <3>2. none \in Seq(Block)
      BY <2>1
    <3>3. req_to_blocks \in [Request -> Seq(Block)]
      BY <2>1
    <3> HIDE DEF none
    <3>4. /\ (b \in Range(none) <=> b \in Range(table)) =>
                Cardinality(Holders(U, b)) = H
          /\ b \notin Range(none) /\ b \in Range(table) =>
                Cardinality(Holders(U, b)) = H - 1
      BY <3>2, <3>3, HoldersUpdate, ZenonT(60)
    <3> HIDE DEF U
    <3> QED  BY <3>1, <3>4
  <2>3. pool.ref_cnt[b] = H
    BY <1>1 DEF RefCountExact
  <2> HIDE DEF G, H, table
  <2>4. pool'.ref_cnt[b] = G
    BY <1>4, <1>8, <2>2, <2>3
  <2> QED  BY <2>4, Zenon DEF G
<1> QED  BY <1>1, <1>8, <1>9, <1>10

\* A step that frees a request and resets its counters, with the same or with
\* other tokens, preserves the invariant.
LEMMA FreeStep ==
    ASSUME IInv, NEW r \in Request, free(r), NEW t \in Seq(Token),
           Len(t) > 0, Len(t) <= MaxModelLen,
           tokens' = [tokens EXCEPT ![r] = t],
           num_computed_tokens' = [num_computed_tokens EXCEPT ![r] = 0],
           spec_token_ids' = [spec_token_ids EXCEPT ![r] = << >>],
           slots' = slots
    PROVE  IInv'
<1>1. TypeOK /\ RefCountExact /\ HashedSlots /\ KVMatchesTokens
  BY Zenon DEF IInv
<1>2. /\ PoolOK(pool') /\ ParentBehind(pool') /\ ~ pool'.failed
      /\ pool'.block_hash = pool.block_hash
      /\ \A b \in Block : pool'.ref_cnt[b] = Cardinality(Holders(req_to_blocks', b))
  BY FreeOK
<1>3. /\ req_to_blocks' = [req_to_blocks EXCEPT ![r] = << >>]
      /\ num_cached_block' = [num_cached_block EXCEPT ![r] = Untracked]
  BY DEF free
<1>4. TypeOK'
  <2>1. pool' \in Pool
    BY <1>2 DEF PoolOK
  <2> QED  BY <1>1, <1>3, <2>1 DEF TypeOK
<1>5. \A s \in Request \ {r} :
         /\ req_to_blocks'[s] = req_to_blocks[s]
         /\ num_cached_block'[s] = num_cached_block[s]
         /\ tokens'[s] = tokens[s]
         /\ num_computed_tokens'[s] = num_computed_tokens[s]
         /\ spec_token_ids'[s] = spec_token_ids[s]
  BY <1>1, <1>3 DEF TypeOK
<1>6. /\ req_to_blocks'[r] = << >> /\ num_cached_block'[r] = Untracked
      /\ tokens'[r] = t /\ num_computed_tokens'[r] = 0 /\ spec_token_ids'[r] = << >>
  BY <1>1, <1>3 DEF TypeOK
<1>7. IsInjective(<< >>) /\ Range(<< >>) = {}
  BY DEF IsInjective, Range
<1>8. RefCountExact'
  <2>1. \A s \in Request : IsInjective(req_to_blocks'[s])
    BY <1>1, <1>5, <1>6, <1>7 DEF RefCountExact
  <2> QED  BY <1>2, <2>1 DEF RefCountExact, PoolOK
<1>9. HashedSlots'
  BY <1>1, <1>2 DEF HashedSlots
<1>10. KVMatchesTokens'
  <2>1. SUFFICES ASSUME NEW s \in Request, NEW p \in 0 .. num_computed_tokens'[s] - 1
                 PROVE  slots[SlotBlock(req_to_blocks'[s], p)][SlotOffset(p)] =
                           SubSeq(tokens'[s] \o spec_token_ids'[s], 1, p + 1)
    BY Zenon DEF KVMatchesTokens, SlotBlock, SlotOffset
  <2>2. s # r
    BY <1>6
  <2> QED  BY <1>1, <1>5, <2>1, <2>2, ZenonT(60) DEF KVMatchesTokens
<1>11. RequestOK(r)'
  <2>1. Waiting(r)' /\ ~ Running(r)' /\ num_tokens(r)' = Len(t)
    BY <1>6 DEF Waiting, Running, num_tokens
  <2>2. Len(t) \in 1 .. MaxModelLen
    BY ManagerAssumption
  <2> QED  BY <1>6, <1>7, <2>1, <2>2 DEF RequestOK
<1>12. ASSUME NEW s \in Request \ {r}
       PROVE  RequestOK(s)'
  <2>1. RequestOK(s)
    BY RequestFacts
  <2>2. /\ num_tokens(s)' = num_tokens(s)
        /\ Waiting(s)' = Waiting(s) /\ Running(s)' = Running(s)
    BY <1>5 DEF num_tokens, Waiting, Running
  <2>3. \A i : \A q \in Request \ {s} :
           req_to_blocks[s][i] \notin Range(req_to_blocks[q])
              => req_to_blocks[s][i] \notin Range(req_to_blocks'[q])
    BY <1>5, <1>6, <1>7
  <2> QED  BY <1>2, <1>5, <2>1, <2>2, <2>3, Zenon DEF RequestOK
<1>13. NoFailure' /\ PoolOK(pool)' /\ ParentBehind(pool)'
  BY <1>2, Zenon DEF NoFailure, PoolOK, Pool, FreeQueueExact, HashMapExact, ParentBehind, Behind
<1> QED  BY <1>4, <1>8, <1>9, <1>10, <1>11, <1>12, <1>13 DEF IInv

\* Preemption keeps the invariant.
LEMMA PreemptOK ==
    ASSUME IInv, NEW r \in Request, Preempt(r)
    PROVE  IInv'
<1>1. /\ Running(r) /\ ~ Sampling(r) /\ free(r)
      /\ num_computed_tokens' = [num_computed_tokens EXCEPT ![r] = 0]
      /\ tokens' = tokens /\ spec_token_ids' = spec_token_ids /\ slots' = slots
  BY DEF Preempt
<1>2. /\ num_computed_tokens[r] \in Nat /\ num_tokens(r) \in Nat /\ num_tokens(r) > 0
      /\ num_tokens(r) <= MaxModelLen /\ tokens[r] \in Seq(Token)
      /\ num_tokens(r) = Len(tokens[r])
  BY RequestFacts
<1>3. spec_token_ids[r] = << >>
  <2>1. num_computed_tokens[r] < num_tokens(r)
    BY <1>1, <1>2 DEF Sampling
  <2> QED  BY <1>1, <2>1, ResumedRunning
<1>4. /\ tokens' = [tokens EXCEPT ![r] = tokens[r]]
      /\ spec_token_ids' = [spec_token_ids EXCEPT ![r] = << >>]
  BY <1>1, <1>3 DEF IInv, TypeOK
<1> QED  BY <1>1, <1>2, <1>4, FreeStep, Zenon

\* Finishing or aborting a request keeps the invariant.
LEMMA FinishOK ==
    ASSUME IInv, NEW r \in Request, Finish(r)
    PROVE  IInv'
<1>1. PICK prompt \in Prompts : tokens' = [tokens EXCEPT ![r] = prompt]
  BY Zenon DEF Finish
<1>2. prompt \in Seq(Token) /\ Len(prompt) > 0 /\ Len(prompt) <= MaxModelLen
  BY ManagerAssumption
<1> QED  BY <1>1, <1>2, FreeStep, Zenon DEF Finish

--------------------------------------------------------------------------------
(* update_from_output *)

\* The accepted drafts and the sampled token extend the tokens, and every
\* position that still counts as computed keeps its prefix.
LEMMA AcceptedPrefix ==
    ASSUME NEW toks \in Seq(Token), NEW spec \in Seq(Token), NEW k \in 0 .. Len(spec),
           NEW t \in Token, NEW n \in 0 .. Len(toks) + k
    PROVE  LET seq == toks \o SubSeq(spec, 1, k) \o <<t>>
           IN  /\ seq \in Seq(Token) /\ Len(seq) = Len(toks) + k + 1
               /\ SubSeq(seq, 1, n) = SubSeq(toks \o spec, 1, n)
               /\ seq \o << >> = seq
<1> DEFINE x == SubSeq(spec, 1, k)
           a == toks \o x
           c == toks \o spec
           seq == a \o <<t>>
<1>1. /\ Len(toks) \in Nat /\ Len(spec) \in Nat /\ k \in Nat /\ <<t>> \in Seq(Token)
      /\ Len(<<t>>) = 1
  BY SMTT(60)
<1>2. x \in Seq(Token) /\ Len(x) = k /\ \A i \in 1 .. k : x[i] = spec[i]
  OBVIOUS
<1> HIDE DEF x
<1>3. /\ a \in Seq(Token) /\ Len(a) = Len(toks) + k
      /\ \A i \in 1 .. Len(toks) : a[i] = toks[i]
      /\ \A i \in 1 .. k : a[Len(toks) + i] = x[i]
  <2>1. x \in Seq(Token)
    BY <1>2
  <2>2. /\ a \in Seq(Token) /\ Len(a) = Len(toks) + Len(x)
        /\ \A i \in 1 .. Len(toks) : a[i] = toks[i]
        /\ \A i \in 1 .. Len(x) : a[Len(toks) + i] = x[i]
    BY <2>1, ConcatFacts
  <2> QED  BY <1>2, <2>2
<1>4. /\ c \in Seq(Token) /\ Len(c) = Len(toks) + Len(spec)
      /\ \A i \in 1 .. Len(toks) : c[i] = toks[i]
      /\ \A i \in 1 .. Len(spec) : c[Len(toks) + i] = spec[i]
  BY ConcatFacts
<1> HIDE DEF a, c
<1>5. seq \in Seq(Token) /\ Len(seq) = Len(a) + 1
  <2> DEFINE u == <<t>>
  <2>1. u \in Seq(Token) /\ Len(u) = 1 /\ a \in Seq(Token)
    BY <1>1, <1>3
  <2> HIDE DEF u
  <2>2. a \o u \in Seq(Token) /\ Len(a \o u) = Len(a) + Len(u)
    BY <2>1, ConcatFacts, Zenon
  <2> QED  BY <2>1, <2>2 DEF u
<1>6. n \in 0 .. Len(a)
  BY <1>3
<1>7. SubSeq(seq, 1, n) = SubSeq(a, 1, n)
  BY <1>1, <1>3, <1>6, PrefixOfConcat
<1>8. \A i \in 1 .. Len(a) : a[i] = c[i]
  <2>1. SUFFICES ASSUME NEW i \in 1 .. Len(a) PROVE a[i] = c[i]
    OBVIOUS
  <2>2. CASE i <= Len(toks)
    <3>1. i \in 1 .. Len(toks)
      BY <1>1, <1>3, <2>2
    <3> QED  BY <1>3, <1>4, <3>1
  <2>3. CASE i > Len(toks)
    <3> DEFINE j == i - Len(toks)
    <3>1. j \in 1 .. k /\ j \in 1 .. Len(spec) /\ i = Len(toks) + j
      BY <1>1, <1>3, <2>3
    <3> HIDE DEF j
    <3> QED  BY <1>2, <1>3, <1>4, <3>1, Zenon
  <2> QED  BY <1>1, <1>3, <2>2, <2>3
<1>9. SubSeq(a, 1, n) = SubSeq(c, 1, n)
  <2> DEFINE y == SubSeq(a, 1, n)
             z == SubSeq(c, 1, n)
  <2>1. y \in Seq(Token) /\ Len(y) = n /\ \A i \in 1 .. n : y[i] = a[i]
    BY <1>3, <1>6
  <2>2. n \in 0 .. Len(c)
    BY <1>1, <1>4
  <2>3. z \in Seq(Token) /\ Len(z) = n /\ \A i \in 1 .. n : z[i] = c[i]
    BY <1>4, <2>2
  <2> HIDE DEF y, z
  <2>4. \A i \in 1 .. n : i \in 1 .. Len(a)
    BY <1>1, <1>3, <1>6
  <2>5. \A i \in 1 .. n : y[i] = z[i]
    BY <1>8, <2>1, <2>3, <2>4
  <2>6. y = z
    BY <2>1, <2>3, <2>5
  <2> QED  BY <2>6 DEF y, z
<1>10. Len(seq) = Len(toks) + k + 1
  BY <1>1, <1>3, <1>5
<1> HIDE DEF seq
<1>11. seq \o << >> = seq
  BY <1>5
<1> QED  BY <1>5, <1>7, <1>9, <1>10, <1>11 DEF seq, a, c, x

\* update_from_output keeps the invariant: accepted tokens stay, rejected ones
\* are taken back.
LEMMA UpdateFromOutputOK ==
    ASSUME IInv, NEW r \in Request, UpdateFromOutput(r)
    PROVE  IInv'
<1> DEFINE toks == tokens[r]
           spec == spec_token_ids[r]
           computed == num_computed_tokens[r]
<1>1. PICK k \in 0 .. Len(spec), t \in Token :
         /\ num_tokens(r) + k + 1 < MaxModelLen
         /\ tokens' = [tokens EXCEPT ![r] = toks \o SubSeq(spec, 1, k) \o <<t>>]
         /\ num_computed_tokens' =
               [num_computed_tokens EXCEPT ![r] = computed - (Len(spec) - k)]
  BY Zenon DEF UpdateFromOutput
<1>2. /\ Running(r) /\ computed >= num_tokens(r)
      /\ spec_token_ids' = [spec_token_ids EXCEPT ![r] = << >>]
      /\ pool' = pool /\ req_to_blocks' = req_to_blocks
      /\ num_cached_block' = num_cached_block /\ slots' = slots
  BY DEF UpdateFromOutput, Sampling
<1>3. /\ toks \in Seq(Token) /\ num_tokens(r) = Len(toks) /\ num_tokens(r) \in Nat
      /\ MaxModelLen \in Nat /\ BlockSize \in Nat \ {0}
      /\ spec \in Seq(Token) /\ computed \in Nat /\ num_cached_block[r] \in Nat
      /\ Len(req_to_blocks[r]) \in Nat /\ RequestOK(r)
  BY <1>2, RequestFacts
<1>4. Len(spec) \in Nat /\ k \in Nat /\ k <= Len(spec) /\ Len(toks) \in Nat
  BY <1>1, <1>3
<1>5. computed = Len(toks) + Len(spec)
  <2>1. /\ computed <= num_tokens(r) + Len(spec)
        /\ spec # << >> => computed = num_tokens(r) + Len(spec)
    BY <1>2, <1>3, Zenon DEF RequestOK
  <2>2. CASE spec = << >>
    <3>1. Len(spec) = 0
      BY <2>2
    <3> HIDE DEF spec, toks, computed
    <3> QED  BY <1>2, <1>3, <1>4, <2>1, <3>1
  <2>3. CASE spec # << >>
    BY <1>3, <2>1, <2>3, Zenon
  <2> QED  BY <2>2, <2>3, Zenon
<1> DEFINE seq == toks \o SubSeq(spec, 1, k) \o <<t>>
           end == Len(toks) + k
<1>6. computed - (Len(spec) - k) = end /\ end \in Nat /\ end <= computed
  <2> HIDE DEF toks, spec, computed
  <2> QED  BY <1>4, <1>5
<1>7. \A n \in 0 .. end : SubSeq(seq, 1, n) = SubSeq(toks \o spec, 1, n)
  <2> HIDE DEF toks, spec
  <2> QED  BY <1>1, <1>3, AcceptedPrefix, SMTT(60)
<1>8. seq \in Seq(Token) /\ Len(seq) = end + 1 /\ seq \o << >> = seq
  <2>1. 0 \in 0 .. Len(toks) + k
    BY <1>4
  <2> HIDE DEF toks, spec
  <2> QED  BY <1>1, <1>3, <2>1, AcceptedPrefix
<1> HIDE DEF seq, end
<1>9. /\ tokens' = [tokens EXCEPT ![r] = seq]
      /\ num_computed_tokens' = [num_computed_tokens EXCEPT ![r] = end]
  BY <1>1, <1>6, Zenon DEF seq
<1>10. /\ TypeOK /\ PoolOK(pool) /\ ParentBehind(pool) /\ NoFailure /\ RefCountExact
       /\ HashedSlots /\ KVMatchesTokens
  BY DEF IInv
<1>11. TypeOK'
  BY <1>2, <1>6, <1>8, <1>9, <1>10 DEF TypeOK
<1>12. /\ tokens'[r] = seq /\ num_computed_tokens'[r] = end /\ spec_token_ids'[r] = << >>
       /\ \A s \in Request \ {r} :
             /\ tokens'[s] = tokens[s] /\ num_computed_tokens'[s] = num_computed_tokens[s]
             /\ spec_token_ids'[s] = spec_token_ids[s]
  BY <1>2, <1>9, <1>10, Zenon DEF TypeOK
<1>13. /\ PoolOK(pool)' /\ ParentBehind(pool)' /\ NoFailure' /\ RefCountExact'
       /\ HashedSlots'
  BY <1>2, <1>10, SMTT(60) DEF PoolOK, Pool, FreeQueueExact, HashMapExact, ParentBehind, Behind,
                     NoFailure, RefCountExact, Holders, HashedSlots
<1>14. KVMatchesTokens'
  <2>1. SUFFICES ASSUME NEW s \in Request, NEW p \in 0 .. num_computed_tokens'[s] - 1
                 PROVE  slots[SlotBlock(req_to_blocks[s], p)][SlotOffset(p)] =
                           SubSeq(tokens'[s] \o spec_token_ids'[s], 1, p + 1)
    BY <1>2, Zenon DEF KVMatchesTokens, SlotBlock, SlotOffset
  <2>2. CASE s = r
    <3>1. p \in 0 .. computed - 1 /\ p + 1 \in 0 .. end
      <4>1. p \in 0 .. end - 1
        BY <1>12, <2>2
      <4> HIDE DEF computed
      <4> QED  BY <1>3, <1>6, <4>1, SMTT(60)
    <3>2. slots[SlotBlock(req_to_blocks[r], p)][SlotOffset(p)]
             = SubSeq(toks \o spec, 1, p + 1)
      BY <1>10, <3>1, Zenon DEF KVMatchesTokens
    <3>3. SubSeq(seq, 1, p + 1) = SubSeq(toks \o spec, 1, p + 1)
      BY <1>7, <3>1, Zenon
    <3> QED  BY <1>8, <1>12, <2>2, <3>2, <3>3, Zenon
  <2>3. CASE s # r
    BY <1>10, <1>12, <2>1, <2>3, Zenon DEF KVMatchesTokens
  <2> QED  BY <2>2, <2>3, Zenon
<1>15. ASSUME NEW s \in Request \ {r}
       PROVE  RequestOK(s)'
  <2>1. RequestOK(s)
    BY RequestFacts, Zenon
  <2>2. /\ num_tokens(s)' = num_tokens(s)
        /\ Waiting(s)' = Waiting(s) /\ Running(s)' = Running(s)
    BY <1>2, <1>12 DEF num_tokens, Waiting, Running
  <2> QED  BY <1>2, <1>12, <2>1, <2>2, Zenon DEF RequestOK
<1>16. RequestOK(r)'
  <2> DEFINE num_cached == num_cached_block[r]
             L == Len(req_to_blocks[r])
  <2>1. /\ num_cached \in Nat /\ L \in Nat /\ num_cached <= L
        /\ num_cached * BlockSize <= Len(toks) /\ computed <= L * BlockSize
        /\ num_cached * BlockSize \in Nat /\ L * BlockSize \in Nat
    BY <1>2, <1>3, SMTT(60) DEF RequestOK
  <2>2. /\ num_cached * BlockSize <= end /\ num_cached * BlockSize <= end + 1
        /\ end <= L * BlockSize /\ end <= end + 1 + 0
    <3> HIDE DEF num_cached, L, toks, computed
    <3> QED  BY <1>3, <1>4, <1>6, <2>1, SMTT(60) DEF end
  <2>3. \A i \in 1 .. num_cached : BlockHash(seq, i) = BlockHash(toks, i)
    <3>1. SUFFICES ASSUME NEW i \in 1 .. num_cached
                   PROVE  BlockHash(seq, i) = BlockHash(toks, i)
      OBVIOUS
    <3>2. i \in Nat /\ i <= num_cached
      BY <2>1
    <3>3. i * BlockSize <= num_cached * BlockSize /\ i * BlockSize \in Nat
      <4>1. i * BlockSize <= num_cached * BlockSize
        BY <1>3, <2>1, <3>2, MulMonotone, Zenon
      <4> QED  BY <1>3, <3>2, <4>1, SMTT(60)
    <3> DEFINE n == i * BlockSize
    <3>4. n \in 0 .. end /\ n \in 0 .. Len(toks)
      <4> HIDE DEF num_cached, toks
      <4> QED  BY <1>4, <1>6, <2>1, <2>2, <3>3, SMTT(60)
    <3> HIDE DEF n
    <3>5. SubSeq(seq, 1, n) = SubSeq(toks \o spec, 1, n)
      BY <1>7, <3>4, Zenon
    <3>6. SubSeq(toks \o spec, 1, n) = SubSeq(toks, 1, n)
      <4> HIDE DEF toks, spec
      <4> QED  BY <1>3, <3>4, PrefixOfConcat
    <3> QED  BY <3>5, <3>6, Zenon DEF BlockHash, n
  <2>4. num_tokens(r)' = end + 1 /\ end + 1 \in 1 .. MaxModelLen
    <3>1. num_tokens(r)' = end + 1
      BY <1>8, <1>12, Zenon DEF num_tokens
    <3>2. Len(toks) + k + 1 < MaxModelLen /\ end = Len(toks) + k
      BY <1>1, <1>3 DEF end
    <3> HIDE DEF toks
    <3> QED  BY <1>3, <1>4, <3>1, <3>2, SMTT(60)
  <2>5. Running(r)' /\ ~ Waiting(r)' /\ Len(<< >>) = 0
    BY <1>2 DEF Running, Waiting
  <2>6. \A i \in 1 .. num_cached :
           pool.block_hash[req_to_blocks[r][i]] = BlockHash(seq, i)
    BY <1>2, <1>3, <2>3, Zenon DEF RequestOK
  <2>7. /\ IsInjective(req_to_blocks[r]) /\ null_block \notin Range(req_to_blocks[r])
        /\ \A i \in num_cached + 1 .. L :
             /\ pool.block_hash[req_to_blocks[r][i]] = NoHash
             /\ \A s \in Request \ {r} : req_to_blocks[r][i] \notin Range(req_to_blocks[s])
    BY <1>2, <1>3, Zenon DEF RequestOK
  <2> QED  BY <1>2, <1>12, <2>1, <2>2, <2>4, <2>5, <2>6, <2>7, ZenonT(60) DEF RequestOK
<1> QED  BY <1>11, <1>13, <1>14, <1>15, <1>16 DEF IInv

--------------------------------------------------------------------------------
(* reset_prefix_cache and the initial state *)

\* When every block but the null block is free, every table is empty.
LEMMA AllFree ==
    ASSUME IInv, NumGpuBlocks - Len(pool.free_block_queue) = 1, NEW r \in Request
    PROVE  Len(req_to_blocks[r]) = 0
<1> DEFINE q == pool.free_block_queue
           R == 1 .. NumGpuBlocks - 1
<1>1. /\ q \in Seq(Block) /\ IsInjective(q) /\ NumGpuBlocks \in Nat \ {0}
      /\ Range(q) = {b \in Block : pool.ref_cnt[b] = 0 /\ b # null_block}
  BY PoolFields, PoolAssumption, Zenon DEF IInv, PoolOK, FreeQueueExact
<1>2. IsFiniteSet(R) /\ Cardinality(R) = NumGpuBlocks - 1
  <2>1. 1 \in Int /\ NumGpuBlocks - 1 \in Int
    BY <1>1
  <2>2. /\ IsFiniteSet(R)
        /\ Cardinality(R) = IF 1 > NumGpuBlocks - 1 THEN 0 ELSE NumGpuBlocks - 1 - 1 + 1
    BY <2>1, FS_Interval
  <2> QED  BY <1>1, <2>2
<1>3. Range(q) \in SUBSET R
  BY <1>1 DEF Block, null_block
<1>4. Cardinality(Range(q)) = Len(q) /\ Len(q) = NumGpuBlocks - 1
  <2>1. q \in Seq(Block) /\ IsInjective(q)
    BY <1>1
  <2>2. Cardinality(Range(q)) = Len(q) /\ Len(q) \in Nat
    <3> HIDE DEF q
    <3> QED  BY <2>1, InjectiveLen
  <2> QED  BY <1>1, <2>2
<1>5. R = Range(q)
  <2> HIDE DEF q, R
  <2> QED  BY <1>2, <1>3, <1>4, FS_Subset
<1>6. /\ req_to_blocks[r] \in Seq(Block) /\ Len(req_to_blocks[r]) \in Nat
      /\ null_block \notin Range(req_to_blocks[r])
  BY RequestFacts, Zenon DEF RequestOK
<1>7. SUFFICES ASSUME Len(req_to_blocks[r]) > 0
               PROVE  FALSE
  BY <1>6
<1>8. /\ req_to_blocks[r][1] \in Range(req_to_blocks[r])
      /\ req_to_blocks[r][1] \in Block /\ req_to_blocks[r][1] # null_block
  <2>1. 1 \in DOMAIN req_to_blocks[r] /\ req_to_blocks[r][1] \in Block
    BY <1>6, <1>7
  <2> QED  BY <1>6, <2>1 DEF Range
<1>9. req_to_blocks[r][1] \in R
  BY <1>1, <1>8 DEF Block, null_block
<1>10. pool.ref_cnt[req_to_blocks[r][1]] = 0
  <2> HIDE DEF R, q
  <2> QED  BY <1>1, <1>5, <1>9
<1> QED  BY <1>8, <1>10, RefFacts DEF IInv

\* reset_prefix_cache keeps the invariant.
LEMMA ResetPrefixCacheStep ==
    ASSUME IInv, ResetPrefixCache
    PROVE  IInv'
<1>1. /\ pool' = reset_prefix_cache(pool)
      /\ req_to_blocks' = req_to_blocks /\ num_cached_block' = num_cached_block
      /\ tokens' = tokens /\ num_computed_tokens' = num_computed_tokens
      /\ spec_token_ids' = spec_token_ids /\ slots' = slots
  BY DEF ResetPrefixCache
<1>2. /\ TypeOK /\ PoolOK(pool) /\ ParentBehind(pool) /\ NoFailure /\ RefCountExact
      /\ HashedSlots /\ KVMatchesTokens
  BY DEF IInv
<1>3. /\ PoolOK(pool') /\ pool'.failed = pool.failed /\ pool'.ref_cnt = pool.ref_cnt
      /\ pool'.free_block_queue = pool.free_block_queue
      /\ \/ pool' = pool
         \/ /\ pool'.block_hash = [b \in Block |-> NoHash]
            /\ NumGpuBlocks - Len(pool.free_block_queue) = 1
  BY <1>1, <1>2, ResetPrefixCacheOK
<1>4. CASE pool' = pool
  <2>1. TypeOK' /\ HashedSlots' /\ KVMatchesTokens'
    BY <1>1, <1>2, <1>4, Zenon DEF TypeOK, HashedSlots, KVMatchesTokens, SlotBlock, SlotOffset
  <2>2. RefCountExact' /\ NoFailure'
    BY <1>1, <1>2, <1>4, Zenon DEF RefCountExact, Holders, FreeQueueExact, NoFailure
  <2>3. PoolOK(pool)' /\ ParentBehind(pool)'
    BY <1>2, <1>4, SMTT(60) DEF PoolOK, Pool, FreeQueueExact, HashMapExact, ParentBehind, Behind
  <2>4. \A r \in Request : RequestOK(r)'
    BY <1>1, <1>4, RequestFacts, ZenonT(60) DEF RequestOK, num_tokens, Waiting, Running
  <2> QED  BY <2>1, <2>2, <2>3, <2>4 DEF IInv
<1>5. CASE /\ pool'.block_hash = [b \in Block |-> NoHash]
           /\ NumGpuBlocks - Len(pool.free_block_queue) = 1
  <2>1. TypeOK'
    BY <1>1, <1>2, <1>3, Zenon DEF TypeOK, PoolOK
  <2>2. PoolOK(pool)' /\ NoFailure'
    BY <1>2, <1>3, Zenon DEF NoFailure, PoolOK, Pool, FreeQueueExact, HashMapExact
  <2>3. RefCountExact'
    BY <1>1, <1>2, <1>3, Zenon DEF RefCountExact, Holders, FreeQueueExact
  <2>4. HashedSlots' /\ ParentBehind(pool)'
    <3>1. ~ (Len(NoHash) > BlockSize)
      BY PoolAssumption DEF NoHash
    <3> QED  BY <1>5, <3>1, Zenon DEF HashedSlots, ParentBehind
  <2>5. KVMatchesTokens'
    BY <1>1, <1>2, Zenon DEF KVMatchesTokens, SlotBlock, SlotOffset
  <2>6. ASSUME NEW r \in Request
        PROVE  RequestOK(r)'
    <3>1. /\ RequestOK(r) /\ Len(req_to_blocks[r]) = 0
          /\ (Running(r) => num_cached_block[r] \in Nat)
      BY <1>5, AllFree, RequestFacts, Zenon
    <3>2. Running(r) => /\ num_cached_block[r] <= 0 /\ num_cached_block[r] \in Nat
      BY <3>1, Zenon DEF RequestOK
    <3>3. Running(r) => /\ \A i \in 1 .. num_cached_block[r] : FALSE
                        /\ \A i \in num_cached_block[r] + 1 .. 0 : FALSE
      BY <3>2
    <3>4. /\ num_tokens(r)' = num_tokens(r)
          /\ Waiting(r)' = Waiting(r) /\ Running(r)' = Running(r)
      BY <1>1 DEF num_tokens, Waiting, Running
    <3> QED  BY <1>1, <3>1, <3>3, <3>4, Zenon DEF RequestOK
  <2> QED  BY <2>1, <2>2, <2>3, <2>4, <2>5, <2>6 DEF IInv
<1> QED  BY <1>3, <1>4, <1>5

\* The invariant holds initially.
LEMMA InitOK == Init => IInv
<1> SUFFICES ASSUME Init PROVE IInv
  BY Zenon
<1>1. /\ PoolOK(InitPool) /\ ~ InitPool.failed
      /\ InitPool.block_hash = [b \in Block |-> NoHash]
      /\ InitPool.ref_cnt = [b \in Block |-> 0]
  BY InitPoolOK DEF InitPool
<1>2. pool = InitPool
  BY DEF Init
<1>3. TypeOK
  <2>1. pool \in Pool
    BY <1>1, <1>2 DEF PoolOK
  <2>2. tokens \in [Request -> Seq(Token)]
    BY ManagerAssumption DEF Init
  <2> QED  BY <2>1, <2>2 DEF Init, TypeOK
<1>4. IsInjective(<< >>) /\ Range(<< >>) = {}
  BY DEF IsInjective, Range
<1>5. RefCountExact
  <2>1. \A b \in Block : Holders(req_to_blocks, b) = {}
    BY <1>4 DEF Init, Holders
  <2>2. \A b \in Block : pool.ref_cnt[b] = Cardinality(Holders(req_to_blocks, b))
    BY <1>1, <1>2, <2>1, FS_EmptySet
  <2> QED  BY <1>1, <1>2, <1>4, <2>2, Zenon DEF Init, RefCountExact, PoolOK
<1>6. ASSUME NEW r \in Request
      PROVE  RequestOK(r)
  <2>1. num_tokens(r) \in 1 .. MaxModelLen
    <3>1. tokens[r] \in Prompts
      BY DEF Init
    <3>2. tokens[r] \in Seq(Token) /\ 0 < Len(tokens[r]) /\ Len(tokens[r]) <= MaxModelLen
      BY <3>1, ManagerAssumption
    <3>3. Len(tokens[r]) \in Nat
      BY <3>2
    <3> QED  BY <3>2, <3>3, ManagerAssumption DEF num_tokens
  <2> QED  BY <1>4, <2>1, Zenon DEF Init, RequestOK, Waiting, Running
<1>7. HashedSlots /\ ParentBehind(pool)
  <2>1. ~ (Len(NoHash) > BlockSize)
    BY PoolAssumption DEF NoHash
  <2> QED  BY <1>1, <1>2, <2>1 DEF HashedSlots, ParentBehind
<1>8. KVMatchesTokens
  BY DEF Init, KVMatchesTokens
<1> QED  BY <1>1, <1>2, <1>3, <1>5, <1>6, <1>7, <1>8 DEF IInv, NoFailure

\* Every step keeps the invariant.
LEMMA NextOK == IInv /\ [Next]_vars => IInv'
<1> SUFFICES ASSUME IInv, [Next]_vars PROVE IInv'
  BY Zenon
<1>1. ASSUME NEW r \in Request, ScheduleWaiting(r) PROVE IInv'
  BY <1>1, ScheduleWaitingOK
<1>2. ASSUME NEW r \in Request, ScheduleRunning(r) PROVE IInv'
  BY <1>2, ScheduleRunningOK
<1>3. ASSUME NEW r \in Request, UpdateFromOutput(r) PROVE IInv'
  BY <1>3, UpdateFromOutputOK
<1>4. ASSUME NEW r \in Request, Preempt(r) PROVE IInv'
  BY <1>4, PreemptOK
<1>5. ASSUME NEW r \in Request, Finish(r) PROVE IInv'
  BY <1>5, FinishOK
<1>6. CASE ResetPrefixCache
  BY <1>6, ResetPrefixCacheStep
<1>7. CASE UNCHANGED vars
  <2>1. /\ pool' = pool /\ req_to_blocks' = req_to_blocks
        /\ num_cached_block' = num_cached_block /\ tokens' = tokens
        /\ num_computed_tokens' = num_computed_tokens
        /\ spec_token_ids' = spec_token_ids /\ slots' = slots
    BY <1>7, Zenon DEF vars
  <2>2. TypeOK' /\ HashedSlots' /\ KVMatchesTokens'
    BY <2>1, Zenon DEF IInv, TypeOK, HashedSlots, KVMatchesTokens, SlotBlock, SlotOffset
  <2>3. RefCountExact' /\ NoFailure'
    BY <2>1, Zenon DEF IInv, RefCountExact, Holders, FreeQueueExact, NoFailure
  <2>4. PoolOK(pool)' /\ ParentBehind(pool)'
    BY <2>1, SMTT(60) DEF IInv, PoolOK, Pool, FreeQueueExact, HashMapExact, ParentBehind, Behind
  <2>5. \A r \in Request : RequestOK(r)'
    BY <2>1, RequestFacts, ZenonT(60) DEF RequestOK, num_tokens, Waiting, Running
  <2> QED  BY <2>2, <2>3, <2>4, <2>5 DEF IInv
<1> QED  BY <1>1, <1>2, <1>3, <1>4, <1>5, <1>6, <1>7 DEF Next

--------------------------------------------------------------------------------
(* The theorems *)

\* IInv is an invariant of the manager.
THEOREM Invariance == Spec => []IInv
<1> QED  BY InitOK, NextOK, PTL DEF Spec

\* The manager's state keeps its types: no counter goes below zero.
THEOREM TypeCorrect == Spec => []TypeOK
<1>1. IInv => TypeOK
  BY DEF IInv
<1> QED  BY <1>1, Invariance, PTL

\* No method of the pool or of the manager raises, whatever the scheduler does
\* within its own checks.
THEOREM NeverRaises == Spec => []NoFailure
<1>1. IInv => NoFailure
  BY DEF IInv
<1> QED  BY <1>1, Invariance, PTL

\* No block is leaked, freed twice or handed out while it is in use.
THEOREM ReferencesExact == Spec => []RefCountExact
<1>1. IInv => RefCountExact
  BY DEF IInv
<1> QED  BY <1>1, Invariance, PTL

\* Attention reads the KV of the request's own tokens.
THEOREM ReadsOwnPrefix == Spec => []KVMatchesTokens
<1>1. IInv => KVMatchesTokens
  BY DEF IInv
<1> QED  BY <1>1, Invariance, PTL

\* A miss in find_longest_cache_hit ends the cached prefix: eviction takes the
\* tail of a prefix before its head.
THEOREM EvictsTailFirst == Spec => []PrefixClosedCache
<1>1. IInv => PrefixClosedCache
  <2>1. SUFFICES ASSUME IInv, NEW b \in Block, Len(pool.block_hash[b]) > BlockSize
                 PROVE  \E c \in Block : pool.block_hash[c] = Parent(pool.block_hash[b])
    BY DEF PrefixClosedCache
  <2>2. CASE pool.ref_cnt[b] = 0
    BY <2>1, <2>2 DEF IInv, ParentBehind
  <2>3. CASE pool.ref_cnt[b] # 0
    <3>1. Holders(req_to_blocks, b) # {}
      <4>1. pool.ref_cnt[b] = Cardinality(Holders(req_to_blocks, b))
        BY <2>1 DEF IInv, RefCountExact
      <4> QED  BY <2>3, <4>1, FS_EmptySet
    <3>2. PICK r \in Request : b \in Range(req_to_blocks[r])
      BY <3>1 DEF Holders
    <3>3. req_to_blocks[r] \in Seq(Block)
      BY <2>1, RequestFacts, Zenon
    <3>4. PICK k \in 1 .. Len(req_to_blocks[r]) : req_to_blocks[r][k] = b
      BY <3>2, <3>3, SMTT(60) DEF Range
    <3>5. /\ k - 1 \in 1 .. Len(req_to_blocks[r])
          /\ pool.block_hash[req_to_blocks[r][k - 1]] = Parent(pool.block_hash[b])
      BY <2>1, <3>4, TableParent, Zenon
    <3> DEFINE m == k - 1
    <3> HIDE DEF m
    <3>6. req_to_blocks[r][m] \in Block
      BY <3>3, <3>5 DEF m
    <3> QED  BY <3>5, <3>6, Zenon DEF m
  <2> QED  BY <2>2, <2>3
<1> QED  BY <1>1, Invariance, PTL

\* A block that keeps its hash keeps its contents.
THEOREM CachedImmutable == Spec => CachedBlockImmutable
<1> DEFINE Keeps == \A b \in Block :
              pool.block_hash[b] # NoHash /\ pool'.block_hash[b] = pool.block_hash[b]
                => slots'[b] = slots[b]
<1>1. ASSUME IInv, IInv' PROVE Keeps
  <2>1. SUFFICES ASSUME NEW b \in Block, pool.block_hash[b] # NoHash,
                        pool'.block_hash[b] = pool.block_hash[b]
                 PROVE  slots'[b] = slots[b]
    OBVIOUS
  <2> DEFINE D == 0 .. BlockSize - 1
  <2>2. slots[b] \in [D -> Seq(Token)] /\ slots'[b] \in [D -> Seq(Token)]
    BY <1>1 DEF IInv, TypeOK
  <2>3. \A o \in D : slots'[b][o] = slots[b][o]
    <3>1. HashedSlots /\ HashedSlots'
      BY <1>1 DEF IInv
    <3> QED  BY <2>1, <3>1, Zenon DEF HashedSlots
  <2> HIDE DEF D
  <2> QED  BY <2>2, <2>3
<1>2. IInv /\ IInv' => [Keeps]_vars
  BY <1>1
<1> HIDE DEF Keeps
<1>3. Spec => [][Keeps]_vars
  BY <1>2, Invariance, PTL DEF Spec
<1> QED  BY <1>3 DEF CachedBlockImmutable, Keeps
================================================================================
