--------------------------- MODULE KVAllocateProofs ----------------------------
(***************************************************************************)
(* Lemmas about the requests of the KV-cache manager and about allocate_slots: *)
(* what a cached prefix, the block table and the hashes look like before and *)
(* after the call.                                                         *)
(***************************************************************************)
EXTENDS KVCacheManager, BlockPoolProofs

\* A cached prefix found by get_computed_blocks consists of distinct real
\* blocks that carry the hashes of the request's own prefixes, and it leaves at
\* least one token to compute.
LEMMA HitFacts ==
    ASSUME TypeOK, PoolOK(pool), NEW r \in Request,
           num_tokens(r) > 0, NEW hit \in get_computed_blocks(r)
    PROVE  /\ hit \in Seq(Block)
           /\ Len(hit) * BlockSize < num_tokens(r)
           /\ \A i \in 1 .. Len(hit) :
                 pool.block_hash[hit[i]] = BlockHash(tokens[r], i)
           /\ IsInjective(hit)
           /\ null_block \notin Range(hit)
           /\ ~ EnableCaching => hit = << >>
<1> DEFINE L == num_tokens(r) - 1
           M == L \div BlockSize
<1>1. /\ BlockSize \in Nat \ {0} /\ tokens[r] \in Seq(Token)
      /\ num_tokens(r) \in Nat /\ L \in Nat /\ pool \in Pool
  BY PoolAssumption DEF TypeOK, num_tokens
<1>2. M \in Nat /\ M * BlockSize <= L
  <2> HIDE DEF L
  <2>1. M \in Nat
    BY <1>1, DivMod, Zenon
  <2>2. M * BlockSize <= L <=> M <= L \div BlockSize
    BY <1>1, <2>1, DivOfMultiple
  <2> QED  BY <2>1, <2>2
<1>3. CASE hit = << >>
  <2>1. Len(hit) = 0 /\ DOMAIN hit = {}
    BY <1>3
  <2> QED  BY <1>1, <1>3, <2>1 DEF IsInjective, Range
<1>4. CASE hit # << >>
  <2>1. EnableCaching /\ hit \in find_longest_cache_hit(r, L)
    BY <1>4 DEF get_computed_blocks
  <2>2a. PICK k \in 0 .. M : \E c \in CachedChains(r, k) :
               hit = c \/ hit = SubSeq(c, 1, Len(c) - 1)
    <3> HIDE DEF L
    <3> QED  BY <2>1 DEF find_longest_cache_hit
  <2>2. PICK c \in CachedChains(r, k) : hit = c \/ hit = SubSeq(c, 1, Len(c) - 1)
    BY <2>2a
  <2>3. /\ c \in Seq(Block) /\ Len(c) = k /\ k \in Nat
        /\ \A i \in 1 .. k : <<BlockHash(tokens[r], i), c[i]>>
                                \in pool.cached_block_hash_to_block
    BY <1>2, <2>2 DEF CachedChains, get_cached_block
  <2>4. /\ hit \in Seq(Block) /\ Len(hit) \in Nat /\ Len(hit) <= k
        /\ \A i \in 1 .. Len(hit) : hit[i] = c[i]
    <3> HIDE DEF M
    <3>1. CASE k = 0
      BY <1>4, <2>2, <2>3, <3>1
    <3>2. CASE k > 0
      BY <2>2, <2>3, <3>2
    <3> QED  BY <2>3, <3>1, <3>2
  <2>5. Len(hit) * BlockSize <= L
    <3> HIDE DEF L
    <3>1. Len(hit) <= M
      BY <1>2, <2>2, <2>4
    <3>2. Len(hit) * BlockSize <= M * BlockSize
      BY <1>1, <1>2, <2>4, <3>1, MulMonotone, Zenon
    <3> HIDE DEF M
    <3>3. Len(hit) * BlockSize \in Nat /\ M * BlockSize \in Nat
      BY <1>1, <1>2, <2>4
    <3> QED  BY <1>1, <1>2, <3>2, <3>3
  <2>6. \A i \in 1 .. Len(hit) : /\ hit[i] \in Block
                                 /\ pool.block_hash[hit[i]] = BlockHash(tokens[r], i)
                                 /\ pool.block_hash[hit[i]] # NoHash
    <3>1. pool.cached_block_hash_to_block =
            {<<pool.block_hash[b], b>> : b \in {d \in Block : pool.block_hash[d] # NoHash}}
      BY DEF PoolOK, HashMapExact
    <3>2. \A i \in 1 .. Len(hit) : hit[i] \in Block
      BY <2>4
    <3>3. \A i \in 1 .. Len(hit) : <<BlockHash(tokens[r], i), hit[i]>>
                                      \in pool.cached_block_hash_to_block
      BY <2>3, <2>4
    <3> QED  BY <3>1, <3>2, <3>3
  <2>7. IsInjective(hit)
    <3>1. SUFFICES ASSUME NEW i \in 1 .. Len(hit), NEW j \in 1 .. Len(hit),
                          hit[i] = hit[j]
                   PROVE  i = j
      BY <2>4 DEF IsInjective
    <3>2. BlockHash(tokens[r], i) = BlockHash(tokens[r], j)
      BY <2>6, <3>1
    <3>3. \A m \in 1 .. Len(hit) : /\ m \in Nat /\ m * BlockSize <= Len(tokens[r])
      <4>1. SUFFICES ASSUME NEW m \in 1 .. Len(hit)
                     PROVE  m * BlockSize <= Len(tokens[r])
        BY <2>4
      <4>2. m \in Nat /\ m <= Len(hit)
        BY <2>4
      <4>3. m * BlockSize <= Len(hit) * BlockSize
        BY <1>1, <2>4, <4>2, MulMonotone, Zenon
      <4>4. m * BlockSize \in Nat /\ Len(hit) * BlockSize \in Nat
        BY <1>1, <2>4, <4>2
      <4> QED  BY <1>1, <2>5, <4>3, <4>4 DEF num_tokens
    <3>4. i * BlockSize = j * BlockSize
      BY <1>1, <3>2, <3>3, BlockHashFacts, ZenonT(60)
    <3> QED  BY <1>1, <3>3, <3>4
  <2>8. null_block \notin Range(hit)
    BY <2>4, <2>6 DEF Range, PoolOK, HashMapExact
  <2>9. Len(hit) * BlockSize < num_tokens(r)
    <3>1. Len(hit) * BlockSize \in Nat
      BY <1>1, <2>4
    <3> QED  BY <1>1, <2>5, <3>1
  <2> QED  BY <2>1, <2>4, <2>6, <2>7, <2>8, <2>9
<1> QED  BY <1>3, <1>4

--------------------------------------------------------------------------------
(* Who holds a block, when one table changes *)

\* Holders when the table of one request is replaced.
LEMMA HoldersUpdate ==
    ASSUME NEW T \in [Request -> Seq(Block)], NEW r \in Request,
           NEW table \in Seq(Block), NEW b
    PROVE  LET U == [T EXCEPT ![r] = table]
           IN  /\ IsFiniteSet(Holders(T, b)) /\ IsFiniteSet(Holders(U, b))
               /\ Cardinality(Holders(T, b)) \in Nat
               /\ b \in Range(T[r]) => Cardinality(Holders(T, b)) > 0
               /\ (b \in Range(table) <=> b \in Range(T[r])) =>
                     Cardinality(Holders(U, b)) = Cardinality(Holders(T, b))
               /\ b \in Range(table) /\ b \notin Range(T[r]) =>
                     Cardinality(Holders(U, b)) = Cardinality(Holders(T, b)) + 1
               /\ b \notin Range(table) /\ b \in Range(T[r]) =>
                     Cardinality(Holders(U, b)) = Cardinality(Holders(T, b)) - 1
<1> DEFINE U == [T EXCEPT ![r] = table]
           H == Holders(T, b)
           G == Holders(U, b)
<1>1. IsFiniteSet(H) /\ IsFiniteSet(G) /\ H \subseteq Request /\ G \subseteq Request
  <2>1. H \in SUBSET Request /\ G \in SUBSET Request
    BY DEF Holders
  <2> QED  BY <2>1, ManagerAssumption, FS_Subset, Zenon
<1>2. /\ r \in H <=> b \in Range(T[r])
      /\ r \in G <=> b \in Range(table)
      /\ \A s \in Request \ {r} : s \in G <=> s \in H
  BY DEF Holders
<1>3. Cardinality(H) \in Nat /\ (Cardinality(H) = 0 <=> H = {})
  BY <1>1, FS_CardinalityType, FS_EmptySet
<1> HIDE DEF H, G
<1>4. /\ Cardinality(H \cup {r}) = IF r \in H THEN Cardinality(H) ELSE Cardinality(H) + 1
      /\ Cardinality(H \ {r}) = IF r \in H THEN Cardinality(H) - 1 ELSE Cardinality(H)
  BY <1>1, FS_AddElement, FS_RemoveElement, Zenon
<1>5. CASE b \in Range(table) <=> b \in Range(T[r])
  <2>1. r \in G <=> r \in H
    BY <1>2, <1>5
  <2>2. G = H
    <3>1. \A s \in Request : s \in G <=> s \in H
      BY <1>2, <2>1
    <3> QED  BY <1>1, <3>1, Zenon
  <2> QED  BY <1>1, <1>2, <1>3, <1>5, <2>2 DEF G, H
<1>6. CASE b \in Range(table) /\ b \notin Range(T[r])
  <2>1. G = H \cup {r} /\ r \notin H
    BY <1>1, <1>2, <1>6
  <2> QED  BY <1>1, <1>2, <1>3, <1>4, <1>6, <2>1, Zenon DEF G, H
<1>7. CASE b \notin Range(table) /\ b \in Range(T[r])
  <2>1. G = H \ {r} /\ r \in H
    BY <1>1, <1>2, <1>7
  <2>2. /\ Cardinality(G) = Cardinality(H) - 1
        /\ Cardinality(H) \in Nat /\ Cardinality(H) > 0
    BY <1>3, <1>4, <2>1
  <2> QED  BY <1>1, <1>7, <2>2 DEF G, H
<1> QED  BY <1>5, <1>6, <1>7

\* A block without a reference is in no table; a block of a table has one.
LEMMA RefFacts ==
    ASSUME TypeOK, RefCountExact, NEW r \in Request, NEW b \in Block
    PROVE  /\ b \in Range(req_to_blocks[r]) => pool.ref_cnt[b] > 0
           /\ pool.ref_cnt[b] = 0 => b \notin Range(req_to_blocks[r])
<1>1. req_to_blocks \in [Request -> Seq(Block)] /\ req_to_blocks[r] \in Seq(Block)
  BY DEF TypeOK
<1>2. pool.ref_cnt[b] = Cardinality(Holders(req_to_blocks, b))
  BY DEF RefCountExact
<1>3. /\ Cardinality(Holders(req_to_blocks, b)) \in Nat
      /\ b \in Range(req_to_blocks[r]) => Cardinality(Holders(req_to_blocks, b)) > 0
  BY <1>1, HoldersUpdate
<1> QED  BY <1>2, <1>3

--------------------------------------------------------------------------------
(* Prefixes and positions *)

\* A prefix of a prefix is a prefix.
LEMMA PrefixOfPrefix ==
    ASSUME NEW X, NEW q \in Seq(X), NEW m \in 0 .. Len(q), NEW n \in 0 .. m
    PROVE  SubSeq(SubSeq(q, 1, m), 1, n) = SubSeq(q, 1, n)
<1> DEFINE h == SubSeq(q, 1, m)
           a == SubSeq(h, 1, n)
           c == SubSeq(q, 1, n)
<1>1. /\ h \in Seq(X) /\ Len(h) = m
      /\ \A i \in 1 .. m : h[i] = q[i]
  OBVIOUS
<1> HIDE DEF h
<1>2. a \in Seq(X) /\ Len(a) = n /\ \A i \in 1 .. n : a[i] = h[i]
  BY <1>1
<1>3. c \in Seq(X) /\ Len(c) = n /\ \A i \in 1 .. n : c[i] = q[i]
  OBVIOUS
<1> HIDE DEF a, c
<1>4. a = c
  BY <1>1, <1>2, <1>3
<1> QED  BY <1>4 DEF a, c, h

\* Appending tokens does not change a prefix.
LEMMA PrefixOfConcat ==
    ASSUME NEW X, NEW q \in Seq(X), NEW s \in Seq(X), NEW n \in 0 .. Len(q)
    PROVE  SubSeq(q \o s, 1, n) = SubSeq(q, 1, n)
<1> DEFINE h == q \o s
           a == SubSeq(h, 1, n)
           c == SubSeq(q, 1, n)
<1>1. /\ h \in Seq(X) /\ Len(h) = Len(q) + Len(s)
      /\ \A i \in 1 .. Len(q) : h[i] = q[i]
  BY ConcatFacts
<1> HIDE DEF h
<1>2. Len(q) \in Nat /\ Len(s) \in Nat
  OBVIOUS
<1>3. a \in Seq(X) /\ Len(a) = n /\ \A i \in 1 .. n : a[i] = h[i]
  BY <1>1, <1>2
<1>4. c \in Seq(X) /\ Len(c) = n /\ \A i \in 1 .. n : c[i] = q[i]
  OBVIOUS
<1> HIDE DEF a, c
<1>5. \A i \in 1 .. n : a[i] = c[i]
  <2>1. \A i \in 1 .. n : i \in 1 .. Len(q)
    BY <1>2
  <2> QED  BY <1>1, <1>3, <1>4, <2>1
<1>6. a = c
  BY <1>3, <1>4, <1>5
<1> QED  BY <1>6 DEF a, c, h

\* Position p lies in the block with index p \div BlockSize + 1.
LEMMA PositionFacts ==
    ASSUME NEW p \in Nat, NEW k \in Nat
    PROVE  LET i == (p \div BlockSize) + 1
               o == p % BlockSize
           IN  /\ i \in Nat /\ i >= 1 /\ o \in 0 .. BlockSize - 1
               /\ p < k * BlockSize <=> i <= k
               /\ i * BlockSize \in Nat
               /\ i * BlockSize - BlockSize + o + 1 = p + 1
<1> DEFINE d == p \div BlockSize
           o == p % BlockSize
<1>1. BlockSize \in Nat \ {0}
  BY PoolAssumption
<1>2. d \in Nat /\ o \in 0 .. BlockSize - 1 /\ p = d * BlockSize + o
  BY <1>1, DivMod, Zenon
<1>3. p < k * BlockSize <=> d < k
  BY <1>1, DivOfMultiple
<1> HIDE DEF d, o
<1>4. (d + 1) * BlockSize = d * BlockSize + BlockSize /\ d * BlockSize \in Nat
  BY <1>1, <1>2
<1>5. d < k <=> d + 1 <= k
  BY <1>2
<1> QED  BY <1>1, <1>2, <1>3, <1>4, <1>5 DEF d, o

--------------------------------------------------------------------------------
(* A request that is about to be scheduled *)

\* With the hit appended, the first computed positions of the table hold the KV
\* of the request's tokens, and only its cached head is shared.
Resumed(r, computed, hit) ==
    LET old == req_to_blocks[r]
        table == old \o hit
        num_cached == NumCachedBefore(r, hit)
    IN  /\ hit \in Seq(Block) /\ IsInjective(hit) /\ null_block \notin Range(hit)
        /\ Range(old) \cap Range(hit) = {}
        /\ table \in Seq(Block)
        /\ ~ SaveFails(r, hit)
        /\ computed \in Nat /\ computed < num_tokens(r)
        /\ num_cached \in Nat /\ num_cached <= Len(table)
        /\ num_cached * BlockSize <= computed
        /\ computed <= Len(table) * BlockSize
        /\ \A i \in 1 .. num_cached :
              pool.block_hash[table[i]] = BlockHash(tokens[r], i)
        /\ \A i \in num_cached + 1 .. Len(table) :
              /\ i <= Len(old)
              /\ pool.block_hash[table[i]] = NoHash
              /\ \A s \in Request \ {r} : table[i] \notin Range(req_to_blocks[s])
        /\ \A p \in 0 .. computed - 1 :
              slots[SlotBlock(table, p)][SlotOffset(p)] = SubSeq(tokens[r], 1, p + 1)

\* What IInv says of one request, its variables read once.
LEMMA RequestFacts ==
    ASSUME IInv, NEW r \in Request
    PROVE  /\ tokens[r] \in Seq(Token) /\ num_tokens(r) = Len(tokens[r])
           /\ num_tokens(r) \in Nat /\ num_tokens(r) > 0 /\ num_tokens(r) <= MaxModelLen
           /\ req_to_blocks[r] \in Seq(Block) /\ Len(req_to_blocks[r]) \in Nat
           /\ num_computed_tokens[r] \in Nat
           /\ spec_token_ids[r] \in Seq(Token)
           /\ num_cached_block[r] \in Nat \cup {Untracked}
           /\ Running(r) => num_cached_block[r] \in Nat
           /\ BlockSize \in Nat \ {0} /\ MaxModelLen \in Nat
           /\ RequestOK(r)
<1>1. TypeOK /\ RequestOK(r)
  BY DEF IInv
<1>2. num_tokens(r) \in 1 .. MaxModelLen
  BY <1>1 DEF RequestOK
<1> QED  BY <1>1, <1>2, PoolAssumption, ManagerAssumption DEF TypeOK, num_tokens, Running

\* A waiting request with a hit of get_computed_blocks may be scheduled.
LEMMA ResumedWaiting ==
    ASSUME IInv, NEW r \in Request, Waiting(r), NEW hit \in get_computed_blocks(r)
    PROVE  Resumed(r, Len(hit) * BlockSize, hit)
<1> DEFINE computed == Len(hit) * BlockSize
<1>1. TypeOK /\ PoolOK(pool) /\ HashedSlots
  BY DEF IInv
<1>2. /\ tokens[r] \in Seq(Token) /\ num_tokens(r) = Len(tokens[r])
      /\ num_tokens(r) \in Nat /\ num_tokens(r) > 0 /\ BlockSize \in Nat \ {0}
      /\ req_to_blocks[r] = << >>
  BY RequestFacts DEF RequestOK
<1>3. /\ hit \in Seq(Block) /\ IsInjective(hit) /\ null_block \notin Range(hit)
      /\ computed < num_tokens(r)
      /\ \A i \in 1 .. Len(hit) : pool.block_hash[hit[i]] = BlockHash(tokens[r], i)
  BY <1>1, <1>2, HitFacts
<1>4. Len(hit) \in Nat /\ computed \in Nat
  BY <1>2, <1>3
<1>5. req_to_blocks[r] \o hit = hit /\ Range(req_to_blocks[r]) = {}
  BY <1>2, <1>3 DEF Range
<1>6. \A p \in 0 .. computed - 1 :
         slots[SlotBlock(hit, p)][SlotOffset(p)] = SubSeq(tokens[r], 1, p + 1)
  <2>1. SUFFICES ASSUME NEW p \in 0 .. computed - 1
                 PROVE  slots[SlotBlock(hit, p)][SlotOffset(p)]
                           = SubSeq(tokens[r], 1, p + 1)
    OBVIOUS
  <2> DEFINE i == (p \div BlockSize) + 1
             o == p % BlockSize
             h == BlockHash(tokens[r], i)
  <2>2. p \in Nat /\ p < Len(hit) * BlockSize
    BY <1>4
  <2>3. /\ i \in Nat /\ i >= 1 /\ o \in 0 .. BlockSize - 1 /\ i <= Len(hit)
        /\ i * BlockSize \in Nat /\ i * BlockSize - BlockSize + o + 1 = p + 1
    BY <1>4, <2>2, PositionFacts
  <2> HIDE DEF i, o
  <2>4. i * BlockSize <= computed
    BY <1>2, <1>4, <2>3, MulMonotone, Zenon
  <2>5. i * BlockSize <= Len(tokens[r])
    <3> HIDE DEF computed
    <3> QED  BY <1>2, <1>3, <1>4, <2>3, <2>4, SMTT(60)
  <2>6. h \in Seq(Token) /\ Len(h) = i * BlockSize /\ h # NoHash
    BY <1>2, <2>3, <2>5, BlockHashFacts, SMTT(60)
  <2>7. hit[i] \in Block /\ pool.block_hash[hit[i]] = h
    BY <1>3, <1>4, <2>3, SMTT(60)
  <2>8. slots[hit[i]][o] = SubSeq(h, 1, p + 1)
    <3> HIDE DEF h
    <3> QED  BY <1>1, <2>3, <2>6, <2>7, ZenonT(60) DEF HashedSlots
  <2>9. p + 1 \in 0 .. i * BlockSize
    BY <1>2, <2>2, <2>3, SMTT(60)
  <2>10. SubSeq(h, 1, p + 1) = SubSeq(tokens[r], 1, p + 1)
    BY <1>2, <2>3, <2>5, <2>9, PrefixOfPrefix, SMTT(60) DEF BlockHash
  <2> QED  BY <2>8, <2>10, Zenon DEF SlotBlock, SlotOffset, i, o
<1>7. ~ SaveFails(r, hit) /\ NumCachedBefore(r, hit) = Len(hit)
  BY <1>2, Zenon DEF SaveFails, NumCachedBefore, Waiting
<1> QED
  <2> HIDE DEF computed
  <2>1. \A i \in Len(hit) + 1 .. Len(hit) : FALSE
    BY <1>4
  <2>2. computed <= Len(hit) * BlockSize /\ Len(hit) * BlockSize <= computed
    BY <1>4 DEF computed
  <2> QED  BY <1>3, <1>4, <1>5, <1>6, <1>7, <2>1, <2>2, SMTT(60) DEF Resumed, computed

\* So may a running request that has tokens to compute.
LEMMA ResumedRunning ==
    ASSUME IInv, NEW r \in Request, Running(r),
           num_computed_tokens[r] < num_tokens(r)
    PROVE  Resumed(r, num_computed_tokens[r], << >>) /\ spec_token_ids[r] = << >>
<1> DEFINE old == req_to_blocks[r]
           computed == num_computed_tokens[r]
           num_cached == num_cached_block[r]
<1>1. /\ tokens[r] \in Seq(Token) /\ num_tokens(r) = Len(tokens[r])
      /\ num_tokens(r) \in Nat /\ BlockSize \in Nat \ {0}
      /\ old \in Seq(Block) /\ Len(old) \in Nat
      /\ computed \in Nat /\ num_cached \in Nat
      /\ spec_token_ids[r] \in Seq(Token)
  BY RequestFacts, Zenon
<1>2. /\ num_cached <= Len(old)
      /\ num_cached * BlockSize <= computed
      /\ computed <= Len(old) * BlockSize
      /\ \A i \in 1 .. num_cached : pool.block_hash[old[i]] = BlockHash(tokens[r], i)
      /\ \A i \in num_cached + 1 .. Len(old) :
           /\ pool.block_hash[old[i]] = NoHash
           /\ \A s \in Request \ {r} : old[i] \notin Range(req_to_blocks[s])
  BY RequestFacts, Zenon DEF RequestOK
<1>3. spec_token_ids[r] = << >>
  <2>1. spec_token_ids[r] # << >> => computed = num_tokens(r) + Len(spec_token_ids[r])
    BY RequestFacts DEF RequestOK
  <2>2. Len(spec_token_ids[r]) \in Nat /\ computed < num_tokens(r)
    BY <1>1
  <2> HIDE DEF computed
  <2>3. \A a, b, l \in Nat : a < b => ~ (a = b + l)
    OBVIOUS
  <2>4. ~ (computed = num_tokens(r) + Len(spec_token_ids[r]))
    BY <1>1, <2>2, <2>3, Zenon
  <2> QED  BY <2>1, <2>4
<1>4. old \o << >> = old /\ tokens[r] \o << >> = tokens[r]
  BY <1>1, SMTT(60)
<1>5. \A p \in 0 .. computed - 1 :
         slots[SlotBlock(old, p)][SlotOffset(p)] = SubSeq(tokens[r], 1, p + 1)
  BY <1>3, <1>4, Zenon DEF IInv, KVMatchesTokens
<1>6. /\ << >> \in Seq(Block) /\ Range(<< >>) = {} /\ IsInjective(<< >>)
  BY DEF Range, IsInjective
<1>7. ~ SaveFails(r, << >>) /\ NumCachedBefore(r, << >>) = num_cached
  BY DEF SaveFails, NumCachedBefore, Waiting, Running
<1> HIDE DEF old, computed, num_cached
<1>8. \A i \in num_cached + 1 .. Len(old) : i <= Len(old)
  BY <1>1
<1> QED  BY <1>1, <1>2, <1>3, <1>4, <1>5, <1>6, <1>7, <1>8, Zenon
         DEF Resumed, old, computed, num_cached

--------------------------------------------------------------------------------
(* allocate_slots *)

\* The blocks that get_num_blocks_to_allocate asks for are there after touch.
LEMMA EnoughBlocks ==
    ASSUME IInv, NEW r \in Request, NEW computed, NEW hit, Resumed(r, computed, hit),
           NEW num_slots \in Nat, CanAllocate(r, num_slots, hit)
    PROVE  LET saved == req_to_blocks[r] \o hit
               free_q == touch(pool, hit).free_block_queue
           IN  /\ cdiv(num_slots, BlockSize) - Len(saved) <= Len(free_q)
               /\ Len(free_q) \in Nat /\ Len(saved) \in Nat
               /\ cdiv(num_slots, BlockSize) \in Nat
               /\ num_slots <= cdiv(num_slots, BlockSize) * BlockSize
<1> DEFINE S == {b \in Block : pool.ref_cnt[b] = 0 /\ b # null_block}
           evictable == {b \in Range(hit) : pool.ref_cnt[b] = 0}
           free_q == touch(pool, hit).free_block_queue
           old == req_to_blocks[r]
           n == cdiv(num_slots, BlockSize)
<1>1. /\ BlockSize \in Nat \ {0} /\ old \in Seq(Block) /\ Len(old) \in Nat
  BY RequestFacts
<1>2. /\ hit \in Seq(Block) /\ IsInjective(hit) /\ null_block \notin Range(hit)
  BY Zenon DEF Resumed
<1>3. PoolOK(pool) /\ pool.free_block_queue \in Seq(Block)
  BY PoolFields DEF IInv, PoolOK
<1>4. /\ IsFiniteSet(evictable)
      /\ Len(free_q) = Len(pool.free_block_queue) - Cardinality(evictable)
      /\ free_q \in Seq(Block)
  <2>1. /\ PoolOK(touch(pool, hit)) /\ IsFiniteSet(evictable)
        /\ Len(free_q) = Len(pool.free_block_queue) - Cardinality(evictable)
    BY <1>2, <1>3, TouchOK, Zenon
  <2> QED  BY <2>1, PoolFields, Zenon DEF PoolOK
<1>5. {i \in DOMAIN hit : pool.ref_cnt[hit[i]] = 0 /\ hit[i] # null_block}
         = IndicesOf(hit, S)
  BY <1>2 DEF IndicesOf
<1>6. Range(hit) \cap S = evictable
  BY <1>2 DEF Range
<1>7. Cardinality(IndicesOf(hit, S)) = Cardinality(evictable)
  <2> HIDE DEF S, evictable
  <2> QED  BY <1>2, <1>6, InjectiveCount
<1>8. n - Len(hit) - Len(old) + Cardinality(evictable) <= Len(pool.free_block_queue)
  BY <1>5, <1>7, Zenon DEF CanAllocate, get_num_blocks_to_allocate, get_num_free_blocks
<1>9. n \in Nat /\ num_slots <= n * BlockSize
  <2> DEFINE m == num_slots + BlockSize - 1
  <2>1. m \in Nat
    BY <1>1
  <2>2. n = m \div BlockSize
    BY DEF cdiv
  <2>3. n \in Nat /\ (m % BlockSize) \in 0 .. BlockSize - 1
        /\ m = n * BlockSize + (m % BlockSize)
    <3> HIDE DEF m, n
    <3> QED  BY <1>1, <2>1, <2>2, DivMod, Zenon
  <2>4. n * BlockSize \in Nat
    BY <1>1, <2>3, SMTT(60)
  <2> HIDE DEF n
  <2>5. n * BlockSize + (m % BlockSize) = num_slots + BlockSize - 1
    BY <2>3
  <2> DEFINE x == m % BlockSize
             y == n * BlockSize
  <2>6. x \in 0 .. BlockSize - 1 /\ y \in Nat /\ y + x = num_slots + BlockSize - 1
    BY <2>3, <2>4, <2>5
  <2> HIDE DEF x, y
  <2>7. num_slots <= y
    BY <1>1, <2>6
  <2> QED  BY <2>3, <2>7 DEF y
<1>10. Len(old \o hit) = Len(old) + Len(hit)
  BY <1>1, <1>2
<1>11. Len(free_q) \in Nat /\ Len(hit) \in Nat /\ Len(pool.free_block_queue) \in Nat
       /\ Cardinality(evictable) \in Nat
  BY <1>2, <1>3, <1>4, FS_CardinalityType, SMTT(60)
<1> HIDE DEF free_q, old, n, evictable
<1>12. n - Len(old \o hit) <= Len(free_q) /\ Len(old \o hit) \in Nat
  BY <1>1, <1>4, <1>8, <1>9, <1>10, <1>11, SMTT(60)
<1> QED  BY <1>9, <1>11, <1>12 DEF free_q, old, n

\* What q \o s looks like, as one formula.
ConcatShape(q, s, c) ==
    /\ Len(c) = Len(q) + Len(s) /\ Range(c) = Range(q) \cup Range(s)
    /\ \A i \in 1 .. Len(q) : c[i] = q[i]
    /\ \A i \in 1 .. Len(s) : c[Len(q) + i] = s[i]

\* ConcatFacts, for citing where the sequences are long expressions.
LEMMA ConcatShapeOK ==
    ASSUME NEW q \in Seq(Block), NEW s \in Seq(Block)
    PROVE  ConcatShape(q, s, q \o s)
BY ConcatFacts DEF ConcatShape

\* What cache_full_blocks leaves behind, as one formula.
FullBlocksCached(p, toks, table, nc, nf, c) ==
    /\ PoolOK(c) /\ c.failed = p.failed /\ c.ref_cnt = p.ref_cnt
    /\ c.free_block_queue = p.free_block_queue
    /\ \A i \in nc + 1 .. nf : c.block_hash[table[i]] = BlockHash(toks, i)
    /\ \A b \in Block : (\A i \in nc + 1 .. nf : table[i] # b)
                            => c.block_hash[b] = p.block_hash[b]

\* CacheFullBlocksOK, for citing where the arguments are long expressions.
LEMMA FullBlocksCachedOK ==
    ASSUME NEW p, NEW toks, NEW table, NEW nc, NEW nf,
           PoolOK(p), EnableCaching, toks \in Seq(Token),
           table \in Seq(Block), IsInjective(table), null_block \notin Range(table),
           nc \in Nat, nf \in Nat, nc <= nf, nf <= Len(table),
           nf * BlockSize <= Len(toks),
           \A i \in nc + 1 .. nf : p.block_hash[table[i]] = NoHash
    PROVE  FullBlocksCached(p, toks, table, nc, nf,
                            cache_full_blocks(p, toks, table, nc, nf))
BY CacheFullBlocksOK DEF FullBlocksCached

\* After allocate_slots the table covers the new tokens, its cached head has the
\* hashes of the request's prefixes, and every block that was not in the cached
\* head before is private to the request.
Allocated(r, hit, computed, num_new) ==
    LET old == req_to_blocks[r]
        table == req_to_blocks'[r]
        saved == old \o hit
        before == NumCachedBefore(r, hit)
        num_full == num_cached_block'[r]
    IN  /\ PoolOK(pool') /\ ParentBehind(pool') /\ ~ pool'.failed
        /\ req_to_blocks' = [req_to_blocks EXCEPT ![r] = table]
        /\ num_cached_block' = [num_cached_block EXCEPT ![r] = num_full]
        /\ table \in Seq(Block) /\ IsInjective(table) /\ null_block \notin Range(table)
        /\ Len(saved) <= Len(table) /\ \A i \in 1 .. Len(saved) : table[i] = saved[i]
        /\ num_full \in Nat /\ before <= num_full /\ num_full <= Len(table)
        /\ num_full * BlockSize <= computed + num_new
        /\ num_full * BlockSize <= num_tokens(r)
        /\ computed + num_new <= Len(table) * BlockSize
        /\ \A i \in 1 .. num_full :
              pool'.block_hash[table[i]] = BlockHash(tokens[r], i)
        /\ \A i \in num_full + 1 .. Len(table) : pool'.block_hash[table[i]] = NoHash
        /\ \A i \in before + 1 .. Len(table) :
              \A s \in Request \ {r} : table[i] \notin Range(req_to_blocks[s])
        /\ \A b \in Block : (\A i \in before + 1 .. Len(table) : table[i] # b)
              => pool'.block_hash[b] = pool.block_hash[b]
        /\ \A b \in Block : pool'.ref_cnt[b] = Cardinality(Holders(req_to_blocks', b))

\* What a successful allocate_slots does to the table, the pool and the hashes.
LEMMA AllocateSlotsOK ==
    ASSUME IInv, NEW r \in Request, NEW computed, NEW hit, Resumed(r, computed, hit),
           NEW num_new \in Nat \ {0}, NEW num_lookahead \in Nat,
           computed + num_new <= MaxModelLen,
           allocate_slots(r, computed, num_new, num_lookahead, hit)
    PROVE  Allocated(r, hit, computed, num_new)
<1> DEFINE old == req_to_blocks[r]
           saved == old \o hit
           before == NumCachedBefore(r, hit)
           num_slots == NumTokensNeedSlot(computed, num_new, num_lookahead)
           touched == touch(pool, hit)
           missing == cdiv(num_slots, BlockSize) - Len(saved)
           num_alloc == IF missing > 0 THEN missing ELSE 0
           new == popleft_n(touched.free_block_queue, num_alloc)
           g == get_new_blocks(touched, num_alloc)
           table == saved \o new
           to_cache == NumTokensToCache(r, computed, num_new)
           num_full == to_cache \div BlockSize
           c == IF EnableCaching
                THEN cache_full_blocks(g, tokens[r], table, before, num_full)
                ELSE g
           last == IF EnableCaching THEN num_full ELSE before
<1>1. /\ CanAllocate(r, num_slots, hit)
      /\ pool' = [c EXCEPT !.failed = @ \/ SaveFails(r, hit)]
      /\ req_to_blocks' = [req_to_blocks EXCEPT ![r] = table]
      /\ num_cached_block' = [num_cached_block EXCEPT ![r] = last]
  BY Zenon DEF allocate_slots, NumCachedBefore, Waiting
<1>2. /\ tokens[r] \in Seq(Token) /\ num_tokens(r) = Len(tokens[r])
      /\ num_tokens(r) \in Nat /\ BlockSize \in Nat \ {0} /\ MaxModelLen \in Nat
      /\ old \in Seq(Block) /\ Len(old) \in Nat
  BY RequestFacts
<1>3. /\ hit \in Seq(Block) /\ IsInjective(hit) /\ null_block \notin Range(hit)
      /\ Range(old) \cap Range(hit) = {}
      /\ ~ SaveFails(r, hit) /\ saved \in Seq(Block)
      /\ computed \in Nat /\ computed < num_tokens(r)
      /\ before \in Nat /\ before <= Len(saved) /\ before * BlockSize <= computed
      /\ \A i \in 1 .. before : pool.block_hash[saved[i]] = BlockHash(tokens[r], i)
      /\ \A i \in before + 1 .. Len(saved) :
            /\ i <= Len(old)
            /\ pool.block_hash[saved[i]] = NoHash
            /\ \A s \in Request \ {r} : saved[i] \notin Range(req_to_blocks[s])
  BY Zenon DEF Resumed
<1>4. /\ TypeOK /\ PoolOK(pool) /\ ParentBehind(pool) /\ ~ pool.failed
      /\ RefCountExact /\ IsInjective(old) /\ null_block \notin Range(old)
  <2>1. IInv /\ RequestOK(r)
    BY DEF IInv
  <2> QED  BY <2>1, Zenon DEF IInv, NoFailure, RequestOK
<1>5. num_slots \in Nat /\ computed + num_new <= num_slots
  BY <1>2, <1>3, SMTT(60) DEF NumTokensNeedSlot
<1>6. /\ missing <= Len(touched.free_block_queue)
      /\ Len(touched.free_block_queue) \in Nat /\ Len(saved) \in Nat
      /\ cdiv(num_slots, BlockSize) \in Nat
      /\ num_slots <= cdiv(num_slots, BlockSize) * BlockSize
  <2> HIDE DEF num_slots
  <2> QED  BY <1>1, <1>5, EnoughBlocks, Zenon
<1>7. num_alloc \in 0 .. Len(touched.free_block_queue)
  <2> HIDE DEF touched, saved, num_slots
  <2> QED  BY <1>6
<1> HIDE DEF num_alloc
<1>8. \A b \in Range(old) : pool.ref_cnt[b] > 0
  <2>1. \A b \in Range(old) : b \in Block
    BY <1>2 DEF Range
  <2> QED  BY <1>4, <2>1, RefFacts, Zenon
<1>9. /\ PoolOK(g) /\ ParentBehind(g) /\ g.failed = pool.failed
      /\ new \in Seq(Block) /\ Len(new) = num_alloc
      /\ table \in Seq(Block) /\ Len(table) = Len(old) + Len(hit) + num_alloc
      /\ IsInjective(table) /\ null_block \notin Range(table)
      /\ Range(table) = Range(old) \cup Range(hit) \cup Range(new)
      /\ \A i \in 1 .. Len(old) : table[i] = old[i]
      /\ \A i \in 1 .. Len(hit) : table[Len(old) + i] = hit[i]
      /\ \A i \in Len(old) + Len(hit) + 1 .. Len(table) : table[i] \in Range(new)
      /\ \A b \in Range(new) : /\ pool.ref_cnt[b] = 0 /\ b \notin Range(old)
                               /\ b \notin Range(hit)
      /\ g.ref_cnt = [b \in Block |-> IF b \in Range(hit) \cup Range(new)
                                      THEN pool.ref_cnt[b] + 1
                                      ELSE pool.ref_cnt[b]]
      /\ g.block_hash = [b \in Block |-> IF b \in Range(new)
                                         THEN NoHash
                                         ELSE pool.block_hash[b]]
  <2>1. /\ PoolOK(pool) /\ ParentBehind(pool)
        /\ old \in Seq(Block) /\ IsInjective(old) /\ null_block \notin Range(old)
        /\ hit \in Seq(Block) /\ IsInjective(hit) /\ null_block \notin Range(hit)
        /\ Range(old) \cap Range(hit) = {}
    BY <1>2, <1>3, <1>4, Zenon
  <2>2. TableExtended(pool, old, hit, num_alloc)
    <3> HIDE DEF old
    <3> QED  BY <2>1, <1>7, <1>8, ExtendTableOK, Zenon
  <2> QED  BY <2>2, Zenon DEF TableExtended
<1>10. /\ Len(saved) = Len(old) + Len(hit) /\ Len(hit) \in Nat /\ num_alloc \in Nat
       /\ Len(table) \in Nat /\ Len(saved) <= Len(table)
       /\ \A i \in 1 .. Len(saved) : table[i] = saved[i]
       /\ \A j \in 1 .. Len(new) : table[Len(saved) + j] = new[j]
       /\ Range(saved) = Range(old) \cup Range(hit)
  <2>1. /\ Len(saved) = Len(old) + Len(hit) /\ Range(saved) = Range(old) \cup Range(hit)
    <3>1. old \in Seq(Block) /\ hit \in Seq(Block)
      BY <1>2, <1>3, Zenon
    <3>2. ConcatShape(old, hit, saved)
      BY <3>1, ConcatShapeOK, Zenon
    <3> HIDE DEF old, saved
    <3> QED  BY <3>2, Zenon DEF ConcatShape
  <2>2. Len(hit) \in Nat /\ num_alloc \in Nat
    <3>1. hit \in Seq(Block) /\ Len(touched.free_block_queue) \in Nat
      BY <1>3, <1>6, Zenon
    <3> HIDE DEF touched
    <3> QED  BY <1>7, <3>1
  <2>3. /\ \A i \in 1 .. Len(saved) : table[i] = saved[i]
        /\ \A j \in 1 .. Len(new) : table[Len(saved) + j] = new[j]
    <3>1. saved \in Seq(Block) /\ new \in Seq(Block)
      BY <1>3, <1>9, Zenon
    <3> HIDE DEF saved, new
    <3>2. ConcatShape(saved, new, table)
      BY <3>1, ConcatShapeOK, Zenon
    <3> HIDE DEF table
    <3> QED  BY <3>2, Zenon DEF ConcatShape
  <2>4. Len(table) \in Nat /\ Len(table) = Len(saved) + num_alloc
    <3>1. Len(table) = Len(old) + Len(hit) + num_alloc /\ Len(old) \in Nat
      BY <1>2, <1>9, Zenon
    <3> HIDE DEF old, saved, table
    <3> QED  BY <2>1, <2>2, <3>1
  <2> HIDE DEF saved, new, table
  <2> QED  BY <1>2, <1>6, <2>1, <2>2, <2>3, <2>4, SMTT(60)
<1>11. computed + num_new <= Len(table) * BlockSize
  <2> DEFINE n == cdiv(num_slots, BlockSize)
  <2>1. n <= Len(table)
    <3>1. missing = n - Len(saved) /\ num_alloc >= missing
      BY <1>6, <1>10, SMTT(60) DEF num_alloc
    <3>2. n \in Nat /\ Len(saved) \in Nat /\ Len(table) = Len(saved) + num_alloc
      BY <1>2, <1>6, <1>9, <1>10, Zenon
    <3>3. num_alloc \in Nat
      BY <1>10, Zenon
    <3> HIDE DEF n, missing, saved, table
    <3> QED  BY <3>1, <3>2, <3>3, SMTT(60)
  <2>2. n \in Nat /\ num_slots <= n * BlockSize
    BY <1>6
  <2> HIDE DEF n, table, num_slots
  <2>3. n * BlockSize <= Len(table) * BlockSize
    BY <1>2, <1>10, <2>1, <2>2, MulMonotone, Zenon
  <2>4. n * BlockSize \in Nat /\ Len(table) * BlockSize \in Nat
    BY <1>2, <1>10, <2>2, SMTT(60)
  <2>5. \A a, b, d, e \in Nat : a <= b /\ b <= d /\ d <= e => a <= e
    OBVIOUS
  <2>6. computed + num_new \in Nat
    <3>1. computed \in Nat
      BY <1>3, Zenon
    <3> QED  BY <3>1
  <2> QED  BY <1>5, <2>2, <2>3, <2>4, <2>5, <2>6, Zenon
<1>12. /\ num_full \in Nat /\ before <= num_full /\ num_full <= Len(table)
       /\ num_full * BlockSize <= computed + num_new
       /\ num_full * BlockSize <= num_tokens(r)
  <2>1. /\ to_cache \in Nat /\ to_cache <= computed + num_new
        /\ to_cache <= num_tokens(r) /\ computed <= to_cache
    BY <1>2, <1>3, SMTT(60) DEF NumTokensToCache
  <2> HIDE DEF to_cache, table, before
  <2>2. num_full \in Nat
    BY <1>2, <2>1, DivMod, Zenon
  <2>3. num_full * BlockSize <= to_cache <=> num_full <= to_cache \div BlockSize
    BY <1>2, <2>1, <2>2, DivOfMultiple
  <2>4. num_full <= to_cache \div BlockSize
    BY <2>2
  <2>5. before * BlockSize <= to_cache <=> before <= num_full
    BY <1>2, <1>3, <2>1, DivOfMultiple, Zenon
  <2> HIDE DEF num_full
  <2>6. num_full * BlockSize \in Nat /\ before * BlockSize \in Nat
    BY <1>2, <1>3, <2>2, SMTT(60)
  <2>7. num_full * BlockSize <= computed + num_new /\ num_full * BlockSize <= num_tokens(r)
    <3>1. computed + num_new \in Nat /\ num_tokens(r) \in Nat
      BY <1>2, <1>3, SMTT(60)
    <3>2. num_full * BlockSize <= to_cache
      BY <2>3, <2>4
    <3> QED  BY <2>1, <2>6, <3>1, <3>2
  <2>8. before <= num_full
    BY <1>3, <2>1, <2>5, <2>6, SMTT(60)
  <2>9. num_full * BlockSize <= Len(table) * BlockSize <=>
           num_full <= (Len(table) * BlockSize) \div BlockSize
    <3>1. Len(table) * BlockSize \in Nat
      BY <1>2, <1>10, SMTT(60)
    <3> QED  BY <1>2, <2>2, <3>1, DivOfMultiple, Zenon
  <2>10. (Len(table) * BlockSize) \div BlockSize = Len(table)
    BY <1>2, <1>10, DivUnique
  <2>11. num_full * BlockSize <= Len(table) * BlockSize
    <3>1. Len(table) * BlockSize \in Nat
      BY <1>2, <1>10
    <3> QED  BY <1>3, <1>11, <2>6, <2>7, <3>1, SMTT(60)
  <2> QED  BY <2>2, <2>7, <2>8, <2>9, <2>10, <2>11
<1>13. /\ last \in Nat /\ before <= last /\ last <= Len(table)
       /\ last * BlockSize <= computed + num_new
       /\ last * BlockSize <= num_tokens(r)
  <2>1. /\ before <= Len(table) /\ before * BlockSize <= computed + num_new
        /\ before * BlockSize <= num_tokens(r)
    <3>1. /\ before * BlockSize \in Nat /\ before \in Nat /\ computed \in Nat
          /\ num_tokens(r) \in Nat /\ before * BlockSize <= computed
          /\ computed < num_tokens(r)
      BY <1>2, <1>3, SMTT(60)
    <3>2. /\ before <= Len(saved) /\ Len(saved) \in Nat
          /\ Len(saved) <= Len(table) /\ Len(table) \in Nat
      BY <1>3, <1>6, <1>10, Zenon
    <3> HIDE DEF before, table, saved
    <3> QED  BY <3>1, <3>2
  <2> HIDE DEF num_full, before, table
  <2> QED  BY <1>3, <1>12, <2>1, SMTT(60)
<1>14. \A i \in before + 1 .. Len(table) :
          /\ table[i] \in Block
          /\ g.block_hash[table[i]] = NoHash
          /\ \A s \in Request \ {r} : table[i] \notin Range(req_to_blocks[s])
  <2>1. SUFFICES ASSUME NEW i \in before + 1 .. Len(table)
                 PROVE  /\ table[i] \in Block
                        /\ g.block_hash[table[i]] = NoHash
                        /\ \A s \in Request \ {r} : table[i] \notin Range(req_to_blocks[s])
    BY Zenon
  <2>2. i \in Nat /\ i >= 1 /\ before + 1 <= i /\ i <= Len(table)
    <3>1. before \in Nat /\ Len(table) \in Nat
      BY <1>3, <1>10, Zenon
    <3> HIDE DEF before, table
    <3> QED  BY <3>1
  <2>3. table[i] \in Block
    <3>1. table \in Seq(Block)
      BY <1>9, Zenon
    <3> HIDE DEF table
    <3> QED  BY <2>2, <3>1
  <2>4. CASE i <= Len(saved)
    <3> HIDE DEF saved, table, new, g, before
    <3>1. i \in 1 .. Len(saved) /\ i \in before + 1 .. Len(saved)
      BY <1>3, <1>6, <2>2, <2>4, SMTT(60)
    <3>2. /\ table[i] = saved[i] /\ pool.block_hash[saved[i]] = NoHash
          /\ \A s \in Request \ {r} : saved[i] \notin Range(req_to_blocks[s])
      BY <1>3, <1>10, <3>1, Zenon
    <3> QED  BY <1>9, <2>3, <3>2, SMTT(60)
  <2>5. CASE i > Len(saved)
    <3>1. table[i] \in Range(new)
      <4> HIDE DEF saved, table, new
      <4>1. i \in Len(old) + Len(hit) + 1 .. Len(table)
        BY <1>2, <1>10, <2>2, <2>5, SMTT(60)
      <4> QED  BY <1>9, <4>1, Zenon
    <3> HIDE DEF saved, table, new, g
    <3>2. pool.ref_cnt[table[i]] = 0 /\ g.block_hash[table[i]] = NoHash
      BY <1>9, <2>3, <3>1, Zenon
    <3> QED  BY <1>4, <2>3, <3>2, RefFacts, Zenon
  <2>6. i <= Len(saved) \/ i > Len(saved)
    BY <1>6, <2>2, SMTT(60)
  <2> QED  BY <2>3, <2>4, <2>5, <2>6, Zenon
<1>15. \A i \in 1 .. before :
          /\ table[i] \in Block /\ table[i] \notin Range(new)
          /\ g.block_hash[table[i]] = BlockHash(tokens[r], i)
  <2>1. SUFFICES ASSUME NEW i \in 1 .. before
                 PROVE  /\ table[i] \in Block /\ table[i] \notin Range(new)
                        /\ g.block_hash[table[i]] = BlockHash(tokens[r], i)
    BY Zenon
  <2> HIDE DEF before, saved, table, new, g
  <2>2. i \in 1 .. Len(saved)
    BY <1>3, <1>6, SMTT(60)
  <2>3. table[i] = saved[i] /\ saved[i] \in Block /\ saved[i] \in Range(saved)
    <3>1. saved[i] \in Range(saved)
      BY <1>3, <2>2, SMTT(60) DEF Range
    <3> QED  BY <1>3, <1>10, <2>2, <3>1, SMTT(60)
  <2>4. saved[i] \notin Range(new)
    BY <1>9, <1>10, <2>3, Zenon
  <2>5. pool.block_hash[saved[i]] = BlockHash(tokens[r], i)
    BY <1>3, Zenon
  <2> QED  BY <1>9, <2>3, <2>4, <2>5, SMTT(60)
<1>16. \A b \in Block : (\A i \in before + 1 .. Len(table) : table[i] # b)
          => g.block_hash[b] = pool.block_hash[b]
  <2>1. SUFFICES ASSUME NEW b \in Range(new)
                 PROVE  \E i \in before + 1 .. Len(table) : table[i] = b
    BY <1>9, Zenon
  <2>2. PICK j \in 1 .. Len(new) : b = new[j]
    <3>1. new \in Seq(Block)
      BY <1>9, Zenon
    <3> HIDE DEF new
    <3> QED  BY <2>1, <3>1 DEF Range
  <2> DEFINE i == Len(saved) + j
  <2>3. table[i] = b
    BY <1>10, <2>2, Zenon
  <2>4. i \in before + 1 .. Len(table)
    <3>1. Len(new) = num_alloc /\ Len(table) = Len(saved) + num_alloc
      BY <1>2, <1>9, <1>10, Zenon
    <3>2. before \in Nat /\ before <= Len(saved) /\ Len(saved) \in Nat /\ num_alloc \in Nat
      BY <1>3, <1>6, <1>10, Zenon
    <3> HIDE DEF saved, table, new, before
    <3> QED  BY <3>1, <3>2
  <2> QED  BY <2>3, <2>4, Zenon
<1>17. \A i \in 1 .. Len(table) : table[i] \in Block /\ g.ref_cnt[table[i]] > 0
  <2>1. SUFFICES ASSUME NEW i \in 1 .. Len(table)
                 PROVE  table[i] \in Block /\ g.ref_cnt[table[i]] > 0
    BY Zenon
  <2> HIDE DEF table, g, new, old
  <2>2. table[i] \in Block /\ table[i] \in Range(table)
    <3>1. table \in Seq(Block)
      BY <1>9, Zenon
    <3> QED  BY <2>1, <3>1 DEF Range
  <2>3. pool.ref_cnt[table[i]] \in Nat
    BY <1>4, <2>2, PoolFields, Zenon DEF PoolOK
  <2>4. table[i] \in Range(old) => pool.ref_cnt[table[i]] > 0
    BY <1>8, Zenon
  <2> QED  BY <1>9, <2>2, <2>3, <2>4, SMTT(60)
<1>18. /\ PoolOK(c) /\ ParentBehind(c) /\ c.failed = g.failed /\ c.ref_cnt = g.ref_cnt
       /\ \A i \in 1 .. last : c.block_hash[table[i]] = BlockHash(tokens[r], i)
       /\ \A i \in last + 1 .. Len(table) : c.block_hash[table[i]] = NoHash
       /\ \A b \in Block : (\A i \in before + 1 .. Len(table) : table[i] # b)
             => c.block_hash[b] = g.block_hash[b]
  <2>1. CASE ~ EnableCaching
    <3>1. c = g /\ last = before
      BY <2>1
    <3> HIDE DEF c, g, last, before, table
    <3> QED  BY <1>9, <1>14, <1>15, <3>1, Zenon
  <2>2. CASE EnableCaching
    <3>1. c = cache_full_blocks(g, tokens[r], table, before, num_full) /\ last = num_full
      BY <2>2, Zenon
    <3>2. /\ before \in Nat /\ num_full \in Nat /\ before <= num_full
          /\ num_full <= Len(table) /\ Len(table) \in Nat
          /\ num_full * BlockSize <= Len(tokens[r])
      BY <1>2, <1>3, <1>10, <1>12, Zenon
    <3>3. \A i \in before + 1 .. num_full :
             i \in before + 1 .. Len(table) /\ i \in 1 .. Len(table)
      <4> HIDE DEF before, num_full, table
      <4> QED  BY <3>2
    <3>4. \A i \in before + 1 .. num_full : g.block_hash[table[i]] = NoHash
      BY <1>14, <3>3, Zenon
    <3> HIDE DEF c, g, last, before, num_full, table
    <3>5. /\ PoolOK(c) /\ c.failed = g.failed /\ c.ref_cnt = g.ref_cnt
          /\ c.free_block_queue = g.free_block_queue
          /\ \A i \in before + 1 .. num_full :
                c.block_hash[table[i]] = BlockHash(tokens[r], i)
          /\ \A b \in Block : (\A i \in before + 1 .. num_full : table[i] # b)
                                  => c.block_hash[b] = g.block_hash[b]
      <4>1. /\ PoolOK(g) /\ table \in Seq(Block) /\ IsInjective(table)
            /\ null_block \notin Range(table) /\ tokens[r] \in Seq(Token)
        BY <1>2, <1>9, Zenon
      <4> DEFINE d == cache_full_blocks(g, tokens[r], table, before, num_full)
      <4>2. FullBlocksCached(g, tokens[r], table, before, num_full, d)
        BY <2>2, <3>2, <3>4, <4>1, FullBlocksCachedOK, Zenon
      <4>3. c = d
        BY <3>1, Zenon
      <4> HIDE DEF d
      <4> QED  BY <4>2, <4>3, Zenon DEF FullBlocksCached
    <3>6. ParentBehind(c)
      <4> DEFINE changed == {table[i] : i \in before + 1 .. num_full}
      <4>1. changed \in SUBSET Block
        BY <1>17, <3>3, Zenon
      <4>2. \A b \in changed : g.block_hash[b] = NoHash /\ g.ref_cnt[b] > 0
        BY <1>17, <3>3, <3>4, Zenon
      <4>3. \A b \in Block \ changed : c.block_hash[b] = g.block_hash[b]
        BY <3>5, Zenon
      <4> HIDE DEF changed
      <4> QED  BY <1>9, <3>5, <4>1, <4>2, <4>3, ParentCacheFullBlocks, Zenon
    <3>7. \A i, j \in 1 .. Len(table) : table[i] = table[j] => i = j
      <4>1. table \in Seq(Block) /\ IsInjective(table)
        BY <1>9, Zenon
      <4>2. DOMAIN table = 1 .. Len(table)
        BY <4>1
      <4> QED  BY <4>1, <4>2, Zenon DEF IsInjective
    <3>8. \A i \in 1 .. before : c.block_hash[table[i]] = BlockHash(tokens[r], i)
      <4>1. SUFFICES ASSUME NEW i \in 1 .. before
                     PROVE  c.block_hash[table[i]] = g.block_hash[table[i]]
        BY <1>15, Zenon
      <4>2. i \in 1 .. Len(table) /\ \A j \in before + 1 .. num_full : i # j
        BY <3>2
      <4>3. \A j \in before + 1 .. num_full : table[j] # table[i]
        BY <3>3, <3>7, <4>2
      <4> QED  BY <1>15, <3>5, <4>3, Zenon
    <3>9. \A i \in 1 .. num_full : c.block_hash[table[i]] = BlockHash(tokens[r], i)
      <4>1. \A i \in 1 .. num_full : i \in 1 .. before \/ i \in before + 1 .. num_full
        BY <3>2
      <4> QED  BY <3>5, <3>8, <4>1, Zenon
    <3>10. \A i \in num_full + 1 .. Len(table) : c.block_hash[table[i]] = NoHash
      <4>1. SUFFICES ASSUME NEW i \in num_full + 1 .. Len(table)
                     PROVE  c.block_hash[table[i]] = NoHash
        BY Zenon
      <4>2. /\ i \in 1 .. Len(table) /\ i \in before + 1 .. Len(table)
            /\ \A j \in before + 1 .. num_full : i # j
        BY <3>2
      <4>3. \A j \in before + 1 .. num_full : table[j] # table[i]
        BY <3>3, <3>7, <4>2
      <4> QED  BY <1>14, <3>5, <4>2, <4>3, Zenon
    <3>11. \A b \in Block : (\A i \in before + 1 .. Len(table) : table[i] # b)
              => c.block_hash[b] = g.block_hash[b]
      BY <3>3, <3>5, Zenon
    <3> QED  BY <3>1, <3>5, <3>6, <3>9, <3>10, <3>11, Zenon
  <2> QED  BY <2>1, <2>2, Zenon
<1>19. pool' = c
  <2>1. c \in Pool /\ c.failed = FALSE
    <3>1. c.failed = pool.failed /\ pool.failed \in BOOLEAN
      BY <1>4, <1>9, <1>18, PoolFields, Zenon DEF PoolOK
    <3> HIDE DEF c
    <3> QED  BY <1>4, <1>18, <3>1, Zenon DEF PoolOK
  <2> HIDE DEF c
  <2> QED  BY <1>1, <1>3, <2>1 DEF Pool
<1>20. \A b \in Block : c.ref_cnt[b] = Cardinality(Holders(req_to_blocks', b))
  <2>1. SUFFICES ASSUME NEW b \in Block
                 PROVE  c.ref_cnt[b] = Cardinality(Holders(req_to_blocks', b))
    BY Zenon
  <2> DEFINE H == Cardinality(Holders(req_to_blocks, b))
             G == Cardinality(Holders([req_to_blocks EXCEPT ![r] = table], b))
  <2>2. pool.ref_cnt[b] = H
    BY <1>4 DEF RefCountExact
  <2>3. /\ (b \in Range(table) <=> b \in Range(old)) => G = H
        /\ b \in Range(table) /\ b \notin Range(old) => G = H + 1
    <3>1. req_to_blocks \in [Request -> Seq(Block)]
      BY <1>4 DEF TypeOK
    <3>2. table \in Seq(Block)
      BY <1>9, Zenon
    <3> HIDE DEF table
    <3> QED  BY <3>1, <3>2, HoldersUpdate, ZenonT(60)
  <2>4. req_to_blocks' = [req_to_blocks EXCEPT ![r] = table]
    BY <1>1
  <2>5. /\ b \in Range(table) <=> b \in Range(old) \/ b \in Range(hit) \/ b \in Range(new)
        /\ b \in Range(hit) \/ b \in Range(new) => b \notin Range(old)
        /\ g.ref_cnt[b] = IF b \in Range(hit) \/ b \in Range(new)
                          THEN pool.ref_cnt[b] + 1 ELSE pool.ref_cnt[b]
    <3> HIDE DEF table, old, new, g
    <3> QED  BY <1>3, <1>9, Zenon
  <2> HIDE DEF H, G, table, old, new, g, c
  <2>6. g.ref_cnt[b] = G
    BY <2>2, <2>3, <2>5, Zenon
  <2> QED  BY <1>18, <2>4, <2>6, Zenon DEF G
<1>21. \A b \in Block : (\A i \in before + 1 .. Len(table) : table[i] # b)
          => c.block_hash[b] = pool.block_hash[b]
  <2> HIDE DEF before, table, c, g
  <2> QED  BY <1>16, <1>18, Zenon
<1>22. req_to_blocks'[r] = table /\ num_cached_block'[r] = last
  <2>1. req_to_blocks \in [Request -> Seq(Block)]
        /\ num_cached_block \in [Request -> Nat \cup {Untracked}]
    BY <1>4 DEF TypeOK
  <2> HIDE DEF table, last
  <2> QED  BY <1>1, <2>1
<1>23. PoolOK(pool') /\ ParentBehind(pool') /\ ~ pool'.failed
  <2> HIDE DEF c
  <2> QED  BY <1>4, <1>9, <1>18, <1>19, Zenon
<1>24. \A i \in before + 1 .. Len(table) :
          \A s \in Request \ {r} : table[i] \notin Range(req_to_blocks[s])
  <2> HIDE DEF before, table
  <2> QED  BY <1>14, Zenon
<1> HIDE DEF old, saved, before, table, last, c
<1>25. /\ table \in Seq(Block) /\ IsInjective(table) /\ null_block \notin Range(table)
       /\ Len(saved) <= Len(table) /\ \A i \in 1 .. Len(saved) : table[i] = saved[i]
       /\ req_to_blocks' = [req_to_blocks EXCEPT ![r] = table]
       /\ num_cached_block' = [num_cached_block EXCEPT ![r] = last]
  BY <1>1, <1>9, <1>10
<1>26. /\ \A i \in 1 .. last : pool'.block_hash[table[i]] = BlockHash(tokens[r], i)
       /\ \A i \in last + 1 .. Len(table) : pool'.block_hash[table[i]] = NoHash
       /\ \A b \in Block : (\A i \in before + 1 .. Len(table) : table[i] # b)
             => pool'.block_hash[b] = pool.block_hash[b]
       /\ \A b \in Block : pool'.ref_cnt[b] = Cardinality(Holders(req_to_blocks', b))
  BY <1>18, <1>19, <1>20, <1>21, Zenon
<1> QED  BY <1>11, <1>13, <1>22, <1>23, <1>24, <1>25, <1>26, Zenon
         DEF Allocated, old, saved, before
================================================================================
