--------------------------- MODULE KVScheduleProofs ----------------------------
(***************************************************************************)
(* The two scheduling steps of the KV-cache manager keep its invariant:     *)
(* the forward pass writes only private blocks, at the positions that the  *)
(* step adds to num_computed_tokens.                                       *)
(***************************************************************************)
EXTENDS KVAllocateProofs

--------------------------------------------------------------------------------
(* The forward pass *)

\* i > 0 blocks have at least the slots of one block.
LEMMA AtLeastOneBlock ==
    ASSUME NEW i \in Nat \ {0}, NEW B \in Nat
    PROVE  B <= i * B
<1> DEFINE k == i - 1
<1>1. k \in Nat /\ i = k + 1
  OBVIOUS
<1> HIDE DEF k
<1>2. (k + 1) * B = k * B + B /\ k * B \in Nat
  BY <1>1
<1> QED  BY <1>1, <1>2

\* The o-th slot of the i-th block of a table belongs to one position.
LEMMA SlotPosition ==
    ASSUME NEW table, NEW i \in Nat \ {0}, NEW o \in 0 .. BlockSize - 1
    PROVE  LET p == i * BlockSize - BlockSize + o
           IN  /\ p \in Nat /\ p + 1 <= i * BlockSize
               /\ SlotBlock(table, p) = table[i] /\ SlotOffset(p) = o
<1> DEFINE k == i - 1
           p == i * BlockSize - BlockSize + o
<1>1. BlockSize \in Nat \ {0} /\ k \in Nat
  BY PoolAssumption
<1>2. i * BlockSize = k * BlockSize + BlockSize /\ k * BlockSize \in Nat
  BY <1>1
<1>3. p = k * BlockSize + o /\ p \in Nat /\ p + 1 <= i * BlockSize
  BY <1>1, <1>2
<1> HIDE DEF p
<1>4. p \div BlockSize = k /\ p % BlockSize = o
  BY <1>1, <1>3, DivUnique
<1>5. (p \div BlockSize) + 1 = i
  BY <1>4
<1> QED  BY <1>3, <1>4, <1>5 DEF SlotBlock, SlotOffset, p

\* Two positions of an injective table never share a slot.
LEMMA SlotUnique ==
    ASSUME NEW table \in Seq(Block), IsInjective(table),
           NEW p \in Nat, NEW q \in Nat,
           p < Len(table) * BlockSize, q < Len(table) * BlockSize,
           SlotBlock(table, p) = SlotBlock(table, q), SlotOffset(p) = SlotOffset(q)
    PROVE  p = q
<1> DEFINE i == (p \div BlockSize) + 1
           j == (q \div BlockSize) + 1
<1>1. Len(table) \in Nat /\ BlockSize \in Nat \ {0}
  BY PoolAssumption
<1>2. /\ i \in Nat /\ i >= 1 /\ i <= Len(table)
      /\ i * BlockSize - BlockSize + (p % BlockSize) + 1 = p + 1
      /\ (p % BlockSize) \in 0 .. BlockSize - 1 /\ i * BlockSize \in Nat
  BY <1>1, PositionFacts, Zenon
<1>3. /\ j \in Nat /\ j >= 1 /\ j <= Len(table)
      /\ j * BlockSize - BlockSize + (q % BlockSize) + 1 = q + 1
  BY <1>1, PositionFacts, Zenon
<1> HIDE DEF i, j
<1>4. table[i] = table[j] /\ p % BlockSize = q % BlockSize
  BY DEF SlotBlock, SlotOffset, i, j
<1>5. i \in DOMAIN table /\ j \in DOMAIN table
  BY <1>1, <1>2, <1>3, SMTT(60)
<1>6. i = j
  BY <1>4, <1>5 DEF IsInjective
<1>7. p + 1 = q + 1
  BY <1>2, <1>3, <1>4, <1>6
<1> QED  BY <1>7

\* W stores the KV of the scheduled positions, and touches neither the earlier
\* positions nor the blocks before the first one.
SlotsWritten(table, seq, first, last, W) ==
    /\ W \in [Block -> [0 .. BlockSize - 1 -> Seq(Token)]]
    /\ \A p \in first .. last :
          W[SlotBlock(table, p)][SlotOffset(p)] = SubSeq(seq, 1, p + 1)
    /\ \A p \in 0 .. first - 1 : p <= last =>
          W[SlotBlock(table, p)][SlotOffset(p)]
             = slots[SlotBlock(table, p)][SlotOffset(p)]
    /\ \A k \in Nat : k * BlockSize <= first =>
          \A b \in Block : (\A i \in k + 1 .. Len(table) : table[i] # b)
             => W[b] = slots[b]

\* The worker writes exactly the slots of the scheduled positions.
LEMMA WriteSlotsOK ==
    ASSUME TypeOK, NEW table \in Seq(Block), IsInjective(table),
           NEW seq \in Seq(Token), NEW first \in Nat, NEW last \in Nat,
           last < Len(table) * BlockSize, last < Len(seq)
    PROVE  SlotsWritten(table, seq, first, last, WriteSlots(table, seq, first, last))
<1> DEFINE W == WriteSlots(table, seq, first, last)
           Writes(p, b, o) == SlotBlock(table, p) = b /\ SlotOffset(p) = o
           At(b, o) == CHOOSE p \in first .. last : Writes(p, b, o)
<1>1. /\ BlockSize \in Nat \ {0} /\ Len(table) \in Nat /\ Len(seq) \in Nat
      /\ slots \in [Block -> [0 .. BlockSize - 1 -> Seq(Token)]]
  BY PoolAssumption DEF TypeOK
<1>2. \A p \in Nat : p <= last =>
         /\ SlotBlock(table, p) \in Block /\ SlotOffset(p) \in 0 .. BlockSize - 1
         /\ (p \div BlockSize) + 1 \in 1 .. Len(table)
         /\ p < Len(table) * BlockSize
  <2>1. SUFFICES ASSUME NEW p \in Nat, p <= last
                 PROVE  /\ SlotBlock(table, p) \in Block
                        /\ SlotOffset(p) \in 0 .. BlockSize - 1
                        /\ (p \div BlockSize) + 1 \in 1 .. Len(table)
                        /\ p < Len(table) * BlockSize
    BY Zenon
  <2>2. p < Len(table) * BlockSize
    <3>1. Len(table) * BlockSize \in Nat
      BY <1>1
    <3> QED  BY <2>1, <3>1
  <2>3. /\ (p \div BlockSize) + 1 \in Nat /\ (p \div BlockSize) + 1 >= 1
        /\ (p \div BlockSize) + 1 <= Len(table)
        /\ (p % BlockSize) \in 0 .. BlockSize - 1
    BY <1>1, <2>2, PositionFacts, Zenon
  <2>4. (p \div BlockSize) + 1 \in 1 .. Len(table)
    BY <1>1, <2>3
  <2>5. \A i \in 1 .. Len(table) : table[i] \in Block
    OBVIOUS
  <2> QED  BY <2>2, <2>3, <2>4, <2>5 DEF SlotBlock, SlotOffset
<1>3. \A b \in Block, o \in 0 .. BlockSize - 1 :
         W[b][o] = IF \E p \in first .. last : Writes(p, b, o)
                   THEN SubSeq(seq, 1, 1 + At(b, o))
                   ELSE slots[b][o]
  BY DEF WriteSlots
<1>4. W = [b \in Block |-> [o \in 0 .. BlockSize - 1 |-> W[b][o]]]
  BY DEF WriteSlots
<1>5. \A b \in Block, o \in 0 .. BlockSize - 1 :
         (\E p \in first .. last : Writes(p, b, o)) =>
            /\ At(b, o) \in first .. last /\ Writes(At(b, o), b, o)
  OBVIOUS
<1> HIDE DEF W, At
<1>6. \A b \in Block, o \in 0 .. BlockSize - 1 : W[b][o] \in Seq(Token)
  <2>1. SUFFICES ASSUME NEW b \in Block, NEW o \in 0 .. BlockSize - 1
                 PROVE  W[b][o] \in Seq(Token)
    OBVIOUS
  <2>2. CASE \E p \in first .. last : Writes(p, b, o)
    <3>1. At(b, o) \in first .. last
      BY <1>5, <2>2
    <3>2. \A n \in 0 .. Len(seq) : SubSeq(seq, 1, n) \in Seq(Token)
      BY <1>1
    <3>3. 1 + At(b, o) \in 0 .. Len(seq)
      BY <1>1, <3>1
    <3> HIDE DEF Writes
    <3> QED  BY <1>3, <2>2, <3>2, <3>3, Zenon
  <2>3. CASE ~ \E p \in first .. last : Writes(p, b, o)
    <3> HIDE DEF Writes
    <3> QED  BY <1>1, <1>3, <2>3, Zenon
  <2> QED  BY <2>2, <2>3
<1>7. W \in [Block -> [0 .. BlockSize - 1 -> Seq(Token)]]
  BY <1>4, <1>6
<1>8. ASSUME NEW p \in Nat, p <= last, NEW q \in first .. last,
             Writes(q, SlotBlock(table, p), SlotOffset(p))
      PROVE  q = p
  <2>1. q \in Nat /\ q <= last
    OBVIOUS
  <2> QED  BY <1>2, <1>8, <2>1, SlotUnique
<1>9. \A p \in first .. last :
         W[SlotBlock(table, p)][SlotOffset(p)] = SubSeq(seq, 1, p + 1)
  <2>1. SUFFICES ASSUME NEW p \in first .. last
                 PROVE  W[SlotBlock(table, p)][SlotOffset(p)] = SubSeq(seq, 1, p + 1)
    OBVIOUS
  <2> DEFINE b == SlotBlock(table, p)
             o == SlotOffset(p)
  <2>2. p \in Nat /\ p <= last
    OBVIOUS
  <2>3. b \in Block /\ o \in 0 .. BlockSize - 1 /\ Writes(p, b, o)
    BY <1>2, <2>2
  <2>4. /\ \E q \in first .. last : Writes(q, b, o)
        /\ At(b, o) \in first .. last /\ Writes(At(b, o), b, o)
    <3> HIDE DEF Writes
    <3> QED  BY <1>5, <2>3
  <2>5. At(b, o) = p
    <3> HIDE DEF Writes
    <3> QED  BY <1>8, <2>2, <2>4
  <2> HIDE DEF Writes
  <2>6. W[b][o] = SubSeq(seq, 1, 1 + p)
    BY <1>3, <2>3, <2>4, <2>5, Zenon
  <2> QED  BY <2>2, <2>6
<1>10. \A p \in 0 .. first - 1 : p <= last =>
          W[SlotBlock(table, p)][SlotOffset(p)]
             = slots[SlotBlock(table, p)][SlotOffset(p)]
  <2>1. SUFFICES ASSUME NEW p \in 0 .. first - 1, p <= last
                 PROVE  W[SlotBlock(table, p)][SlotOffset(p)]
                           = slots[SlotBlock(table, p)][SlotOffset(p)]
    OBVIOUS
  <2>2. p \in Nat /\ \A q \in first .. last : q # p
    OBVIOUS
  <2>3. ~ \E q \in first .. last : Writes(q, SlotBlock(table, p), SlotOffset(p))
    <3> HIDE DEF Writes
    <3> QED  BY <1>8, <2>1, <2>2
  <2>4. SlotBlock(table, p) \in Block /\ SlotOffset(p) \in 0 .. BlockSize - 1
    BY <1>2, <2>1, <2>2
  <2> HIDE DEF Writes
  <2> QED  BY <1>3, <2>3, <2>4
<1>11. ASSUME NEW k \in Nat, k * BlockSize <= first, NEW b \in Block,
              \A i \in k + 1 .. Len(table) : table[i] # b
       PROVE  W[b] = slots[b]
  <2>1. \A q \in first .. last : SlotBlock(table, q) # b
    <3>1. SUFFICES ASSUME NEW q \in first .. last PROVE SlotBlock(table, q) # b
      OBVIOUS
    <3> DEFINE i == (q \div BlockSize) + 1
    <3>2. q \in Nat /\ q <= last /\ k * BlockSize \in Nat
      BY <1>1
    <3>3. i \in 1 .. Len(table)
      BY <1>2, <3>2
    <3>4. q < k * BlockSize <=> i <= k
      BY <3>2, PositionFacts
    <3> HIDE DEF i
    <3>5. i > k
      <4>1. ~ (q < k * BlockSize)
        BY <1>11, <3>2
      <4> QED  BY <1>1, <3>3, <3>4, <4>1
    <3>6. i \in k + 1 .. Len(table)
      BY <1>1, <3>3, <3>5
    <3> QED  BY <1>11, <3>6 DEF SlotBlock, i
  <2>2. \A o \in 0 .. BlockSize - 1 : W[b][o] = slots[b][o]
    BY <1>3, <2>1, Zenon
  <2>3. /\ W[b] \in [0 .. BlockSize - 1 -> Seq(Token)]
        /\ slots[b] \in [0 .. BlockSize - 1 -> Seq(Token)]
    BY <1>1, <1>7, Zenon
  <2> DEFINE D == 0 .. BlockSize - 1
             w == W[b]
             z == slots[b]
  <2>4. w \in [D -> Seq(Token)] /\ z \in [D -> Seq(Token)] /\ \A o \in D : w[o] = z[o]
    BY <2>2, <2>3
  <2> HIDE DEF D, w, z
  <2>5. w = z
    BY <2>4
  <2> QED  BY <2>5 DEF w, z
<1> QED  BY <1>7, <1>9, <1>10, <1>11, Zenon DEF W, SlotsWritten

--------------------------------------------------------------------------------
(* Scheduling a request preserves the invariant *)

\* Scheduling a request, from the allocation to the worker's writes, keeps the
\* invariant.
LEMMA ScheduleStep ==
    ASSUME IInv, NEW r \in Request, NEW computed, NEW hit, Resumed(r, computed, hit),
           NEW num_new \in Nat \ {0}, NEW num_lookahead \in Nat,
           NEW draft \in Seq(Token),
           computed + num_new <= MaxModelLen,
           computed + num_new <= num_tokens(r) + Len(draft),
           draft # << >> => computed + num_new = num_tokens(r) + Len(draft),
           allocate_slots(r, computed, num_new, num_lookahead, hit),
           slots' = WriteSlots(req_to_blocks'[r], tokens[r] \o draft,
                               computed, computed + num_new - 1),
           num_computed_tokens' = [num_computed_tokens EXCEPT ![r] = computed + num_new],
           spec_token_ids' = [spec_token_ids EXCEPT ![r] = draft],
           tokens' = tokens
    PROVE  IInv'
<1> DEFINE table == req_to_blocks'[r]
           saved == req_to_blocks[r] \o hit
           before == NumCachedBefore(r, hit)
           num_full == num_cached_block'[r]
           end == computed + num_new
           toks == tokens[r]
           seq == toks \o draft
<1>1. TypeOK /\ PoolOK(pool) /\ RefCountExact /\ HashedSlots /\ KVMatchesTokens
  BY Zenon DEF IInv
<1>2. /\ toks \in Seq(Token) /\ num_tokens(r) = Len(toks) /\ num_tokens(r) \in Nat
      /\ num_tokens(r) > 0 /\ num_tokens(r) <= MaxModelLen
      /\ BlockSize \in Nat \ {0} /\ MaxModelLen \in Nat
  BY RequestFacts
<1>3. /\ computed \in Nat /\ computed < num_tokens(r)
      /\ before \in Nat /\ before <= Len(saved) /\ before * BlockSize <= computed
      /\ saved \in Seq(Block)
      /\ \A i \in 1 .. before : pool.block_hash[saved[i]] = BlockHash(toks, i)
      /\ \A p \in 0 .. computed - 1 :
            slots[SlotBlock(saved, p)][SlotOffset(p)] = SubSeq(toks, 1, p + 1)
      /\ computed <= Len(saved) * BlockSize
  BY Zenon DEF Resumed
<1>4. Allocated(r, hit, computed, num_new)
  BY AllocateSlotsOK
<1>5. /\ PoolOK(pool') /\ ParentBehind(pool') /\ ~ pool'.failed
      /\ req_to_blocks' = [req_to_blocks EXCEPT ![r] = table]
      /\ num_cached_block' = [num_cached_block EXCEPT ![r] = num_full]
  BY <1>4 DEF Allocated
<1>6. /\ table \in Seq(Block) /\ IsInjective(table) /\ null_block \notin Range(table)
      /\ Len(saved) <= Len(table) /\ \A i \in 1 .. Len(saved) : table[i] = saved[i]
  BY <1>4, Zenon DEF Allocated
<1>7. /\ num_full \in Nat /\ before <= num_full /\ num_full <= Len(table)
      /\ num_full * BlockSize <= end /\ num_full * BlockSize <= num_tokens(r)
      /\ end <= Len(table) * BlockSize
  BY <1>4 DEF Allocated
<1>8. /\ \A i \in 1 .. num_full : pool'.block_hash[table[i]] = BlockHash(toks, i)
      /\ \A i \in num_full + 1 .. Len(table) : pool'.block_hash[table[i]] = NoHash
  BY <1>4 DEF Allocated
<1>9. /\ \A i \in before + 1 .. Len(table) :
            \A s \in Request \ {r} : table[i] \notin Range(req_to_blocks[s])
      /\ \A b \in Block : (\A i \in before + 1 .. Len(table) : table[i] # b)
            => pool'.block_hash[b] = pool.block_hash[b]
      /\ \A b \in Block : pool'.ref_cnt[b] = Cardinality(Holders(req_to_blocks', b))
  BY <1>4 DEF Allocated
<1>10. /\ Len(table) \in Nat /\ Len(saved) \in Nat /\ end \in Nat /\ end - 1 \in Nat
       /\ Len(draft) \in Nat
       /\ seq \in Seq(Token) /\ Len(seq) = num_tokens(r) + Len(draft)
       /\ computed < end
  <2>1. seq \in Seq(Token) /\ Len(seq) = Len(toks) + Len(draft)
    <3> HIDE DEF toks
    <3> QED  BY <1>2, ConcatFacts
  <2>2. Len(draft) \in Nat /\ Len(table) \in Nat /\ Len(saved) \in Nat
    BY <1>3, <1>6, SMTT(60)
  <2>3. computed \in Nat /\ num_tokens(r) = Len(toks)
    BY <1>2, <1>3
  <2> HIDE DEF seq, toks, table, saved
  <2> QED  BY <2>1, <2>2, <2>3
<1> HIDE DEF before
<1>11. /\ slots' \in [Block -> [0 .. BlockSize - 1 -> Seq(Token)]]
       /\ \A p \in computed .. end - 1 :
             slots'[SlotBlock(table, p)][SlotOffset(p)] = SubSeq(seq, 1, p + 1)
       /\ \A p \in 0 .. computed - 1 :
             slots'[SlotBlock(table, p)][SlotOffset(p)]
                = slots[SlotBlock(table, p)][SlotOffset(p)]
       /\ \A b \in Block : (\A i \in before + 1 .. Len(table) : table[i] # b)
             => slots'[b] = slots[b]
  <2>1. end - 1 < Len(table) * BlockSize /\ end - 1 < Len(seq)
    <3>1. Len(table) * BlockSize \in Nat
      BY <1>2, <1>10, SMTT(60)
    <3> HIDE DEF table, seq
    <3> QED  BY <1>7, <1>10, <3>1, SMTT(60)
  <2> DEFINE last == end - 1
  <2>2. slots' = WriteSlots(table, seq, computed, last)
    <3>1. slots' = WriteSlots(req_to_blocks'[r], tokens[r] \o draft,
                               computed, computed + num_new - 1)
      OBVIOUS
    <3>2. last = computed + num_new - 1
      BY <1>3
    <3> HIDE DEF last
    <3> QED  BY <3>1, <3>2, Zenon
  <2>3. last \in Nat /\ last < Len(table) * BlockSize /\ last < Len(seq)
    BY <1>10, <2>1
  <2>4. \A p \in 0 .. computed - 1 : p <= last
    BY <1>3, <1>10, SMTT(60)
  <2> HIDE DEF table, seq, last
  <2>5. SlotsWritten(table, seq, computed, last, slots')
    <3>1. /\ table \in Seq(Block) /\ IsInjective(table) /\ seq \in Seq(Token)
          /\ computed \in Nat
      BY <1>3, <1>6, <1>10, Zenon
    <3> QED  BY <1>1, <2>2, <2>3, <3>1, WriteSlotsOK
  <2>6. before \in Nat /\ before * BlockSize <= computed
    BY <1>3, Zenon
  <2> QED  BY <2>4, <2>5, <2>6, Zenon DEF last, SlotsWritten
<1>12. \A p \in 0 .. end - 1 :
          slots'[SlotBlock(table, p)][SlotOffset(p)] = SubSeq(seq, 1, p + 1)
  <2>1. SUFFICES ASSUME NEW p \in 0 .. computed - 1
                 PROVE  slots'[SlotBlock(table, p)][SlotOffset(p)] = SubSeq(seq, 1, p + 1)
    <3>1. \A p \in 0 .. end - 1 : p \in 0 .. computed - 1 \/ p \in computed .. end - 1
      BY <1>3, <1>10, SMTT(60)
    <3> HIDE DEF seq, end, table
    <3> QED  BY <1>11, <3>1, Zenon
  <2>2. p \in Nat /\ p < Len(saved) * BlockSize
    <3>1. Len(saved) * BlockSize \in Nat
      BY <1>2, <1>10
    <3>2. computed \in Nat /\ computed <= Len(saved) * BlockSize
      BY <1>3
    <3> HIDE DEF saved
    <3> QED  BY <3>1, <3>2
  <2>3. (p \div BlockSize) + 1 \in 1 .. Len(saved)
    <3>1. /\ (p \div BlockSize) + 1 \in Nat /\ (p \div BlockSize) + 1 >= 1
          /\ (p \div BlockSize) + 1 <= Len(saved)
      BY <1>10, <2>2, PositionFacts, Zenon
    <3> QED  BY <1>10, <3>1
  <2>4. SlotBlock(table, p) = SlotBlock(saved, p)
    BY <1>6, <2>3, Zenon DEF SlotBlock
  <2>5. SubSeq(toks, 1, p + 1) = SubSeq(seq, 1, p + 1)
    <3>1. p + 1 \in 0 .. Len(toks)
      <4>1. computed \in Nat /\ Len(toks) \in Nat /\ computed < Len(toks)
        BY <1>2, <1>3, Zenon
      <4> HIDE DEF toks
      <4> QED  BY <2>2, <4>1
    <3> HIDE DEF toks
    <3> QED  BY <1>2, <3>1, PrefixOfConcat
  <2> HIDE DEF toks, seq, table, saved
  <2> QED  BY <1>3, <1>11, <2>4, <2>5, Zenon
<1>13. ASSUME NEW s \in Request \ {r}, NEW b \in Range(req_to_blocks[s])
       PROVE  /\ b \in Block /\ pool'.block_hash[b] = pool.block_hash[b]
              /\ slots'[b] = slots[b]
  <2>1. b \in Block
    <3>1. req_to_blocks[s] \in Seq(Block)
      BY <1>1 DEF TypeOK
    <3> QED  BY <3>1, SMTT(60) DEF Range
  <2>2. \A i \in before + 1 .. Len(table) : table[i] # b
    BY <1>9
  <2> QED  BY <1>9, <1>11, <2>1, <2>2, Zenon
<1>14. HashedSlots'
  <2>1. SUFFICES ASSUME NEW b \in Block, pool'.block_hash[b] # NoHash
                 PROVE  /\ Len(pool'.block_hash[b]) >= BlockSize
                        /\ \A o \in 0 .. BlockSize - 1 :
                             slots'[b][o] = SubSeq(pool'.block_hash[b], 1,
                                Len(pool'.block_hash[b]) - BlockSize + o + 1)
    BY Zenon DEF HashedSlots
  <2>2. CASE \A i \in before + 1 .. Len(table) : table[i] # b
    <3>1. pool'.block_hash[b] = pool.block_hash[b] /\ slots'[b] = slots[b]
      BY <1>9, <1>11, <2>2, Zenon
    <3> QED  BY <1>1, <2>1, <3>1, Zenon DEF HashedSlots
  <2>3. CASE \E i \in before + 1 .. Len(table) : table[i] = b
    <3>1. PICK i \in before + 1 .. Len(table) : table[i] = b
      BY <2>3
    <3>2. i \in Nat \ {0} /\ i <= Len(table)
      <4>1. before \in Nat /\ Len(table) \in Nat
        BY <1>3, <1>10
      <4> HIDE DEF table
      <4> QED  BY <4>1
    <3>3. i \in 1 .. num_full
      <4>1. num_full \in Nat /\ Len(table) \in Nat
        BY <1>7, <1>10
      <4>2. i \notin num_full + 1 .. Len(table)
        BY <1>8, <2>1, <3>1
      <4> HIDE DEF num_full, table
      <4> QED  BY <3>2, <4>1, <4>2
    <3> DEFINE h == BlockHash(toks, i)
    <3>4. pool'.block_hash[b] = h
      BY <1>8, <3>1, <3>3
    <3>5. i * BlockSize \in Nat /\ i * BlockSize <= end /\ i * BlockSize <= Len(toks)
      <4>1. num_full \in Nat /\ i <= num_full
        BY <1>7, <3>3
      <4>2. /\ num_full * BlockSize <= end /\ num_full * BlockSize <= Len(toks)
            /\ end \in Nat /\ Len(toks) \in Nat
        BY <1>2, <1>7, <1>10
      <4> HIDE DEF num_full, end, toks
      <4>3. i * BlockSize <= num_full * BlockSize
        BY <1>2, <3>2, <4>1, MulMonotone
      <4>4. i * BlockSize \in Nat /\ num_full * BlockSize \in Nat
        BY <1>2, <3>2, <4>1
      <4> QED  BY <4>2, <4>3, <4>4
    <3>6. h \in Seq(Token) /\ Len(h) = i * BlockSize
      <4> HIDE DEF toks
      <4> QED  BY <1>2, <3>2, <3>5, BlockHashFacts
    <3>7. Len(h) >= BlockSize
      <4>1. BlockSize <= i * BlockSize
        BY <1>2, <3>2, AtLeastOneBlock
      <4> QED  BY <1>2, <3>6, <4>1, Zenon
    <3>8. ASSUME NEW o \in 0 .. BlockSize - 1
          PROVE  slots'[b][o] = SubSeq(h, 1, Len(h) - BlockSize + o + 1)
      <4> DEFINE p == i * BlockSize - BlockSize + o
      <4>1. /\ p \in Nat /\ p + 1 <= i * BlockSize
            /\ SlotBlock(table, p) = table[i] /\ SlotOffset(p) = o
        <5> HIDE DEF table
        <5> QED  BY <3>2, SlotPosition, Zenon
      <4> HIDE DEF p
      <4>2. p \in 0 .. end - 1 /\ p + 1 \in 0 .. Len(toks) /\ p + 1 \in 0 .. i * BlockSize
        <5>1. end \in Nat /\ Len(toks) \in Nat
          BY <1>2, <1>10
        <5> HIDE DEF end, toks
        <5> QED  BY <3>5, <4>1, <5>1
      <4>3. slots'[b][o] = SubSeq(seq, 1, p + 1)
        <5> HIDE DEF table, seq, end
        <5> QED  BY <1>12, <3>1, <4>1, <4>2, Zenon
      <4>4. SubSeq(seq, 1, p + 1) = SubSeq(toks, 1, p + 1)
        <5> HIDE DEF toks
        <5> QED  BY <1>2, <4>2, PrefixOfConcat
      <4>5. SubSeq(h, 1, p + 1) = SubSeq(toks, 1, p + 1)
        <5>1. i * BlockSize \in 0 .. Len(toks)
          BY <1>2, <3>5
        <5> HIDE DEF toks
        <5> QED  BY <1>2, <4>2, <5>1, PrefixOfPrefix DEF BlockHash
      <4>6. Len(h) - BlockSize + o + 1 = p + 1
        <5> HIDE DEF h
        <5> QED  BY <1>2, <3>5, <3>6 DEF p
      <4> HIDE DEF h, seq, toks
      <4> QED  BY <4>3, <4>4, <4>5, <4>6, Zenon
    <3> HIDE DEF h
    <3> QED  BY <3>4, <3>7, <3>8, Zenon
  <2> QED  BY <2>2, <2>3, Zenon
<1>15. /\ req_to_blocks \in [Request -> Seq(Block)]
       /\ num_cached_block \in [Request -> Nat \cup {Untracked}]
       /\ tokens \in [Request -> Seq(Token)]
       /\ num_computed_tokens \in [Request -> Nat]
       /\ spec_token_ids \in [Request -> Seq(Token)]
  BY <1>1 DEF TypeOK
<1>16. \A s \in Request \ {r} :
          /\ req_to_blocks'[s] = req_to_blocks[s]
          /\ num_cached_block'[s] = num_cached_block[s]
          /\ num_computed_tokens'[s] = num_computed_tokens[s]
          /\ spec_token_ids'[s] = spec_token_ids[s]
  <2> HIDE DEF table, num_full
  <2> QED  BY <1>5, <1>15
<1>17. num_computed_tokens'[r] = end /\ spec_token_ids'[r] = draft
  BY <1>15
<1>18. TypeOK'
  <2>1. pool' \in Pool
    BY <1>5 DEF PoolOK
  <2>2. /\ req_to_blocks' \in [Request -> Seq(Block)]
        /\ num_cached_block' \in [Request -> Nat \cup {Untracked}]
    <3>1. table \in Seq(Block) /\ num_full \in Nat
      BY <1>6, <1>7
    <3> HIDE DEF table, num_full
    <3> QED  BY <1>5, <1>15, <3>1
  <2>3. /\ num_computed_tokens' \in [Request -> Nat]
        /\ spec_token_ids' \in [Request -> Seq(Token)]
        /\ tokens' \in [Request -> Seq(Token)]
    BY <1>3, <1>15, SMTT(60)
  <2> QED  BY <1>11, <2>1, <2>2, <2>3, Zenon DEF TypeOK
<1>19. RefCountExact'
  <2>1. \A s \in Request : IsInjective(req_to_blocks'[s])
    BY <1>1, <1>6, <1>16, Zenon DEF RefCountExact
  <2> QED  BY <1>5, <1>9, <2>1, Zenon DEF RefCountExact, PoolOK
<1>20. KVMatchesTokens'
  <2>1. SUFFICES ASSUME NEW s \in Request, NEW p \in 0 .. num_computed_tokens'[s] - 1
                 PROVE  slots'[SlotBlock(req_to_blocks'[s], p)][SlotOffset(p)] =
                           SubSeq(tokens[s] \o spec_token_ids'[s], 1, p + 1)
    BY Zenon DEF KVMatchesTokens, SlotBlock, SlotOffset
  <2>2. CASE s = r
    BY <1>12, <1>17, <2>2, Zenon
  <2>3. CASE s # r
    <3>1. s \in Request \ {r} /\ p \in 0 .. num_computed_tokens[s] - 1
      BY <1>16, <2>3
    <3>2. slots[SlotBlock(req_to_blocks[s], p)][SlotOffset(p)] =
             SubSeq(tokens[s] \o spec_token_ids[s], 1, p + 1)
      BY <1>1, <3>1, Zenon DEF KVMatchesTokens
    <3>3. SlotBlock(req_to_blocks[s], p) \in Range(req_to_blocks[s])
      <4>1. /\ req_to_blocks[s] \in Seq(Block) /\ Len(req_to_blocks[s]) \in Nat
            /\ num_computed_tokens[s] \in Nat
        BY RequestFacts, Zenon
      <4>2. num_computed_tokens[s] <= Len(req_to_blocks[s]) * BlockSize
        <5>1. Running(s)
          <6>1. Waiting(s) => num_computed_tokens[s] = 0
            BY RequestFacts, Zenon DEF RequestOK
          <6> QED  BY <3>1, <4>1, <6>1, SMTT(60) DEF Waiting, Running
        <5> QED  BY <5>1, RequestFacts, Zenon DEF RequestOK
      <4>3. p \in Nat /\ p < Len(req_to_blocks[s]) * BlockSize
        <5>1. Len(req_to_blocks[s]) * BlockSize \in Nat
          BY <1>2, <4>1, SMTT(60)
        <5> QED  BY <3>1, <4>1, <4>2, <5>1, SMTT(60)
      <4>4. (p \div BlockSize) + 1 \in 1 .. Len(req_to_blocks[s])
        <5>1. /\ (p \div BlockSize) + 1 \in Nat /\ (p \div BlockSize) + 1 >= 1
              /\ (p \div BlockSize) + 1 <= Len(req_to_blocks[s])
          BY <4>1, <4>3, PositionFacts, Zenon
        <5> QED  BY <4>1, <5>1
      <4>5. (p \div BlockSize) + 1 \in DOMAIN req_to_blocks[s]
        BY <4>1, <4>4
      <4> QED  BY <4>5 DEF SlotBlock, Range
    <3>4. slots'[SlotBlock(req_to_blocks[s], p)] = slots[SlotBlock(req_to_blocks[s], p)]
      BY <1>13, <3>1, <3>3, Zenon
    <3> QED  BY <1>16, <3>1, <3>2, <3>4, Zenon
  <2> QED  BY <2>2, <2>3, Zenon
<1>21. RequestOK(r)'
  <2>1. /\ num_full <= Len(table) /\ num_full * BlockSize <= end
        /\ num_full * BlockSize <= num_tokens(r) /\ end <= Len(table) * BlockSize
        /\ end <= num_tokens(r) + Len(draft)
        /\ draft # << >> => end = num_tokens(r) + Len(draft)
        /\ num_full # Untracked
    <3> HIDE DEF num_full, table
    <3> QED  BY <1>7, SMTT(60) DEF Untracked
  <2>2. \A i \in num_full + 1 .. Len(table) :
           \A s \in Request \ {r} : table[i] \notin Range(req_to_blocks'[s])
    <3>1. \A i \in num_full + 1 .. Len(table) : i \in before + 1 .. Len(table)
      <4>1. num_full \in Nat /\ before \in Nat /\ before <= num_full /\ Len(table) \in Nat
        BY <1>3, <1>7, <1>10
      <4> HIDE DEF num_full, table
      <4> QED  BY <4>1
    <3> HIDE DEF table, num_full
    <3> QED  BY <1>9, <1>16, <3>1
  <2>3. num_tokens(r)' = num_tokens(r) /\ tokens'[r] = toks
    BY Zenon DEF num_tokens
  <2>4. Running(r)' /\ ~ Waiting(r)'
    BY <2>1 DEF Running, Waiting
  <2>5. num_tokens(r) \in 1 .. MaxModelLen
    BY <1>2
  <2> QED  BY <1>6, <1>8, <1>17, <2>1, <2>2, <2>3, <2>4, <2>5, Zenon DEF RequestOK
<1>22. ASSUME NEW s \in Request \ {r}
       PROVE  RequestOK(s)'
  <2> DEFINE mine == req_to_blocks[s]
             num_cached == num_cached_block[s]
  <2>1. /\ RequestOK(s) /\ mine \in Seq(Block) /\ Len(mine) \in Nat
        /\ (Running(s) => num_cached \in Nat)
    BY RequestFacts, Zenon
  <2>2. /\ num_tokens(s)' = num_tokens(s) /\ tokens'[s] = tokens[s]
        /\ Waiting(s)' = Waiting(s) /\ Running(s)' = Running(s)
    BY <1>16 DEF num_tokens, Waiting, Running
  <2>3. \A i \in 1 .. Len(mine) :
           pool'.block_hash[mine[i]] = pool.block_hash[mine[i]] /\ mine[i] \in Block
    <3>1. \A i \in 1 .. Len(mine) : mine[i] \in Range(mine)
      BY <2>1, SMTT(60) DEF Range
    <3> QED  BY <1>13, <3>1
  <2>4. ASSUME Running(s), NEW i \in num_cached + 1 .. Len(mine)
        PROVE  mine[i] \notin Range(table)
    <3>1. i \in 1 .. Len(mine) /\ i \in DOMAIN mine
      BY <2>1, <2>4, SMTT(60)
    <3>2. pool.block_hash[mine[i]] = NoHash
      BY <2>1, <2>4, Zenon DEF RequestOK
    <3>3. mine[i] \in Range(mine)
      BY <3>1, Zenon DEF Range
    <3>4. SUFFICES ASSUME NEW j \in 1 .. Len(table), table[j] = mine[i]
                   PROVE  FALSE
      <4> HIDE DEF table
      <4> QED  BY <1>6, SMTT(60) DEF Range
    <3>5. before \in Nat /\ Len(table) \in Nat /\ Len(saved) \in Nat /\ before <= Len(saved)
      BY <1>3, <1>10, Zenon
    <3>6. j \notin before + 1 .. Len(table)
      BY <1>9, <3>3, <3>4, Zenon
    <3>7. j \in 1 .. before /\ j \in 1 .. Len(saved) /\ j \in Nat \ {0}
      <4> HIDE DEF table, saved
      <4> QED  BY <3>5, <3>6, SMTT(60)
    <3>8. BlockHash(toks, j) = NoHash
      <4>1. table[j] = saved[j]
        BY <1>6, <3>7, Zenon
      <4>2. pool.block_hash[saved[j]] = BlockHash(toks, j)
        BY <1>3, <3>7, Zenon
      <4> QED  BY <3>2, <3>4, <4>1, <4>2, Zenon
    <3>9. j * BlockSize <= Len(toks)
      <4>1. j \in Nat /\ before \in Nat /\ j <= before
        BY <3>5, <3>7, SMTT(60)
      <4>2. j * BlockSize <= before * BlockSize
        BY <1>2, <4>1, MulMonotone, Zenon
      <4>3. j * BlockSize \in Nat /\ before * BlockSize \in Nat
        BY <1>2, <4>1, SMTT(60)
      <4>4. /\ before * BlockSize <= computed /\ computed < Len(toks)
            /\ Len(toks) \in Nat /\ computed \in Nat
        BY <1>2, <1>3, Zenon
      <4> HIDE DEF toks
      <4> QED  BY <4>2, <4>3, <4>4, SMTT(60)
    <3> HIDE DEF toks
    <3> QED  BY <1>2, <3>7, <3>8, <3>9, BlockHashFacts, SMTT(60)
  <2>5. Running(s) => /\ \A i \in 1 .. num_cached :
                            pool'.block_hash[mine[i]] = BlockHash(tokens[s], i)
                      /\ \A i \in num_cached + 1 .. Len(mine) :
                            pool'.block_hash[mine[i]] = NoHash
    <3>1. SUFFICES ASSUME Running(s)
                   PROVE  /\ \A i \in 1 .. num_cached :
                                pool'.block_hash[mine[i]] = BlockHash(tokens[s], i)
                          /\ \A i \in num_cached + 1 .. Len(mine) :
                                pool'.block_hash[mine[i]] = NoHash
      BY Zenon
    <3>2. /\ num_cached <= Len(mine) /\ num_cached \in Nat /\ Len(mine) \in Nat
          /\ \A i \in 1 .. num_cached : pool.block_hash[mine[i]] = BlockHash(tokens[s], i)
          /\ \A i \in num_cached + 1 .. Len(mine) : pool.block_hash[mine[i]] = NoHash
      BY <2>1, <3>1, Zenon DEF RequestOK
    <3>3. /\ \A i \in 1 .. num_cached : i \in 1 .. Len(mine)
          /\ \A i \in num_cached + 1 .. Len(mine) : i \in 1 .. Len(mine)
      <4>1. num_cached <= Len(mine) /\ num_cached \in Nat /\ Len(mine) \in Nat
        BY <3>2, Zenon
      <4> HIDE DEF mine, num_cached
      <4> QED  BY <4>1
    <3> HIDE DEF mine, num_cached
    <3> QED  BY <2>3, <3>2, <3>3, Zenon
  <2>6. Running(s) => \A i \in num_cached + 1 .. Len(mine) :
           \A q \in Request \ {s} : mine[i] \notin Range(req_to_blocks'[q])
    <3>1. Running(s) => \A i \in num_cached + 1 .. Len(mine) :
             \A q \in Request \ {s} : mine[i] \notin Range(req_to_blocks[q])
      BY <2>1, Zenon DEF RequestOK
    <3> HIDE DEF mine, num_cached
    <3> QED  BY <1>16, <2>4, <3>1, Zenon
  <2>7. /\ req_to_blocks'[s] = mine /\ num_cached_block'[s] = num_cached
        /\ num_computed_tokens'[s] = num_computed_tokens[s]
        /\ spec_token_ids'[s] = spec_token_ids[s]
    BY <1>16, Zenon
  <2> QED  BY <2>1, <2>2, <2>5, <2>6, <2>7, ZenonT(60) DEF RequestOK
<1>23. NoFailure' /\ PoolOK(pool)' /\ ParentBehind(pool)'
  BY <1>5, Zenon DEF NoFailure, PoolOK, Pool, FreeQueueExact, HashMapExact, ParentBehind, Behind
<1> QED  BY <1>14, <1>18, <1>19, <1>20, <1>21, <1>22, <1>23 DEF IInv

\* The step for a waiting request.
LEMMA ScheduleWaitingOK ==
    ASSUME IInv, NEW r \in Request, ScheduleWaiting(r)
    PROVE  IInv'
<1>1. Waiting(r) /\ tokens' = tokens /\ spec_token_ids' = spec_token_ids
  BY Zenon DEF ScheduleWaiting
<1>2. PICK hit \in get_computed_blocks(r) :
         \E num_new \in 1 .. num_tokens(r) - Len(hit) * BlockSize :
            /\ allocate_slots(r, Len(hit) * BlockSize, num_new, 0, hit)
            /\ slots' = WriteSlots(req_to_blocks'[r], tokens[r],
                          Len(hit) * BlockSize, Len(hit) * BlockSize + num_new - 1)
            /\ num_computed_tokens' = [num_computed_tokens EXCEPT
                                          ![r] = Len(hit) * BlockSize + num_new]
  BY Zenon DEF ScheduleWaiting
<1> DEFINE computed == Len(hit) * BlockSize
<1>3. PICK num_new \in 1 .. num_tokens(r) - computed :
         /\ allocate_slots(r, computed, num_new, 0, hit)
         /\ slots' = WriteSlots(req_to_blocks'[r], tokens[r],
                                computed, computed + num_new - 1)
         /\ num_computed_tokens' = [num_computed_tokens EXCEPT ![r] = computed + num_new]
  BY <1>2, Zenon
<1>4. Resumed(r, computed, hit)
  BY <1>1, ResumedWaiting
<1> HIDE DEF computed
<1>5. /\ tokens[r] \in Seq(Token) /\ num_tokens(r) \in Nat
      /\ num_tokens(r) <= MaxModelLen /\ MaxModelLen \in Nat
      /\ spec_token_ids[r] = << >> /\ spec_token_ids \in [Request -> Seq(Token)]
  BY <1>1, RequestFacts, Zenon DEF RequestOK, IInv, TypeOK
<1>6. computed \in Nat /\ computed < num_tokens(r)
  BY <1>4, Zenon DEF Resumed
<1>7. /\ << >> \in Seq(Token) /\ Len(<< >>) = 0 /\ tokens[r] \o << >> = tokens[r]
      /\ spec_token_ids' = [spec_token_ids EXCEPT ![r] = << >>]
  BY <1>1, <1>5
<1>8. /\ num_new \in Nat \ {0} /\ computed + num_new <= num_tokens(r)
      /\ computed + num_new <= MaxModelLen
      /\ computed + num_new <= num_tokens(r) + Len(<< >>)
  BY <1>3, <1>5, <1>6, SMTT(60)
<1>9. slots' = WriteSlots(req_to_blocks'[r], tokens[r] \o << >>,
                          computed, computed + num_new - 1)
  BY <1>3, <1>7, Zenon
<1> QED  BY <1>1, <1>3, <1>4, <1>7, <1>8, <1>9, ScheduleStep, Zenon

\* The step for a running request.
LEMMA ScheduleRunningOK ==
    ASSUME IInv, NEW r \in Request, ScheduleRunning(r)
    PROVE  IInv'
<1> DEFINE computed == num_computed_tokens[r]
<1>1. Running(r) /\ tokens' = tokens
  BY Zenon DEF ScheduleRunning
<1>2. PICK draft \in UNION {[1 .. n -> Token] : n \in 0 .. NumSpeculative},
           num_new \in 1 .. MaxModelLen - 1 - computed :
         /\ computed < num_tokens(r)
         /\ IF draft = << >>
            THEN computed + num_new <= num_tokens(r)
            ELSE computed + num_new = num_tokens(r) + Len(draft)
         /\ allocate_slots(r, computed, num_new, NumLookahead, << >>)
         /\ slots' = WriteSlots(req_to_blocks'[r], tokens[r] \o draft,
                                computed, computed + num_new - 1)
         /\ num_computed_tokens' = [num_computed_tokens EXCEPT ![r] = computed + num_new]
         /\ spec_token_ids' = [spec_token_ids EXCEPT ![r] = draft]
  BY Zenon DEF ScheduleRunning
<1>3. draft \in Seq(Token) /\ Len(draft) \in Nat
  <2>1. PICK n \in 0 .. NumSpeculative : draft \in [1 .. n -> Token]
    BY <1>2, Zenon
  <2>2. n \in Nat
    BY ManagerAssumption
  <2> QED  BY <2>1, <2>2
<1>4. Resumed(r, computed, << >>)
  BY <1>1, <1>2, ResumedRunning, Zenon
<1>5. /\ num_tokens(r) \in Nat /\ MaxModelLen \in Nat /\ computed \in Nat
      /\ NumLookahead \in Nat
  BY RequestFacts, ManagerAssumption
<1> HIDE DEF computed
<1>6. num_new \in Nat \ {0} /\ computed + num_new <= MaxModelLen
  BY <1>2, <1>5
<1>7. /\ computed + num_new <= num_tokens(r) + Len(draft)
      /\ draft # << >> => computed + num_new = num_tokens(r) + Len(draft)
  <2>1. CASE draft = << >>
    <3>1. Len(draft) = 0 /\ computed + num_new <= num_tokens(r)
      BY <1>2, <2>1, Zenon
    <3> QED  BY <1>5, <1>6, <2>1, <3>1
  <2>2. CASE draft # << >>
    <3>1. computed + num_new = num_tokens(r) + Len(draft)
      BY <1>2, <2>2, Zenon
    <3> QED  BY <1>3, <1>5, <1>6, <3>1
  <2> QED  BY <2>1, <2>2
<1> QED  BY <1>1, <1>2, <1>3, <1>4, <1>5, <1>6, <1>7, ScheduleStep, Zenon
================================================================================
