-------------------------------- MODULE MMAKernel ------------------------------
(***************************************************************************)
(* One thread block of an MMA emulation kernel.  Its threads load a tile   *)
(* of a row of A and of the columns of B, with their block scales, into    *)
(* shared memory, wait for each other, accumulate the tile, each thread    *)
(* for its own column, wait again and go on to the next tile; then every   *)
(* thread writes its output.  The row and the columns are inputs; a row    *)
(* has its elements and its block scales (which FP8 does not use).         *)
(***************************************************************************)
EXTENDS MMAArith

CONSTANTS
    NumThreads,     \* threads of the block, and columns of its tile (BN)
    BK,             \* elements per tile
    CS,             \* products per chunk (CoFDA)
    GS,             \* products per group (GDFS)
    BlockSize,      \* elements per block scale
    F,              \* fractional bits F
    F2,             \* bits of the merge of C-decoupled CoFDA: 23 in the code
    G,              \* bits G within a group (GDFS)
    Kernel,         \* the kernels, by format and algorithm
    Rows            \* Rows[k]: the rows (and columns) that kernel k is given

ASSUME MMAAssumption ==
    /\ NumThreads \in Nat \ {0} /\ BK \in Nat \ {0}
    /\ CS \in Nat \ {0} /\ GS \in Nat \ {0} /\ BlockSize \in Nat \ {0}

VARIABLES
    kernel, A, B,           \* the launch: which kernel, and its inputs
    pc, tile,               \* of every thread: where it is, and in which tile
    As, Bs,                 \* shared memory
    accum,                  \* of every thread: the accumulator of its column
    C                       \* the output
vars == <<kernel, A, B, pc, tile, As, Bs, accum, C>>

FP8Kernels == {"fp8_cofda", "fp8_cofda_decoupled", "fp8_gdfs"}
Thread == 0 .. NumThreads - 1
K == Cardinality(DOMAIN A.elem)
N == Cardinality(DOMAIN B)
NumTiles == (K + BK - 1) \div BK
SfPerTile == BK \div BlockSize

Unwritten == [elem |-> [i \in 0 .. BK - 1 |-> 0], sf |-> [i \in 0 .. SfPerTile - 1 |-> 0]]

Init ==
    /\ kernel \in Kernel
    /\ A \in Rows[kernel]
    /\ \E n \in 1 .. NumThreads : B \in [0 .. n - 1 -> {r \in Rows[kernel] :
                                                        DOMAIN r.elem = DOMAIN A.elem}]
    /\ pc = [t \in Thread |-> "load"]
    /\ tile = [t \in Thread |-> 0]
    /\ As = Unwritten /\ Bs = [t \in Thread |-> Unwritten]
    /\ accum = [t \in Thread |-> PosZero]
    /\ C = [n \in DOMAIN B |-> QNaN]

-------------------------------------------------------------------------------
(* Loading. *)

\* Tile k of a row: zeros beyond its end.
TileOf(row, k) ==
    [elem |-> [i \in 0 .. BK - 1 |->
                  IF k * BK + i \in DOMAIN row.elem THEN row.elem[k * BK + i] ELSE 0],
     sf   |-> [i \in 0 .. SfPerTile - 1 |->
                  IF k * SfPerTile + i \in DOMAIN row.sf THEN row.sf[k * SfPerTile + i] ELSE 0]]

\* A column beyond N is all zeros.
ColumnTile(n, k) ==
    IF n \in DOMAIN B THEN TileOf(B[n], k) ELSE Unwritten

\* What thread t writes: every NumThreads-th entry.
Overlay(old, new, mine(_), minesf(_)) ==
    [elem |-> [i \in DOMAIN old.elem |-> IF mine(i) THEN new.elem[i] ELSE old.elem[i]],
     sf   |-> [i \in DOMAIN old.sf |-> IF minesf(i) THEN new.sf[i] ELSE old.sf[i]]]

Load(t) ==
    /\ pc[t] = "load"
    /\ As' = Overlay(As, TileOf(A, tile[t]), LAMBDA i : i % NumThreads = t,
                     LAMBDA i : i % NumThreads = t)
    /\ Bs' = [n \in Thread |->
                 Overlay(Bs[n], ColumnTile(n, tile[t]),
                         LAMBDA i : (n * BK + i) % NumThreads = t,
                         LAMBDA i : (n * SfPerTile + i) % NumThreads = t)]
    /\ pc' = [pc EXCEPT ![t] = "loaded"]
    /\ UNCHANGED <<kernel, A, B, tile, accum, C>>

\* Mutant of BarrierOpen: there is no barrier after the tile is computed.
OneBarrier(t) ==
    \/ pc[t] = "computed"
    \/ \A u \in Thread : tile[u] > tile[t] \/ (tile[u] = tile[t] /\ pc[u] # "load")

\* __syncthreads: a thread goes on when every thread has come to the barrier of the
\* tile that it waits at (or has left it already).
BarrierOpen(t) ==
    \A u \in Thread :
        \/ tile[u] > tile[t]
        \/ tile[u] = tile[t] /\ pc[t] = "loaded" /\ pc[u] # "load"
        \/ tile[u] = tile[t] /\ pc[u] = "computed"

LeaveLoaded(t) ==
    /\ pc[t] = "loaded" /\ BarrierOpen(t)
    /\ pc' = [pc EXCEPT ![t] = "compute"]
    /\ UNCHANGED <<kernel, A, B, tile, As, Bs, accum, C>>

LeaveComputed(t) ==
    /\ pc[t] = "computed" /\ BarrierOpen(t)
    /\ pc' = [pc EXCEPT ![t] = IF tile[t] + 1 < NumTiles THEN "load" ELSE "epilogue"]
    /\ tile' = [tile EXCEPT ![t] = @ + 1]
    /\ UNCHANGED <<kernel, A, B, As, Bs, accum, C>>

-------------------------------------------------------------------------------
(* Accumulating a tile.  a and b are tiles, c the accumulator. *)

\* The products start .. start + len - 1 of a tile, as a sequence.
Products(start, len, mul(_)) == [i \in 1 .. len |-> mul(start + i - 1)]

\* Chunks of CS products up to end, each added to what the chunks before gave.
Chain(c, end, add(_, _)) ==
    FoldLeft(LAMBDA acc, j : add((j - 1) * CS, acc), c,
             [j \in 1 .. (end + CS - 1) \div CS |-> j])

\* The groups of a tile.
Groups(operand(_)) == [j \in 1 .. BK \div GS |-> operand((j - 1) * GS)]

\* Elements of tile k that are inputs.
Actual(k) == IF K - k * BK < BK THEN K - k * BK ELSE BK

fp8_product(f, a, b, i) ==
    fp8_multiply_predecoded(f, decode_operand(a.elem[i]), decode_operand(b.elem[i]))

fp8_cofda_mma(a, b, start, c) ==
    fda_accumulate(F, Products(start, CS, LAMBDA i : fp8_product(F, a, b, i)), c)

\* The FP8 C-fused kernel adds the padding of the last tile as well.
fp8_cofda(a, b, c) == Chain(c, BK, LAMBDA start, acc : fp8_cofda_mma(a, b, start, acc))

fp8_cofda_decoupled(a, b, c, k) ==
    Chain(c, Actual(k),
          LAMBDA start, acc : cofda_decoupled_accumulate_products(F, F2,
              Products(start, CS, LAMBDA i : fp8_product(F, a, b, i)), acc))

fp8_gdfs_group_accumulate_predecoded(a, b, start) ==
    group_accumulate(Products(start, GS, LAMBDA i : fp8_product(G, a, b, i)))

fp8_gdfs(a, b, c) ==
    gdfs_accumulate_tile(F, Groups(LAMBDA start :
        group_to_operand_fp8(F, G, fp8_gdfs_group_accumulate_predecoded(a, b, start))), c)

fp4_gdfs_group_accumulate_predecoded(a, b, start) ==
    group_accumulate(Products(start, GS, LAMBDA i :
        fp4_multiply_predecoded(G, decode_fp4_operand(a.elem[i]),
                                   decode_fp4_operand(b.elem[i]))))

mxfp4_gdfs(a, b, c) ==
    gdfs_accumulate_tile(F, Groups(LAMBDA start :
        apply_e8m0_scales(F, G, fp4_gdfs_group_accumulate_predecoded(a, b, start),
                          a.sf[start \div BlockSize], b.sf[start \div BlockSize])), c)

nvfp4_gdfs(a, b, c) ==
    gdfs_accumulate_tile(F, Groups(LAMBDA start :
        apply_ue4m3_scales(F, G, fp4_gdfs_group_accumulate_predecoded(a, b, start),
                           a.sf[start \div BlockSize], b.sf[start \div BlockSize])), c)

mxfp4_cofda(a, b, c, k) ==
    LET product(i) == IF i >= Actual(k) THEN make_zero_operand
                      ELSE fp4_product_with_e8m0_scales(F,
                               decode_fp4_operand(a.elem[i]), decode_fp4_operand(b.elem[i]),
                               a.sf[i \div BlockSize], b.sf[i \div BlockSize])
    IN  Chain(c, Actual(k),
              LAMBDA start, acc : fda_accumulate(F, Products(start, CS, product), acc))

nvfp4_cofda(a, b, c, k) ==
    LET product(i) == IF i >= Actual(k) THEN make_zero_operand
                      ELSE fp4_product_with_ue4m3_scales(F,
                               decode_fp4_operand(a.elem[i]), decode_fp4_operand(b.elem[i]),
                               a.sf[i \div BlockSize], b.sf[i \div BlockSize])
    IN  Chain(c, Actual(k),
              LAMBDA start, acc : fda_accumulate(F, Products(start, CS, product), acc))

Accumulate(a, b, c, k) ==
    CASE kernel = "fp8_cofda" -> fp8_cofda(a, b, c)
      [] kernel = "fp8_cofda_decoupled" -> fp8_cofda_decoupled(a, b, c, k)
      [] kernel = "fp8_gdfs" -> fp8_gdfs(a, b, c)
      [] kernel = "mxfp4_gdfs" -> mxfp4_gdfs(a, b, c)
      [] kernel = "nvfp4_gdfs" -> nvfp4_gdfs(a, b, c)
      [] kernel = "mxfp4_cofda" -> mxfp4_cofda(a, b, c, k)
      [] kernel = "nvfp4_cofda" -> nvfp4_cofda(a, b, c, k)

\* The FP4 kernels skip a column beyond N, but not its barriers.
Compute(t) ==
    /\ pc[t] = "compute"
    /\ accum' = IF t \in DOMAIN B \/ kernel \in FP8Kernels
                THEN [accum EXCEPT ![t] = Accumulate(As, Bs[t], @, tile[t])]
                ELSE accum
    /\ pc' = [pc EXCEPT ![t] = "computed"]
    /\ UNCHANGED <<kernel, A, B, tile, As, Bs, C>>

\* The epilogue; the scaling of the result and its conversion are left out.
WriteOutput(t) ==
    /\ pc[t] = "epilogue"
    /\ C' = IF t \in DOMAIN B THEN [C EXCEPT ![t] = accum[t]] ELSE C
    /\ pc' = [pc EXCEPT ![t] = "done"]
    /\ UNCHANGED <<kernel, A, B, tile, As, Bs, accum>>

Done ==
    /\ \A t \in Thread : pc[t] = "done"
    /\ UNCHANGED vars

Next ==
    \/ \E t \in Thread : Load(t) \/ LeaveLoaded(t) \/ Compute(t) \/ LeaveComputed(t)
                         \/ WriteOutput(t)
    \/ Done

Spec == Init /\ [][Next]_vars

-------------------------------------------------------------------------------
(* The algorithms as they are documented: the terms of a chunk or of a tile, *)
(* exact numbers n * 2^(e - r), are aligned to the largest exponent, each is *)
(* truncated once, and the sum is rounded towards zero.  There are no        *)
(* threads, no padding and no intermediate widths.                           *)

\* The radix point of a product of two scales: UE4M3 scales have a mantissa.
Radix == IF kernel \in {"nvfp4_gdfs", "nvfp4_cofda"} THEN 6 ELSE 0

Term(n, r, e) == [n |-> n, r |-> r, e |-> e]
Sgn(x) == IF x < 0 THEN -1 ELSE 1

\* n * 2^k, rounded towards zero.
TowardsZero(n, k) == Sgn(n) * Shift(Abs(n), k)

RefRound(f, n, e) ==
    LET top == LeadingOne(Abs(n)) + e - f
        kept == IF f < 23 THEN f ELSE 23
        low == IF top < -126 THEN -126 ELSE top
        field == Shift(Abs(n), e - f - low + kept)
        hidden == IF top < -126 THEN 0 ELSE 2^kept
    IN  IF n = 0 \/ field = 0 THEN PosZero
        ELSE IF top > 127 THEN Inf(Sgn(n))
        ELSE FP32(Sgn(n), IF top < -126 THEN 0 ELSE top + 127,
                  (field - hidden) * 2^(23 - kept))

FP32Term(c) ==
    [t |-> Term(c.sign * (c.mantissa + IF c.biased = 0 THEN 0 ELSE 2^23), 23,
                IF c.biased = 0 THEN -126 ELSE c.biased - 127),
     zero |-> c = PosZero]

\* c plus the terms, of which the zeros only count for the alignment, with zero_e.
RefSum(f, zero_e, terms, c) ==
    LET all == <<FP32Term(c)>> \o terms
        top == Max({IF x.zero THEN zero_e ELSE x.t.e : x \in ToSet(all)})
        aligned(s, x) ==
            IF x.zero THEN s ELSE s + TowardsZero(x.t.n, f - x.t.r + x.t.e - top)
    IN  IF c.biased = 255 THEN c ELSE RefRound(f, FoldLeft(aligned, 0, all), top)

\* E4M3 and E2M1 numbers and block scales.
E4M3(x) == LET e == (x \div 8) % 16
           IN  Term((IF x >= 128 THEN -1 ELSE 1) * ((x % 8) + IF e = 0 THEN 0 ELSE 8), 3,
                    (IF e = 0 THEN 1 ELSE e) - 7)
E2M1(x) == LET e == (x \div 2) % 4
           IN  Term((IF x >= 8 THEN -1 ELSE 1) * ((x % 2) + IF e = 0 THEN 0 ELSE 2), 1,
                    (IF e = 0 THEN 1 ELSE e) - 1)
E8M0(x) == Term(1, 0, x - 127)
Times(x, y) == Term(x.n * y.n, x.r + y.r, x.e + y.e)

RefProduct(b, i) == IF kernel \in FP8Kernels THEN Times(E4M3(A.elem[i]), E4M3(b.elem[i]))
                    ELSE Times(E2M1(A.elem[i]), E2M1(b.elem[i]))

\* The scale of the block of element i.
RefScale(b, i) ==
    LET s(row) == row.sf[i \div BlockSize]
    IN  IF Radix = 0 THEN Times(E8M0(s(A)), E8M0(s(b)))
        ELSE Times(E4M3(s(A) % 128), E4M3(s(b) % 128))

\* A product at f bits; that of scaled FP4 numbers is zero if it truncates to zero.
RefTerm(f, b, i) ==
    LET t == IF kernel \in FP8Kernels THEN RefProduct(b, i)
             ELSE Times(RefProduct(b, i), RefScale(b, i))
    IN  [t |-> t,
         zero |-> t.n = 0 \/ (kernel \notin FP8Kernels /\ TowardsZero(t.n, f - t.r) = 0)]

\* A group of products: their sum, exact for FP4 (in units of 2^-2), at G bits for
\* FP8.
RefGroup(b, is) ==
    LET live == {i \in is : RefProduct(b, i).n # 0}
        top == IF kernel \in FP8Kernels THEN Max({RefProduct(b, i).e : i \in live}) ELSE 0
        bits == IF kernel \in FP8Kernels THEN G ELSE 2
        part(i) == LET t == RefProduct(b, i) IN TowardsZero(t.n, bits - t.r + t.e - top)
        sum == Term(MapThenSumSet(part, live), bits, top)
    IN  IF live = {} THEN [t |-> Term(0, 0, 0), zero |-> TRUE]
        ELSE IF kernel \in FP8Kernels THEN [t |-> sum, zero |-> sum.n = 0]
        ELSE LET t == Times(sum, RefScale(b, Min(is)))
             IN  [t |-> t, zero |-> RefScale(b, Min(is)).n = 0]

\* The elements, cut into runs of size elements, the last one possibly shorter.
Runs(from, to, size) ==
    [j \in 1 .. (to - from + size) \div size |->
        LET start == from + (j - 1) * size
        IN  start .. (IF start + size - 1 < to THEN start + size - 1 ELSE to)]

\* One run of elements added to c: a chunk, or in GDFS a tile.
RefStep(b, c, is) ==
    LET products == [j \in 1 .. Cardinality(is) |-> RefTerm(F, b, Min(is) + j - 1)]
        groups == Runs(Min(is), Max(is), GS)
    IN  CASE kernel \in {"fp8_cofda", "mxfp4_cofda", "nvfp4_cofda"} ->
                RefSum(F, -133, products, c)
          [] kernel = "fp8_cofda_decoupled" ->
                RefSum(F2, -133, <<FP32Term(RefSum(F, -133, products, PosZero))>>, c)
          [] kernel \in {"fp8_gdfs", "mxfp4_gdfs", "nvfp4_gdfs"} ->
                RefSum(F, -139, [j \in DOMAIN groups |-> RefGroup(b, groups[j])], c)

RefOutput(n) ==
    LET size == IF kernel \in {"fp8_gdfs", "mxfp4_gdfs", "nvfp4_gdfs"} THEN BK ELSE CS
    IN  FoldLeft(LAMBDA c, is : RefStep(B[n], c, is), PosZero, Runs(0, K - 1, size))

-------------------------------------------------------------------------------
(* Properties. *)

NaNInput(row) ==
    IF kernel \in FP8Kernels THEN \E i \in DOMAIN row.elem : row.elem[i] % 128 = 127
    ELSE \E i \in DOMAIN row.sf : IF Radix = 0 THEN row.sf[i] = 255 ELSE row.sf[i] % 128 = 127

\* The threads are at a step of the kernel, and accumulators are FP32 bit patterns,
\* never that of a negative zero.
MMATypeOK ==
    /\ pc \in [Thread -> {"load", "loaded", "compute", "computed", "epilogue", "done"}]
    /\ tile \in [Thread -> 0 .. NumTiles]
    /\ DOMAIN C = DOMAIN B
    /\ \A t \in Thread :
          /\ accum[t].sign \in {-1, 1} /\ accum[t].biased \in 0 .. 255
          /\ accum[t].mantissa \in 0 .. 2^23 - 1
          /\ accum[t].biased = 0 /\ accum[t].mantissa = 0 => accum[t] = PosZero

\* A thread that accumulates a tile reads that tile of its row and of its column:
\* the two __syncthreads of a tile keep the loads of the other threads, for this
\* tile and for the next one, out of the way.
TilesCurrent ==
    \A t \in Thread : pc[t] = "compute" =>
        As = TileOf(A, tile[t]) /\ Bs[t] = ColumnTile(t, tile[t])

\* A NaN element or a NaN block scale of its row or its column makes an output NaN,
\* whatever the rest is, zeros and overflow included, and nothing else does.  The FP8
\* GDFS kernel is the exception that its comment names: it drops NaN products.
NaNReachesOutput ==
    \A n \in DOMAIN C : pc[n] = "done" =>
        (IsNaN(C[n]) <=> kernel # "fp8_gdfs" /\ (NaNInput(A) \/ NaNInput(B[n])))

\* The output of a row and a column without NaN is what the documented algorithm
\* gives for exact products: the split into tiles and threads, the padding, the
\* decoding and the intermediate shifts of the kernels do not show.
OutputIsDocumented ==
    \A n \in DOMAIN C :
        pc[n] = "done" /\ ~ NaNInput(A) /\ ~ NaNInput(B[n]) => C[n] = RefOutput(n)
===============================================================================
