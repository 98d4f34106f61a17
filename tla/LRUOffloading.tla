----------------------------- MODULE LRUOffloading -----------------------------
(***************************************************************************)
(* LRUOffloadingManager and its CPUBackend: which KV blocks, named by      *)
(* their hash, are offloaded to which CPU blocks.  The two objects are one *)
(* record; a method is an operator from the record before the call to the  *)
(* record after it.  blocks is the ordered dictionary, oldest entry first. *)
(***************************************************************************)
EXTENDS Integers, Sequences, FiniteSets, SequencesExt

CONSTANTS
    Hash,           \* block hashes
    NumCPUBlocks    \* num_blocks of the backend

ASSUME LRUAssumption == NumCPUBlocks \in Nat

CPUBlock == 0 .. NumCPUBlocks - 1
Entry == [hash : Hash, ref_cnt : Int, block_id : CPUBlock]

EmptyLRU ==
    [blocks |-> <<>>, num_allocated_blocks |-> 0, allocated_blocks_free_list |-> <<>>]

Stored(m) == {e.hash : e \in ToSet(m.blocks)}
EntryOf(m, h) == CHOOSE e \in ToSet(m.blocks) : e.hash = h
is_ready(e) == e.ref_cnt >= 0

lookup(m, hashes) ==
    LET hit(i) == hashes[i] \in Stored(m) /\ is_ready(EntryOf(m, hashes[i]))
    IN  Max({0} \cup {n \in DOMAIN hashes : \A i \in 1 .. n : hit(i)})

\* Adds d to the reference count of the entries with a hash in S.
AddRef(m, S, d) ==
    [m EXCEPT !.blocks = [i \in DOMAIN @ |->
                            IF @[i].hash \in S THEN [@[i] EXCEPT !.ref_cnt = @ + d]
                            ELSE @[i]]]

\* Mutant of prepare_load: the blocks to read are not protected.
PrepareLoadWithoutRef(m, S) == m

prepare_load(m, S) == AddRef(m, S, 1)

\* Mutant of complete_load: the blocks read stay protected.
CompleteLoadKeepingRef(m, S) == m

complete_load(m, S) == AddRef(m, S, -1)

\* The given blocks become the most recent ones, the first of them last.
touch(m, hashes) ==
    LET known == SelectSeq(hashes, LAMBDA h : h \in Stored(m))
    IN  [m EXCEPT !.blocks =
            SelectSeq(@, LAMBDA e : e.hash \notin ToSet(known))
            \o [i \in DOMAIN known |-> EntryOf(m, Reverse(known)[i])]]

get_num_free_blocks(m) ==
    Len(m.allocated_blocks_free_list) + NumCPUBlocks - m.num_allocated_blocks

ToStore(m, hashes) == SelectSeq(hashes, LAMBDA h : h \notin Stored(m))
NumToEvict(m, hashes) == Len(ToStore(m, hashes)) - get_num_free_blocks(m)
Evictable(m) == SelectSeq(m.blocks, LAMBDA e : e.ref_cnt = 0)

\* prepare_store returns None when too few blocks can be evicted.
CanStore(m, hashes) == NumToEvict(m, hashes) <= Len(Evictable(m))

Evict(m, n) ==
    LET out == SubSeq(Evictable(m), 1, n)
    IN  [m EXCEPT !.blocks = SelectSeq(@, LAMBDA e : e \notin ToSet(out)),
                  !.allocated_blocks_free_list =
                      @ \o [i \in DOMAIN out |-> out[i].block_id]]

\* Mutant of AllocateIds: a reused id stays in the free list.
AllocateIdsKeepingFree(m, n) ==
    LET fresh == Min({n, NumCPUBlocks - m.num_allocated_blocks})
        list == m.allocated_blocks_free_list
        reused == n - fresh
    IN  [manager |-> [m EXCEPT !.num_allocated_blocks = @ + fresh],
         ids |-> [i \in 1 .. n |-> IF i <= fresh THEN m.num_allocated_blocks + i - 1
                                   ELSE list[Len(list) + 1 - (i - fresh)]]]

\* allocate_blocks: fresh ids first, then the last freed ones.
AllocateIds(m, n) ==
    LET fresh == Min({n, NumCPUBlocks - m.num_allocated_blocks})
        list == m.allocated_blocks_free_list
        reused == n - fresh
    IN  [manager |-> [m EXCEPT !.num_allocated_blocks = @ + fresh,
                               !.allocated_blocks_free_list =
                                   SubSeq(@, 1, Len(@) - reused)],
         ids |-> [i \in 1 .. n |-> IF i <= fresh THEN m.num_allocated_blocks + i - 1
                                   ELSE list[Len(list) + 1 - (i - fresh)]]]

\* prepare_store when it does not return None: the manager and the ids of the
\* hashes to store.
prepare_store(m, hashes) ==
    LET new == ToStore(m, hashes)
        alloc == AllocateIds(Evict(m, Max({0, NumToEvict(m, hashes)})), Len(new))
    IN  [manager |-> [alloc.manager EXCEPT !.blocks =
                         @ \o [i \in DOMAIN new |-> [hash |-> new[i], ref_cnt |-> -1,
                                                     block_id |-> alloc.ids[i]]]],
         ids |-> alloc.ids]

complete_store(m, S) ==
    [m EXCEPT !.blocks = [i \in DOMAIN @ |->
                            IF @[i].hash \in S /\ ~ is_ready(@[i])
                            THEN [@[i] EXCEPT !.ref_cnt = 0] ELSE @[i]]]
================================================================================
