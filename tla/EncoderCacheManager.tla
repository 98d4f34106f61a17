-------------------------- MODULE EncoderCacheManager --------------------------
(***************************************************************************)
(* The class EncoderCacheManager: which encoder outputs (embeddings of     *)
(* images and the like, named by their hash) the workers hold, which       *)
(* requests reference them, and how much room is left.  The object is a    *)
(* record; every method is an operator from the record before the call to  *)
(* the record after it.                                                    *)
(***************************************************************************)
EXTENDS Naturals, Sequences, FiniteSets, SequencesExt

CONSTANTS
    Hash,           \* mm_hash values
    NumTokens,      \* NumTokens[h]: encoder tokens of the item with hash h
    CacheSize       \* cache_size

ASSUME CacheAssumption ==
    /\ NumTokens \in [Hash -> Nat \ {0}]
    /\ CacheSize \in Nat

Tokens(S) == MapThenSumSet(LAMBDA h : NumTokens[h], S)

EmptyManager ==
    [num_free_slots |-> CacheSize, num_freeable_slots |-> CacheSize,
     cached |-> <<>>, freeable |-> <<>>, freed |-> {}]

Referenced(m) == {h \in DOMAIN m.cached : m.cached[h] # {}}

\* Mutant of check_and_update_cache: a hit on an unreferenced entry leaves it
\* among the freeable ones.
HitStaysFreeable(m, r, h) == [m EXCEPT !.cached[h] = @ \cup {r}]

\* check_and_update_cache on a hash that is cached.
check_and_update_cache(m, r, h) ==
    LET revived == m.cached[h] = {}
    IN  [m EXCEPT !.cached[h] = @ \cup {r},
                  !.freeable = IF revived THEN Remove(@, h) ELSE @,
                  !.num_freeable_slots =
                      IF revived THEN @ - NumTokens[h] ELSE @]

\* Whether can_allocate returns True: toSchedule tokens are already promised
\* to earlier items of the same request.
can_allocate(m, h, budget, toSchedule) ==
    /\ NumTokens[h] <= budget
    /\ \/ NumTokens[h] + toSchedule <= m.num_free_slots
       \/ NumTokens[h] + toSchedule <= m.num_freeable_slots

\* Mutant of evict: the room the earlier items were promised is forgotten.
EvictForItemOnly(m, need, toSchedule) ==
    LET freedBy(k) == Tokens(ToSet(SubSeq(m.freeable, 1, k)))
        k == Min({j \in 0 .. Len(m.freeable) :
                     m.num_free_slots + freedBy(j) >= need})
        out == ToSet(SubSeq(m.freeable, 1, k))
    IN  [m EXCEPT !.freeable = SubSeq(@, k + 1, Len(@)),
                  !.cached = [h \in DOMAIN @ \ out |-> @[h]],
                  !.freed = @ \cup out,
                  !.num_free_slots = @ + freedBy(k)]

\* What can_allocate changes when it returns True: unreferenced entries go,
\* the oldest first, until the item fits.
evict(m, need, toSchedule) ==
    LET freedBy(k) == Tokens(ToSet(SubSeq(m.freeable, 1, k)))
        k == Min({j \in 0 .. Len(m.freeable) :
                     m.num_free_slots + freedBy(j) >= need + toSchedule})
        out == ToSet(SubSeq(m.freeable, 1, k))
    IN  [m EXCEPT !.freeable = SubSeq(@, k + 1, Len(@)),
                  !.cached = [h \in DOMAIN @ \ out |-> @[h]],
                  !.freed = @ \cup out,
                  !.num_free_slots = @ + freedBy(k)]

allocate(m, r, h) ==
    [m EXCEPT !.cached = [g \in DOMAIN @ \cup {h} |->
                            (IF g \in DOMAIN @ THEN @[g] ELSE {})
                            \cup (IF g = h THEN {r} ELSE {})],
              !.num_free_slots = @ - NumTokens[h],
              !.num_freeable_slots = @ - NumTokens[h]]

free_encoder_input(m, r, h) ==
    IF h \notin Referenced(m) THEN m
    ELSE LET last == m.cached[h] \subseteq {r}
         IN  [m EXCEPT !.cached[h] = @ \ {r},
                       !.freeable = IF last THEN Append(@, h) ELSE @,
                       !.num_freeable_slots =
                           IF last THEN @ + NumTokens[h] ELSE @]

\* Mutant of FreeInputs: the references of a request outlive it.
FreeNothing(m, r, hashes) == m

\* free and _free_encoder_inputs: one call per item, in the items' order.
FreeInputs(m, r, hashes) ==
    FoldLeft(LAMBDA acc, h : free_encoder_input(acc, r, h), m,
             SelectSeq(hashes, LAMBDA h : h \in DOMAIN m.cached))
================================================================================
