----------------------------- MODULE QueryCache -----------------------------
(***************************************************************************)
(* LRUQueryCache and UsageTrackingQueryCachingPolicy (search/cache): which *)
(* queries are cached on which segment cores, evicted in LRU order, and    *)
(* the ring buffer with its open-addressing bag that counts recent uses.   *)
(* A query is its hash code, a number; a cached set of documents is named  *)
(* by its query.                                                           *)
(***************************************************************************)
EXTENDS Naturals, Sequences, FiniteSets, SequencesExt, Functions

CONSTANTS
    Queries,      \* hash codes of the queries
    Cores,        \* segment cores that are ever opened
    Searchers,      \* searching threads
    MaxSize,      \* CacheData.max_size
    History,      \* FrequencyTrackingRingBuffer.max_size
    Capacity,     \* IntBag: the power of two above 3/2 of History
    MinFrequency, \* cache_min_frequency, of the query's type
    Sentinel,     \* u32::max_value(), as a hash code
    MaxUses       \* bound: weights used


VARIABLES
    lru,        \* unique_queries, most recently used first
    cache,      \* core -> the queries cached for it
    open,       \* the cores some reader still holds
    listening,  \* the cores that got a drop listener
    phase, job,    \* every thread's place, and the [query, core] it is at
    buffer, position,   \* the ring buffer
    keys, freqs,        \* IntBag
    uses
policy == <<buffer, position, keys, freqs, uses>>
vars == <<lru, cache, open, listening, phase, job, policy>>

Slots == 0 .. Capacity - 1

----------------------------------------------------------------------------
(* IntBag: open addressing with linear probing. *)

Bag(k, f) == [keys |-> k, freqs |-> f]
\* The first slot, from the key's own on, that is free or the key's.
Probe(b, key) ==
    LET at(d) == (key + d) % Capacity
        stops(d) == b.freqs[at(d)] = 0 \/ b.keys[at(d)] = key
    IN  at(CHOOSE d \in Slots : stops(d) /\ \A e \in 0 .. d - 1 : ~ stops(e))
Frequency(key) ==
    LET s == Probe(Bag(keys, freqs), key)
    IN  IF keys[s] = key THEN freqs[s] ELSE 0
BagAdd(b, key) ==
    LET s == Probe(b, key)
    IN  IF b.freqs[s] = 0 THEN Bag([b.keys EXCEPT ![s] = key], [b.freqs EXCEPT ![s] = 1])
        ELSE Bag(b.keys, [b.freqs EXCEPT ![s] = @ + 1])

\* between: slot lies on the way from the chain's start to its end.
Between(start, end, slot) ==
    IF start <= end THEN start <= slot /\ slot <= end ELSE slot >= start \/ slot <= end
\* Mutant: a freed slot is left as a gap in the chains through it.
Relocated_gap(b, slot) == b
\* relocate_adjacent_keys: later keys of the chain move up into the free slot.
Relocated(b, slot) ==
    LET step(d, a) ==
          LET s == (slot + d) % Capacity
              k == a.b.keys[s]
          IN  IF a.stop \/ a.b.freqs[s] = 0 THEN [a EXCEPT !.stop = TRUE]
              ELSE IF Between(k % Capacity, s, a.free)
                THEN [b |-> Bag([a.b.keys EXCEPT ![a.free] = k],
                                [a.b.freqs EXCEPT ![a.free] = a.b.freqs[s], ![s] = 0]),
                      free |-> s, stop |-> FALSE]
              ELSE a
    IN  FoldLeft(LAMBDA a, d : step(d, a), [b |-> b, free |-> slot, stop |-> FALSE],
                 [d \in 1 .. Capacity - 1 |-> d]).b
BagRemove(b, key) ==
    LET s == Probe(b, key)
        less == Bag(b.keys, [b.freqs EXCEPT ![s] = @ - 1])
    IN  IF b.freqs[s] = 0 THEN b ELSE IF b.freqs[s] = 1 THEN Relocated(less, s) ELSE less

\* FrequencyTrackingRingBuffer::add
OnUse(q) ==
    LET b == BagAdd(BagRemove(Bag(keys, freqs), buffer[position]), q)
    IN  /\ keys' = b.keys /\ freqs' = b.freqs
        /\ buffer' = [buffer EXCEPT ![position] = q]
        /\ position' = (position + 1) % History
        /\ uses' = uses + 1

----------------------------------------------------------------------------
(* CacheData. *)

ToFront(q) == <<q>> \o SelectSeq(lru, LAMBDA x : x # q)
\* Mutant: an evicted query stays in the caches of the leaves.
OnEviction_kept(evicted) == cache
\* on_eviction, of every query evicted
OnEviction(evicted) == [c \in DOMAIN cache |-> cache[c] \ evicted]

Init ==
    /\ lru = <<>> /\ cache = <<>> /\ open = Cores /\ listening = {}
    /\ phase = [t \in Searchers |-> "idle"] /\ job = [t \in Searchers |-> <<>>]
    /\ buffer = [i \in 0 .. History - 1 |-> Sentinel] /\ position = 0 /\ uses = 0
    /\ LET b == FoldLeft(LAMBDA a, i : BagAdd(a, Sentinel),
                         Bag([s \in Slots |-> 0], [s \in Slots |-> 0]), [i \in 1 .. History |-> i])
       IN  keys = b.keys /\ freqs = b.freqs

\* CachingWrapperWeight::create_scorer, its start: the first leaf counts as a use.
Use(t, q, c) ==
    /\ phase[t] = "idle" /\ c \in open /\ uses < MaxUses
    /\ phase' = [phase EXCEPT ![t] = "lookup"] /\ job' = [job EXCEPT ![t] = [query |-> q, core |-> c]]
    /\ OnUse(q)
    /\ UNCHANGED <<lru, cache, open, listening>>
NextLeaf(t, c) ==
    /\ phase[t] = "done" /\ c \in open
    /\ phase' = [phase EXCEPT ![t] = "lookup"] /\ job' = [job EXCEPT ![t].core = c]
    /\ UNCHANGED <<lru, cache, open, listening, policy>>
Finish(t) ==
    /\ phase[t] = "done" /\ phase' = [phase EXCEPT ![t] = "idle"] /\ job' = [job EXCEPT ![t] = <<>>]
    /\ UNCHANGED <<lru, cache, open, listening, policy>>

\* busy: the segment is too small to cache (test) or try_write fails, and the scorer is made
\* without the cache; otherwise get: a hit, or a miss for which
\* the policy is asked.
Lookup(t, busy) ==
    LET q == job[t].query
        known == job[t].core \in DOMAIN cache /\ q \in Range(lru)
        hit == known /\ q \in cache[job[t].core]
    IN  /\ phase[t] = "lookup"
        /\ lru' = IF ~ busy /\ known THEN ToFront(q) ELSE lru
        /\ phase' = [phase EXCEPT ![t] = IF ~ busy /\ ~ hit /\ Frequency(q) >= MinFrequency THEN "compute" ELSE "done"]
        /\ UNCHANGED <<cache, open, listening, job, policy>>

\* put_if_absent: evict_if_necessary first, then the query and the set.
PutIfAbsent(t) ==
    LET q == job[t].query
        c == job[t].core
        kept == SubSeq(lru, 1, IF Len(lru) >= MaxSize THEN MaxSize - 1 ELSE Len(lru))
        after == OnEviction(Range(lru) \ Range(kept))
    IN  /\ phase[t] = "compute"
        /\ lru' = <<q>> \o SelectSeq(kept, LAMBDA x : x # q)
        /\ cache' = [d \in DOMAIN cache \union {c} |->
                        (IF d \in DOMAIN cache THEN after[d] ELSE {}) \union (IF d = c THEN {q} ELSE {})]
        /\ phase' = [phase EXCEPT ![t] = IF c \in DOMAIN cache THEN "done" ELSE "listen"]
        /\ UNCHANGED <<open, listening, job, policy>>
\* add_core_drop_listener, after the lock is released.
Listen(t) ==
    /\ phase[t] = "listen"
    /\ listening' = listening \union {job[t].core} /\ phase' = [phase EXCEPT ![t] = "done"]
    /\ UNCHANGED <<lru, cache, open, job, policy>>

\* The last reader of a core goes: its listener removes the leaf's cache.
DropCore(c) ==
    /\ c \in open /\ \A t \in Searchers : job[t] # <<>> => job[t].core # c
    /\ open' = open \ {c}
    /\ cache' = IF c \in listening THEN [d \in DOMAIN cache \ {c} |-> cache[d]] ELSE cache
    /\ UNCHANGED <<lru, listening, phase, job, policy>>

Next ==
    \/ \E t \in Searchers, q \in Queries, c \in Cores : Use(t, q, c)
    \/ \E t \in Searchers, c \in Cores : NextLeaf(t, c)
    \/ \E t \in Searchers : Finish(t) \/ PutIfAbsent(t) \/ Listen(t) \/ \E busy \in BOOLEAN : Lookup(t, busy)
    \/ \E c \in Cores : DropCore(c)
Spec == Init /\ [][Next]_vars

----------------------------------------------------------------------------
(* Properties. *)

\* "The contract between this set and the per-leaf caches is that per-leaf caches are only
\* allowed to store sub-sets of the queries that are contained in unique_queries": otherwise a
\* set is cached that no eviction frees.  The cache keeps its limit, and nothing of a core that
\* is gone (evict_if_necessary, on_eviction, put_if_absent, the drop listener).
CacheContract ==
    /\ Len(lru) <= MaxSize
    /\ \A c \in DOMAIN cache : c \in open /\ cache[c] \subseteq Range(lru)

\* The policy counts exactly the uses in the ring buffer, whatever keys collide, wrap around
\* the table or move up when one is removed (IntBag, relocate_adjacent_keys).
FrequencyExact ==
    \A q \in Queries \union {Sentinel} : Frequency(q) = Cardinality({i \in DOMAIN buffer : buffer[i] = q})
=============================================================================
