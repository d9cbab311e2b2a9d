----------------------------- MODULE MCServices -----------------------------
(* The services around the writer: the merge scheduler, the merge policy     *)
(* with the merges it makes the writer register, the searcher manager and    *)
(* the query cache.  They share no state, so that a behaviour exercises one  *)
(* of them and leaves the others as they start.                              *)
EXTENDS SearcherManager, MergeScheduler
CONSTANTS Queries, Cores, Searchers, MaxSize, History, Capacity, MinFrequency, Sentinel, MaxUses,
          MaxMergeAtOnce, MaxMergeAtOnceExplicit, SegsPerTier, MaxMergedBytes, FloorBytes, BytesPerDoc,
          FlushSizes, Forced, MaxFlushes, MaxDeletes, MaxForces
VARIABLES service,
          lru, cache, open, listening, phase, job, buffer, position, keys, freqs, uses,
          infos, merges, toMerge, maxNum, forcing, flushes, deletes, forces, names
cacheVars == <<lru, cache, open, listening, phase, job, buffer, position, keys, freqs, uses>>
policyVars == <<infos, merges, toMerge, maxNum, forcing, flushes, deletes, forces, names>>
MergeBytes == <<2, 3, 1, 4>>
Cache == INSTANCE QueryCache
Policy == INSTANCE MergePolicy

Init == /\ SchedulerInit /\ ManagerInit /\ Cache!Init /\ Policy!Init
        /\ service \in {"scheduler", "manager", "cache", "policy"}
Next ==
    \/ service = "scheduler" /\ SchedulerNext /\ UNCHANGED <<service, managerVars, cacheVars, policyVars>>
    \/ service = "manager" /\ ManagerNext /\ UNCHANGED <<service, schedulerVars, cacheVars, policyVars>>
    \/ service = "cache" /\ Cache!Next /\ UNCHANGED <<service, schedulerVars, managerVars, policyVars>>
    \/ service = "policy" /\ Policy!Next /\ UNCHANGED <<service, schedulerVars, managerVars, cacheVars>>
Spec == Init /\ [][Next]_<<service, schedulerVars, managerVars, cacheVars, policyVars>> /\ SchedulerFairness

(* Per-leaf caches only store queries of the bounded LRU set, and nothing of *)
(* a core that is gone; the policy's frequencies count exactly the uses in   *)
(* its ring buffer (query_cache.rs:112-114, cache_policy.rs, IntBag).        *)
CacheExact == Cache!CacheContract /\ Cache!FrequencyExact
(* When force_merge's wait ends, no more segments than asked for are left of *)
(* the ones it found, whatever merges and flushes came between; merges never *)
(* share a segment and never grow beyond the maximum (merge_policy.rs).      *)
MergesExact == Policy!MergesExact
=============================================================================
