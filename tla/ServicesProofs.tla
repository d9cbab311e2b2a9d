--------------------------- MODULE ServicesProofs ---------------------------
(***************************************************************************)
(* The searcher manager and the merge scheduler, for any number of threads,*)
(* versions of the index, calls of close, merges and callers.              *)
(*                                                                         *)
(* RefreshSeen is not inductive: a swap installs whatever its thread read  *)
(* earlier.  What makes it safe is that refresh_lock spans the whole of    *)
(* _do_maybe_refresh: nobody else changes current meanwhile but close, so  *)
(* that the reference about to be swapped in is at least as new as the one *)
(* it replaces and as anything a refresh that has returned asked for.      *)
(*                                                                         *)
(* MergesBounded: the bound on the merges that run at once follows from    *)
(* what maybe_stall counted when the last one was spawned; the bound on    *)
(* the big ones that write at full speed from how update_merge_threads     *)
(* ranks them, and from the rates being set anew whenever merge_tasks      *)
(* changes.                                                                *)
(***************************************************************************)
EXTENDS SearcherManager, MergeScheduler, FiniteSetTheorems, WellOrder

-----------------------------------------------------------------------------
(* The searcher manager. *)

Stages == {"idle", "lock", "acquire", "refresh", "swap", "read", "holds"}

\* The type of the state.
ManagerTypeOK ==
    /\ version \in Nat /\ current \in Nat
    /\ refreshLock \in Refreshers \union {Nobody}
    /\ stage \in [Clients -> Stages] /\ ref \in [Clients -> Nat]
    /\ asked \in [Refreshers -> Nat]
    /\ result \in [Refreshers -> {"none", "done", "busy", "error"}]
    /\ closes \in Nat /\ closed \in BOOLEAN

\* refresh_lock is held exactly by the thread inside _do_maybe_refresh.
LockHeld ==
    \A t \in Refreshers : stage[t] \in {"acquire", "refresh", "swap"} <=> refreshLock = t

\* Nothing comes from the future.
NothingNewer ==
    /\ current <= version
    /\ \A t \in Refreshers : asked[t] <= version

\* A refresh of u has returned Ok(true), and u has asked for no other since.
Refreshed(u) == stage[u] \in {"idle", "read", "holds"} /\ result[u] = "done"

\* The thread inside works with the current reference, unless the manager was closed, and is
\* about to install one that no refresh that has returned would miss.
RefreshSafe ==
    \A t \in Refreshers :
        /\ stage[t] = "refresh" /\ current # Closed => ref[t] = current
        /\ stage[t] = "swap" => /\ ref[t] >= asked[t] /\ ref[t] <= version
                               /\ \A u \in Refreshers : Refreshed(u) => ref[t] >= asked[u]

\* RefreshSeen, also for a thread that acquires searchers between its refreshes.
RefreshedSeen == \A u \in Refreshers : Refreshed(u) /\ current # Closed => current >= asked[u]

ManagerInv == ManagerTypeOK /\ LockHeld /\ NothingNewer /\ RefreshSafe /\ RefreshedSeen

\* It holds when the manager is made: the lock is free and nobody has asked for anything.
LEMMA ManagerInitInv == ManagerInit => ManagerInv
<1> SUFFICES ASSUME ManagerInit PROVE ManagerInv
  OBVIOUS
<1>1. ManagerTypeOK
  BY DEF ManagerInit, ManagerTypeOK, Stages, Clients, Closed
<1>2. \A t \in Refreshers : stage[t] = "idle" /\ refreshLock # t /\ result[t] = "none" /\ asked[t] = 0
  BY ManagerAssumption DEF ManagerInit, Clients
<1>3. LockHeld /\ RefreshSafe /\ RefreshedSeen
  BY <1>2 DEF LockHeld, RefreshSafe, RefreshedSeen, Refreshed
<1>4. NothingNewer
  BY <1>2 DEF ManagerInit, NothingNewer
<1> QED
  BY <1>1, <1>3, <1>4 DEF ManagerInv

\* The type is kept by every step.
LEMMA ManagerTypeStep == ManagerTypeOK /\ [ManagerNext]_managerVars => ManagerTypeOK'
<1> SUFFICES ASSUME ManagerTypeOK, [ManagerNext]_managerVars PROVE ManagerTypeOK'
  OBVIOUS
<1> USE DEF ManagerTypeOK, Stages, Clients, Closed, MoveTo, Return
<1>1. CASE Change
  BY <1>1 DEF Change
<1>2. CASE Close
  BY <1>2 DEF Close
<1>3. ASSUME NEW t \in Refreshers, MaybeRefresh(t) PROVE ManagerTypeOK'
  BY <1>3 DEF MaybeRefresh
<1>4. ASSUME NEW t \in Refreshers, MaybeRefreshBlocking(t) PROVE ManagerTypeOK'
  BY <1>4 DEF MaybeRefreshBlocking
<1>5. ASSUME NEW t \in Refreshers, Lock(t) PROVE ManagerTypeOK'
  BY <1>5 DEF Lock
<1>6. ASSUME NEW t \in Refreshers, Acquire(t) PROVE ManagerTypeOK'
  BY <1>6 DEF Acquire
<1>7. ASSUME NEW t \in Refreshers, SwapReference(t) PROVE ManagerTypeOK'
  BY <1>7 DEF SwapReference
<1>8. ASSUME NEW t \in Refreshers, NEW ok \in BOOLEAN, Refresh(t, ok) PROVE ManagerTypeOK'
  BY <1>8 DEF Refresh
<1>9. ASSUME NEW u \in Users, ReadCurrent(u) \/ CloneReference(u) \/ Release(u) PROVE ManagerTypeOK'
  BY <1>9 DEF ReadCurrent, CloneReference, Release
<1>10. CASE UNCHANGED managerVars
  BY <1>10 DEF managerVars
<1> QED
  BY <1>1, <1>2, <1>3, <1>4, <1>5, <1>6, <1>7, <1>8, <1>9, <1>10 DEF ManagerNext, RefreshStep

\* So is the rest of the invariant.
LEMMA ManagerInvStep == ManagerInv /\ [ManagerNext]_managerVars => ManagerInv'
<1> SUFFICES ASSUME ManagerInv, [ManagerNext]_managerVars PROVE ManagerInv'
  OBVIOUS
<1>a. ManagerTypeOK /\ ManagerTypeOK' /\ LockHeld /\ NothingNewer /\ RefreshSafe /\ RefreshedSeen
  BY ManagerTypeStep DEF ManagerInv
<1> USE <1>a, ManagerAssumption DEF ManagerTypeOK, Stages, Clients, Closed, MoveTo, Return
<1> DEFINE Rest == LockHeld /\ NothingNewer /\ RefreshSafe /\ RefreshedSeen
<1> USE DEF LockHeld, NothingNewer, RefreshSafe, RefreshedSeen, Refreshed
<1>1. CASE Change
  BY <1>1 DEF Change, ManagerInv
<1>2. CASE Close
  BY <1>2 DEF Close, ManagerInv
<1>3. ASSUME NEW t \in Refreshers, MaybeRefresh(t) PROVE Rest'
  BY <1>3 DEF MaybeRefresh, LockFree
<1>4. ASSUME NEW t \in Refreshers, MaybeRefreshBlocking(t) PROVE Rest'
  BY <1>4 DEF MaybeRefreshBlocking
<1>5. ASSUME NEW t \in Refreshers, Lock(t) PROVE Rest'
  BY <1>5 DEF Lock, LockFree
<1>6. ASSUME NEW t \in Refreshers, Acquire(t) PROVE Rest'
  BY <1>6 DEF Acquire
<1>7. ASSUME NEW t \in Refreshers, SwapReference(t) PROVE Rest'
  BY <1>7 DEF SwapReference
<1>8. ASSUME NEW t \in Refreshers, NEW ok \in BOOLEAN, Refresh(t, ok) PROVE Rest'
  BY <1>8 DEF Refresh
<1>9. ASSUME NEW u \in Users, ReadCurrent(u) \/ CloneReference(u) \/ Release(u) PROVE Rest'
  BY <1>9 DEF ReadCurrent, CloneReference, Release
<1>10. CASE UNCHANGED managerVars
  BY <1>10 DEF managerVars, ManagerInv
<1> QED
  BY <1>1, <1>2, <1>3, <1>4, <1>5, <1>6, <1>7, <1>8, <1>9, <1>10 DEF ManagerNext, RefreshStep, ManagerInv

\* A searcher acquired after a refresh returned has every change made before that refresh was
\* asked for, whatever other threads refresh, acquire or close meanwhile (maybe_refresh,
\* maybe_refresh_blocking, refresh_lock).
THEOREM RefreshSeenCorrect == ManagerSpec => []RefreshSeen
<1>1. ManagerInv => RefreshSeen
  BY DEF ManagerInv, RefreshedSeen, RefreshSeen, Refreshed
<1> QED
  BY <1>1, ManagerInitInv, ManagerInvStep, PTL DEF ManagerSpec

\* A thread is inside _do_maybe_refresh.
Inside(t) == stage[t] \in {"acquire", "refresh", "swap"}
OneInside == \A t, u \in Refreshers : Inside(t) /\ Inside(u) => t = u
\* Refreshes exclude one another, whichever of the two calls they came by.
THEOREM OneRefresh == ManagerSpec => []OneInside
<1>1. ManagerInv => OneInside
  BY DEF ManagerInv, LockHeld, OneInside, Inside
<1> QED
  BY <1>1, ManagerInitInv, ManagerInvStep, PTL DEF ManagerSpec

-----------------------------------------------------------------------------
(* The merge scheduler. *)

Places == {"idle", "none", "enter", "stall", "wait", "merge", "drain"}

\* The type of the state, as far as the bound depends on it.
SchedulerTypeOK ==
    /\ registered \in 0 .. Len(Size) /\ pending \in Seq(Merges)
    /\ tasks \subseteq Merges /\ aborted \subseteq Merges
    /\ pc \in [SchedulerThreads -> Places]

\* Every merge that runs is a task, the rates are those of the tasks there are, and no more
\* merges run than max_merge_count allows.
SchedulerInv ==
    /\ SchedulerTypeOK
    /\ Running \subseteq tasks
    /\ paused = Paused(tasks)
    /\ Cardinality(Running \ aborted) <= MaxMergeCount

\* Merges are finitely many.
LEMMA MergesFinite == \A S \in SUBSET Merges : IsFiniteSet(S) /\ Cardinality(S) \in Nat
<1>1. IsFiniteSet(Merges)
  <2>1. Len(Size) \in Nat
    BY SchedulerAssumption
  <2> QED
    BY <2>1, FS_Interval DEF Merges
<1> QED
  BY <1>1, FS_Subset, FS_CardinalityType

\* The big tasks, and the tasks that update_merge_threads ranks above m.
Big(ts) == {m \in ts : Size[m] > BigMerge}
Above(ts, m) == {n \in ts : Size[n] > Size[m] \/ (Size[n] = Size[m] /\ n < m)}
Unpaused(ts) == {m \in ts : Size[m] > BigMerge /\ m \notin Paused(ts)}

\* The rank orders the tasks: above a task that is above u there are fewer than above u.
LEMMA AboveOrders ==
    ASSUME NEW ts \in SUBSET Merges, NEW u \in ts, NEW n \in Above(ts, u)
    PROVE  Cardinality(Above(ts, n)) < Cardinality(Above(ts, u))
<1>1. \A m \in ts : m \in Nat /\ Size[m] \in Nat
  BY SchedulerAssumption DEF Merges
<1>2. Above(ts, n) \subseteq Above(ts, u)
  BY <1>1 DEF Above
<1>3. n \notin Above(ts, n)
  BY <1>1 DEF Above
<1>4. Above(ts, u) \in SUBSET Merges /\ Above(ts, n) \in SUBSET Merges
  BY DEF Above
<1> HIDE DEF Above
<1>5. IsFiniteSet(Above(ts, u)) /\ Cardinality(Above(ts, u)) \in Nat /\ Cardinality(Above(ts, n)) \in Nat
  BY <1>4, MergesFinite
<1>6. /\ Cardinality(Above(ts, n)) <= Cardinality(Above(ts, u))
      /\ Cardinality(Above(ts, u)) = Cardinality(Above(ts, n)) => Above(ts, u) = Above(ts, n)
  BY <1>2, <1>5, FS_Subset
<1>7. Above(ts, u) # Above(ts, n)
  BY <1>3
<1> QED
  BY <1>5, <1>6, <1>7

\* update_merge_threads: of any set of tasks at most max_thread_count big ones are left unpaused.
LEMMA BigBounded ==
    ASSUME NEW ts \in SUBSET Merges
    PROVE  Cardinality(Unpaused(ts)) <= MaxThreadCount
<1>1. BigMerge \in Nat /\ MaxThreadCount \in Nat /\ \A m \in ts : m \in Nat /\ Size[m] \in Nat
  BY SchedulerAssumption DEF Merges
<1>2. /\ Big(ts) \in SUBSET Merges /\ Unpaused(ts) \in SUBSET Big(ts) /\ Unpaused(ts) \in SUBSET Merges
      /\ \A m : Above(ts, m) \in SUBSET Merges
  BY DEF Big, Unpaused, Above
<1>3. /\ IsFiniteSet(Big(ts)) /\ Cardinality(Big(ts)) \in Nat
      /\ IsFiniteSet(Unpaused(ts)) /\ Cardinality(Unpaused(ts)) \in Nat
      /\ \A m : IsFiniteSet(Above(ts, m)) /\ Cardinality(Above(ts, m)) \in Nat
  BY <1>2, MergesFinite
<1>4. Paused(ts) = {m \in ts : Cardinality(Above(ts, m)) + MaxThreadCount < Cardinality(Big(ts))}
  BY DEF Paused, Above, Big
<1>5. \A m \in Unpaused(ts) : Cardinality(Above(ts, m)) + MaxThreadCount >= Cardinality(Big(ts))
  BY <1>1, <1>3, <1>4 DEF Unpaused
<1>6. CASE Unpaused(ts) = {}
  BY <1>1, <1>6, FS_EmptySet
<1>7. CASE Unpaused(ts) # {}
  <2> DEFINE ranks == {Cardinality(Above(ts, m)) : m \in Unpaused(ts)}
  <2>1. ranks \in SUBSET Nat /\ ranks # {}
    BY <1>3, <1>7
  <2>2. PICK r \in ranks : \A x \in ranks : r <= x
    <3> HIDE DEF ranks
    <3> QED
      BY <2>1, LeastNat
  <2>3. PICK u \in Unpaused(ts) : r = Cardinality(Above(ts, u))
    OBVIOUS
  <2>4. ASSUME NEW n \in Above(ts, u) PROVE n \notin Unpaused(ts)
    <3>1. u \in ts
      BY DEF Unpaused
    <3>2. Cardinality(Above(ts, n)) < Cardinality(Above(ts, u))
      BY <3>1, AboveOrders
    <3>3. n \in Unpaused(ts) => Cardinality(Above(ts, u)) <= Cardinality(Above(ts, n))
      BY <2>2, <2>3
    <3> QED
      BY <3>2, <3>3, <1>3
  <2>5. Above(ts, u) \subseteq Big(ts)
    BY <1>1 DEF Above, Big, Unpaused
  <2>6. Unpaused(ts) \subseteq Big(ts) \ Above(ts, u)
    BY <2>4, <1>2
  <2>7. /\ IsFiniteSet(Big(ts) \ Above(ts, u))
        /\ Cardinality(Big(ts) \ Above(ts, u)) = Cardinality(Big(ts)) - Cardinality(Above(ts, u))
    <3>1. Big(ts) \cap Above(ts, u) = Above(ts, u)
      BY <2>5
    <3> QED
      BY <3>1, <1>3, FS_Difference
  <2>8. Cardinality(Unpaused(ts)) <= Cardinality(Big(ts) \ Above(ts, u))
    BY <2>6, <2>7, FS_Subset
  <2> QED
    BY <1>1, <1>3, <1>5, <2>7, <2>8
<1> QED
  BY <1>6, <1>7

\* With fewer merges counted than max_merge_count, one more may be spawned.
LEMMA SpawnBounded ==
    ASSUME SchedulerInv, NEW t \in SchedulerThreads, Spawn(t)
    PROVE  Cardinality(Running' \ aborted') <= MaxMergeCount
<1> DEFINE h == Head(pending)
           counted == {m \in tasks : m # t /\ pc[m] # "none" /\ m \notin aborted}
<1>1. h \in Merges /\ pending # <<>>
  BY DEF SchedulerInv, SchedulerTypeOK, Spawn
<1>2. Running \ aborted \subseteq counted /\ counted \in SUBSET Merges
  BY DEF SchedulerInv, SchedulerTypeOK, Running, Spawn
<1>3. Cardinality(counted) < MaxMergeCount
  BY <1>1, <1>2, MergesFinite, SchedulerAssumption DEF Spawn, TooMany, MergeThreadCount
<1>4. Cardinality(Running \ aborted) <= Cardinality(counted)
  BY <1>2, MergesFinite, FS_Subset
<1>5. Running' \ aborted' \subseteq (Running \ aborted) \union {h}
  BY <1>1 DEF Spawn, Goto, Running, SchedulerInv, SchedulerTypeOK, SchedulerThreads
<1>6. (Running \ aborted) \union {h} \in SUBSET Merges /\ Running \ aborted \in SUBSET Merges
  BY <1>1 DEF Running
<1>7. Cardinality((Running \ aborted) \union {h}) <= Cardinality(Running \ aborted) + 1
  BY <1>6, MergesFinite, FS_AddElement
<1>8. Cardinality(Running' \ aborted') <= Cardinality((Running \ aborted) \union {h})
  BY <1>5, <1>6, MergesFinite, FS_Subset
<1>9. Running' \ aborted' \in SUBSET Merges
  BY <1>5, <1>6
<1> QED
  BY <1>2, <1>3, <1>4, <1>6, <1>7, <1>8, <1>9, MergesFinite, SchedulerAssumption

\* A step that starts no merge keeps the bound.
LEMMA FewerBounded ==
    ASSUME SchedulerInv, Running' \ aborted' \subseteq Running \ aborted
    PROVE  Cardinality(Running' \ aborted') <= MaxMergeCount
<1>1. Running \ aborted \in SUBSET Merges /\ Running' \ aborted' \in SUBSET Merges
  BY DEF Running
<1>2. Cardinality(Running' \ aborted') <= Cardinality(Running \ aborted)
  BY <1>1, MergesFinite, FS_Subset
<1> QED
  BY <1>1, <1>2, MergesFinite, SchedulerAssumption DEF SchedulerInv

\* The invariant holds at the start.
LEMMA SchedulerInitInv == SchedulerInit => SchedulerInv
<1> SUFFICES ASSUME SchedulerInit PROVE SchedulerInv
  OBVIOUS
<1>1. SchedulerTypeOK
  BY SchedulerAssumption DEF SchedulerInit, SchedulerTypeOK, SchedulerThreads, Places
<1>2. Running = {}
  BY SchedulerAssumption DEF SchedulerInit, Running, Merges, SchedulerThreads
<1>3. Paused({}) = {}
  BY DEF Paused
<1>4. Cardinality(Running \ aborted) <= MaxMergeCount
  BY <1>2, FS_EmptySet, SchedulerAssumption DEF SchedulerInit
<1> QED
  BY <1>1, <1>2, <1>3, <1>4 DEF SchedulerInv, SchedulerInit

\* Every step keeps it: only Spawn starts a merge, and only Spawn and Drain change the tasks.
LEMMA SchedulerInvStep == SchedulerInv /\ [SchedulerNext]_schedulerVars => SchedulerInv'
<1> SUFFICES ASSUME SchedulerInv, [SchedulerNext]_schedulerVars PROVE SchedulerInv'
  OBVIOUS
<1> USE SchedulerAssumption DEF SchedulerInv, SchedulerTypeOK, Places, SchedulerThreads, Goto
<1> DEFINE Safe == SchedulerTypeOK /\ Running \subseteq tasks /\ paused = Paused(tasks)
<1>0. Len(Size) \in Nat
  BY SchedulerAssumption
<1>1. ASSUME NEW c \in Callers, MaybeMerge(c) PROVE Safe' /\ Running' \ aborted' \subseteq Running \ aborted
  BY <1>0, <1>1 DEF MaybeMerge, Running, Merges
<1>2. ASSUME NEW t \in SchedulerThreads, Enter(t) \/ Stall(t) \/ Wake(t) \/ Leave(t)
      PROVE Safe' /\ Running' \ aborted' \subseteq Running \ aborted
  BY <1>2 DEF Enter, Stall, Wake, Leave, Running
<1>3. ASSUME NEW t \in SchedulerThreads, Spawn(t) PROVE Safe'
  <2>1. Head(pending) \in Merges /\ Tail(pending) \in Seq(Merges)
    BY <1>3 DEF Spawn
  <2> QED
    BY <1>3, <2>1 DEF Spawn, Running
<1>4. ASSUME NEW m \in Merges, NEW ok \in BOOLEAN, NEW more \in BOOLEAN, MergeEnds(m, ok, more)
      PROVE Safe' /\ Running' \ aborted' \subseteq Running \ aborted
  <2>1. registered' \in 0 .. Len(Size) /\ pending' \in Seq(Merges)
    <3>1. CASE registered' = registered + 1 /\ pending' = Append(pending, registered + 1) /\ registered < Len(Size)
      BY <1>0, <3>1 DEF Merges
    <3>2. CASE registered' = registered /\ pending' = pending
      BY <3>2
    <3> QED
      BY <1>4, <3>1, <3>2 DEF MergeEnds
  <2>2. pc' \in [SchedulerThreads -> Places] /\ \A n \in Merges : pc'[n] = "merge" => pc[n] = "merge"
    BY <1>4 DEF MergeEnds
  <2> QED
    BY <1>4, <2>1, <2>2 DEF MergeEnds, Running
<1>5. ASSUME NEW m \in Merges, Drain(m) PROVE Safe' /\ Running' \ aborted' \subseteq Running \ aborted
  BY <1>5 DEF Drain, Running
<1>6. CASE AbortMerges
  <2>1. Safe' /\ Running' \ aborted' \subseteq Running \ aborted
    BY <1>6 DEF AbortMerges, Running
  <2> QED
    BY <2>1, FewerBounded
<1>7. CASE UNCHANGED schedulerVars
  <2>1. Safe' /\ Running' \ aborted' \subseteq Running \ aborted
    BY <1>7 DEF schedulerVars, Running
  <2> QED
    BY <2>1, FewerBounded
<1> QED
  BY <1>1, <1>2, <1>3, <1>4, <1>5, <1>6, <1>7, FewerBounded, SpawnBounded
     DEF SchedulerNext, CallerStep, MergeRuns

\* max_merge_count and max_thread_count are kept whatever the merges, their sizes and the
\* interleaving of callers, merge threads and aborts (maybe_stall, merge_thread_count,
\* update_merge_threads).
THEOREM MergesBoundedCorrect == SchedulerSpec => []MergesBounded
<1>1. SchedulerInv => MergesBounded
  <2> SUFFICES ASSUME SchedulerInv PROVE MergesBounded
    OBVIOUS
  <2>1. tasks \in SUBSET Merges
    BY DEF SchedulerInv, SchedulerTypeOK
  <2>2. Cardinality({m \in tasks : Size[m] > BigMerge /\ m \notin paused}) <= MaxThreadCount
    BY <2>1, BigBounded DEF SchedulerInv, Unpaused
  <2> QED
    BY <2>2 DEF SchedulerInv, MergesBounded
<1> QED
  BY <1>1, SchedulerInitInv, SchedulerInvStep, PTL DEF SchedulerSpec
=============================================================================
