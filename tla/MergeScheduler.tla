--------------------------- MODULE MergeScheduler ---------------------------
(***************************************************************************)
(* ConcurrentMergeScheduler (index/merge/merge_scheduler.rs): the threads  *)
(* that run merges, the stalling of indexing threads when merges fall      *)
(* behind, and the pausing of big merges through the MergeRateLimiter.     *)
(*                                                                         *)
(* The merges of the writer are numbers; Size gives the estimated bytes of *)
(* each.  `owner` holds the scheduler's lock over a whole call of merge,   *)
(* except while a stalled caller waits on the condition variable.          *)
(***************************************************************************)
EXTENDS Naturals, Sequences, FiniteSets, SequencesExt

CONSTANTS
    Callers,         \* threads that index, commit or close and call maybe_merge
    Size,            \* estimated_merge_bytes of the merges, in the order they are registered
    BigMerge,        \* MIN_BIG_MERGE_MB
    MaxThreadCount,  \* max_thread_count
    MaxMergeCount,   \* max_merge_count
    Aborts           \* bound: calls of abort_merges

ASSUME SchedulerAssumption ==
    /\ Size \in Seq(Nat) /\ BigMerge \in Nat
    /\ MaxThreadCount \in Nat /\ MaxMergeCount \in Nat
    /\ Callers \intersect Nat = {}

VARIABLES
    registered,  \* the merges registered so far are 1 .. registered
    pending,     \* pending_merges of the writer
    tasks,       \* merge_tasks
    paused,      \* tasks whose rate is 0.0
    aborted,     \* merges whose rate limiter is aborted
    pc,          \* where every caller and every merge thread is
    owner,       \* who holds the scheduler's lock
    aborts
schedulerVars == <<registered, pending, tasks, paused, aborted, pc, owner, aborts>>

Merges == 1 .. Len(Size)
Free == 0
SchedulerThreads == Callers \union Merges      \* a merge thread is named after its merge


SchedulerInit ==
    /\ registered = 0 /\ pending = <<>> /\ tasks = {} /\ paused = {} /\ aborted = {}
    /\ pc = [t \in SchedulerThreads |-> IF t \in Callers THEN "idle" ELSE "none"]
    /\ owner = Free /\ aborts = 0

Goto(t, l) == pc' = [pc EXCEPT ![t] = l]

\* merge_thread_count: the other tasks, alive and not aborted.
MergeThreadCount(t) == Cardinality({m \in tasks : m # t /\ pc[m] # "none" /\ m \notin aborted})

\* Mutant: the smallest merges are paused, not the largest.
Paused_smallest(ts) ==
    LET big == {m \in ts : Size[m] > BigMerge}
        below(m) == Cardinality({n \in ts : Size[n] < Size[m] \/ (Size[n] = Size[m] /\ n < m)})
    IN  {m \in ts : below(m) + 1 < Cardinality(big)}
\* update_merge_threads: of the big merges only the max_thread_count smallest go on.
Paused(ts) ==
    LET big == {m \in ts : Size[m] > BigMerge}
        above(m) == Cardinality({n \in ts : Size[n] > Size[m] \/ (Size[n] = Size[m] /\ n < m)})
    IN  {m \in ts : above(m) + MaxThreadCount < Cardinality(big)}

\* maybe_merge: update_pending_merges registers a merge, then the scheduler is called.
MaybeMerge(c) ==
    /\ pc[c] = "idle" /\ registered < Len(Size)
    /\ registered' = registered + 1 /\ pending' = Append(pending, registered + 1)
    /\ Goto(c, "enter")
    /\ UNCHANGED <<tasks, paused, aborted, owner, aborts>>

\* merge, from the lock to maybe_stall.
Enter(t) ==
    /\ pc[t] = "enter" /\ owner = Free
    /\ owner' = t /\ Goto(t, "stall")
    /\ UNCHANGED <<registered, pending, tasks, paused, aborted, aborts>>

TooMany(t) == pending # <<>> /\ MergeThreadCount(t) >= MaxMergeCount
\* Mutant: merge threads stall as any producer does.
NeverStalled_none == {}
NeverStalled == tasks
\* maybe_stall: a merge thread gives up, any other thread waits.
Stall(t) ==
    /\ pc[t] = "stall" /\ owner = t /\ TooMany(t)
    /\ owner' = Free
    /\ Goto(t, IF t \in NeverStalled THEN "drain" ELSE "wait")
    /\ UNCHANGED <<registered, pending, tasks, paused, aborted, aborts>>
\* wait_timeout ends, by notify_all or after 25 ms.
Wake(t) ==
    /\ pc[t] = "wait" /\ owner = Free
    /\ owner' = t /\ Goto(t, "stall")
    /\ UNCHANGED <<registered, pending, tasks, paused, aborted, aborts>>

\* next_merge gives a merge: its thread is spawned, then pushed as a task.
Spawn(t) ==
    /\ pc[t] = "stall" /\ owner = t /\ ~ TooMany(t) /\ pending # <<>>
    /\ pending' = Tail(pending)
    /\ tasks' = tasks \union {Head(pending)}
    /\ paused' = Paused(tasks')
    /\ Goto(Head(pending), "merge")
    /\ UNCHANGED <<registered, aborted, owner, aborts>>
\* next_merge gives none.
Leave(t) ==
    /\ pc[t] = "stall" /\ owner = t /\ pending = <<>>
    /\ owner' = Free
    /\ Goto(t, IF t \in Callers THEN "idle" ELSE "drain")
    /\ UNCHANGED <<registered, pending, tasks, paused, aborted, aborts>>

\* MergeThread::do_merge: IndexWriter::merge ends.  A merge that went well may have registered
\* another one; a failed merge skips the call of the scheduler.  A paused merge writes on
\* only when the pause, a float cast out of its range, comes out as no pause.
MergeEnds(m, ok, more) ==
    /\ pc[m] = "merge"
    /\ m \in aborted => ~ more
    /\ IF more THEN /\ ok /\ registered < Len(Size)
                    /\ registered' = registered + 1 /\ pending' = Append(pending, registered + 1)
               ELSE UNCHANGED <<registered, pending>>
    /\ Goto(m, IF ok THEN "enter" ELSE "drain")
    /\ UNCHANGED <<tasks, paused, aborted, owner, aborts>>

\* MergeThread::merge after do_merge: the task goes, the rates are set anew, waiters wake.
Drain(m) ==
    /\ pc[m] = "drain" /\ owner = Free
    /\ tasks' = tasks \ {m} /\ paused' = Paused(tasks')
    /\ Goto(m, "none")
    /\ UNCHANGED <<registered, pending, aborted, owner, aborts>>

\* abort_merges: nothing is pending any more, and running merges have the flag set.
AbortMerges ==
    /\ aborts < Aborts /\ aborts' = aborts + 1
    /\ pending' = <<>> /\ aborted' = aborted \union {m \in Merges : pc[m] = "merge"}
    /\ UNCHANGED <<registered, tasks, paused, pc, owner>>

\* maybe_pause, which wakes at the latest after 250 ms, holds a merge of rate zero, unless its flag
\* is set: then it ends as MergeAborted (Ok for IndexWriter::merge).
GoesOn(m) == m \notin paused \/ m \in aborted

CallerStep(t) == Enter(t) \/ Stall(t) \/ Wake(t) \/ Spawn(t) \/ Leave(t)
MergeRuns(m) == \E ok, more \in BOOLEAN : MergeEnds(m, ok, more)
SchedulerNext ==
    \/ \E c \in Callers : MaybeMerge(c)
    \/ \E t \in SchedulerThreads : CallerStep(t)
    \/ \E m \in Merges : MergeRuns(m) \/ Drain(m)
    \/ AbortMerges

\* SchedulerThreads that have the processor go on; std's mutex may hand the lock to anyone, so a thread
\* that keeps asking is only sure to get it if it asks again and again.  A paused merge may
\* stay paused for ever, an aborted one ends.
SchedulerFairness ==
    /\ \A c \in Callers : SF_schedulerVars(CallerStep(c))
    /\ \A m \in Merges : /\ SF_schedulerVars(CallerStep(m) \/ Drain(m))
                         /\ WF_schedulerVars(GoesOn(m) /\ MergeRuns(m))
SchedulerSpec == SchedulerInit /\ [][SchedulerNext]_schedulerVars /\ SchedulerFairness

----------------------------------------------------------------------------
(* Properties. *)

Running == {m \in Merges : pc[m] = "merge"}

\* max_merge_count bounds the merges that run at once although a merge thread that starts
\* another one leaves itself out of the count (maybe_stall, merge_thread_count); and of the
\* big ones at most max_thread_count write at full speed (update_merge_threads).
MergesBounded ==
    /\ Cardinality(Running \ aborted) <= MaxMergeCount
    /\ Cardinality({m \in tasks : Size[m] > BigMerge /\ m \notin paused}) <= MaxThreadCount
    /\ Running \subseteq tasks

\* A stalled indexing thread gets away again, and every merge that has started ends: the
\* paused ones too, since each merge that ends sets the rates anew (MergeThread::merge).  The
\* merges of an instance are finitely many, so that in the end nobody stalls or merges.
MergingGoesOn == <>[](\A t \in SchedulerThreads : pc[t] \notin {"wait", "stall", "merge"})

\* "until merging has caught up": every merge registered is started (or aborted) eventually.
PendingStarts == pending # <<>> ~> pending = <<>>
=============================================================================
