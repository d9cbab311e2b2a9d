------------------------------- MODULE Search -------------------------------
(* DefaultIndexSearcher: a search over the leaves of a reader, one after    *)
(* the other or in slices on a thread pool, into a chain of collectors.     *)
(* What a leaf's scorer gives is its sequence of live hits (see Scorers).   *)
EXTENDS Integers, Sequences, FiniteSets, FiniteSetsExt, SequencesExt
CONSTANTS Indexes,          \* readers: sequences of leaves [max, hits, bad]
          Chains,           \* the collectors to try, in the order they collect
          NumHits,          \* estimated_hits of TopDocsCollector
          PerReader,        \* num_docs_to_collect_per_reader
          MaxDocsPerSlice, MaxSegmentsPerSlice,
          Workers           \* the threads of the pool
VARIABLES leaves, chain, pc,
          slices,           \* slices (or leaves) the caller has still to hand out
          queue, worker,    \* the pool: its queue, and each [st, napped, slice]
          taskCount,
          channel, senders, \* what the leaf collectors sent, and how many are left
          pq, total,        \* the caller's collector
          flags,            \* "early" and "timeout", when a collector stopped early
          late              \* the time is over
vars == <<leaves, chain, pc, slices, queue, worker, taskCount, channel, senders, pq, total, flags, late>>
pool == <<queue, worker, taskCount>>
results == <<channel, senders, pq, total>>

(***************************************************************************)
(* Slices.                                                                 *)
(***************************************************************************)
Ords == DOMAIN leaves
DocBase(o) == FoldLeft(LAMBDA n, leaf : n + leaf.max, 0, SubSeq(leaves, 1, o - 1))
BySize == SortSeq([o \in Ords |-> o], LAMBDA a, b : leaves[a].max < leaves[b].max)
Closed(acc) == [acc EXCEPT !.done = Append(@, SortSeq(acc.ords, <)), !.ords = <<>>, !.docs = 0]
Slice(acc) == IF acc.ords = <<>> THEN acc.done ELSE Closed(acc).done
AddLeaf(acc, o) ==
    LET m == leaves[o].max
        full == acc.docs + m > MaxDocsPerSlice \/ Len(acc.ords) >= MaxSegmentsPerSlice
        a == IF full THEN Closed(acc) ELSE acc
    IN  IF m >= MaxDocsPerSlice THEN [acc EXCEPT !.done = Append(@, <<o>>)]
        ELSE [a EXCEPT !.ords = Append(@, o), !.docs = @ + m]
LeafSlices == Slice(FoldLeft(AddLeaf, [done |-> <<>>, ords |-> <<>>, docs |-> 0], BySize))

(***************************************************************************)
(* Collectors.  collect hands a doc to each collector of the chain; "early" *)
(* refuses the doc after PerReader, "timeout" every doc once it is late:   *)
(* `cut` docs are given before.  The doc refused reaches the collectors    *)
(* before the one that refuses it.                                         *)
(***************************************************************************)
Refuses(c, i, cut) == (c = "early" /\ i > PerReader) \/ (c = "timeout" /\ i > cut)
Stop(hits, cut) == Min({Len(hits) + 1} \cup {i \in DOMAIN hits : \E k \in DOMAIN chain : Refuses(chain[k], i, cut)})
Stopper(hits, cut) == Min({Len(chain) + 1} \cup {k \in DOMAIN chain : Refuses(chain[k], Stop(hits, cut), cut)})
Stopped(hits, cut) == Stop(hits, cut) <= Len(hits)
Main == CHOOSE k \in 0..Len(chain) : IF k = 0 THEN \A j \in DOMAIN chain : chain[j] \notin {"top", "count"}
                                     ELSE chain[k] \in {"top", "count"}
Given(o, cut) ==
    LET hits == leaves[o].hits
        n == Stop(hits, cut) - 1 + IF Stopped(hits, cut) /\ Main < Stopper(hits, cut) THEN 1 ELSE 0
    IN  [i \in 1..n |-> [doc |-> hits[i].doc + DocBase(o), score |-> hits[i].score]]
StopFlag(o, cut) == IF Stopped(leaves[o].hits, cut) THEN {chain[Stopper(leaves[o].hits, cut)]} ELSE {}
\* How many docs a leaf may give before the time is over.
Cuts(o) == IF "timeout" \in Range(chain) THEN (IF late THEN {0} ELSE 0..Len(leaves[o].hits)) ELSE {Len(leaves[o].hits)}
\* The heaps that adding a doc may leave: ties go either way.
AddDoc(heap, d) ==
    LET least == {w \in heap : \A x \in heap : w.score <= x.score}
    IN  IF Cardinality(heap) < NumHits THEN {heap \cup {d}}
        ELSE IF least = {} THEN {heap}
             ELSE {IF w.score < d.score THEN (heap \ {w}) \cup {d} ELSE heap : w \in least}
AddDocs(heap, docs) == FoldLeft(LAMBDA heaps, d : UNION {AddDoc(h, d) : h \in heaps}, {heap}, docs)
IsTop == Main # 0 /\ chain[Main] = "top"
Channelled == Main # 0      \* the other collectors have no channel

(***************************************************************************)
(* The caller.                                                             *)
(***************************************************************************)
Idle == [st |-> "idle", napped |-> FALSE, slice |-> <<>>]
Init ==
    /\ leaves \in Indexes /\ chain \in Chains /\ pc = "start" /\ slices = <<>>
    /\ queue = <<>> /\ worker = [w \in Workers |-> Idle] /\ taskCount = 0
    /\ channel = <<>> /\ senders = 0 /\ pq = {} /\ total = 0 /\ flags = {} /\ late = FALSE
SearchParallel ==
    /\ pc = "start"
    /\ IF Len(LeafSlices) > 1 THEN pc' = "submit" /\ slices' = LeafSlices
       ELSE pc' = "leaf" /\ slices' = [o \in Ords |-> <<o>>]
    /\ UNCHANGED <<leaves, chain, pool, results, flags, late>>
Notified(w) == [worker[w] EXCEPT !.st = "idle"]
Asleep == {w \in Workers : worker[w].st \in {"nap", "wait"}}
\* Mutant: nobody is woken.
Notify_none == worker' = worker
Notify == IF Asleep = {} THEN worker' = worker ELSE \E w \in Asleep : worker' = [worker EXCEPT ![w] = Notified(w)]
Submit ==
    /\ pc = "submit" /\ slices # <<>>
    /\ queue' = Append(queue, Head(slices)) /\ Notify
    /\ senders' = IF Channelled THEN senders + Len(Head(slices)) ELSE senders
    /\ slices' = Tail(slices) /\ pc' = "count"
    /\ UNCHANGED <<leaves, chain, taskCount, channel, pq, total, flags, late>>
\* execute counts the task after the lock is released.
CountTask ==
    /\ pc = "count" /\ pc' = "submit" /\ taskCount' = taskCount + 1
    /\ UNCHANGED <<leaves, chain, slices, queue, worker, results, flags, late>>
Submitted ==
    /\ pc = "submit" /\ slices = <<>> /\ pc' = IF Channelled THEN "receive" ELSE "done"
    /\ UNCHANGED <<leaves, chain, slices, pool, results, flags, late>>
Receive ==
    /\ pc = "receive" /\ channel # <<>> /\ channel' = Tail(channel)
    /\ LET m == Head(channel)
       IN  /\ total' = total + m.total + Len(m.docs)
           /\ pq' \in AddDocs(pq, m.docs)
    /\ UNCHANGED <<leaves, chain, pc, slices, pool, senders, flags, late>>
\* Mutant: the channel is read only as far as it is filled.
FinishParallel_early ==
    /\ pc = "receive" /\ channel = <<>> /\ pc' = "done"
    /\ UNCHANGED <<leaves, chain, slices, pool, results, flags, late>>
FinishParallel ==
    /\ pc = "receive" /\ channel = <<>> /\ senders = 0 /\ pc' = "done"
    /\ UNCHANGED <<leaves, chain, slices, pool, results, flags, late>>
\* search: one leaf.  A timeout ends the search, an error is returned.
SearchLeaf ==
    /\ pc = "leaf" /\ slices # <<>>
    /\ LET o == Head(slices)[1]
       IN  \E cut \in Cuts(o) :
               /\ total' = total + Len(Given(o, cut))
               /\ IF IsTop THEN pq' \in AddDocs(pq, Given(o, cut)) ELSE pq' = pq
               /\ flags' = flags \cup StopFlag(o, cut)
               /\ late' = (late \/ cut < Len(leaves[o].hits))
               /\ slices' = IF "timeout" \in StopFlag(o, cut) THEN <<>> ELSE Tail(slices)
               /\ pc' = IF leaves[o].bad THEN "failed" ELSE pc
    /\ UNCHANGED <<leaves, chain, pool, channel, senders>>
Searched ==
    /\ pc = "leaf" /\ slices = <<>> /\ pc' = "done"
    /\ UNCHANGED <<leaves, chain, slices, pool, results, flags, late>>

(***************************************************************************)
(* The workers.                                                            *)
(***************************************************************************)
Fetch(w) ==
    /\ worker[w].st = "idle" /\ queue # <<>>
    /\ worker' = [worker EXCEPT ![w] = [@ EXCEPT !.st = "run", !.slice = Head(queue)]]
    /\ queue' = Tail(queue)
    /\ UNCHANGED <<leaves, chain, pc, slices, taskCount, results, flags, late>>
Sleep(w) ==
    /\ worker[w].st = "idle" /\ queue = <<>>
    /\ worker' = [worker EXCEPT ![w] = [@ EXCEPT !.st = IF worker[w].napped THEN "wait" ELSE "nap", !.napped = TRUE]]
    /\ UNCHANGED <<leaves, chain, pc, slices, queue, taskCount, results, flags, late>>
NapOver(w) ==
    /\ worker[w].st = "nap" /\ worker' = [worker EXCEPT ![w] = Notified(w)]
    /\ UNCHANGED <<leaves, chain, pc, slices, queue, taskCount, results, flags, late>>
\* One leaf of a slice: do_search, finish_leaf, and the leaf collector is dropped.
SearchInSlice(w) ==
    /\ worker[w].st = "run" /\ worker[w].slice # <<>>
    /\ LET o == Head(worker[w].slice)
           rest == IF leaves[o].bad THEN <<>> ELSE Tail(worker[w].slice)
       IN  \E cut \in Cuts(o) :
               LET docs == Given(o, cut)
               IN  /\ worker' = [worker EXCEPT ![w].slice = rest]
                   \* The docs go out in the order of the heap's array: any order.
                   /\ IF Channelled /\ leaves[o].hits # <<>>
                      THEN \E heap \in AddDocs({}, docs) :
                               channel' = Append(channel, [total |-> Len(docs), docs |-> IF IsTop THEN SetToSeq(heap) ELSE <<>>])
                      ELSE channel' = channel
                   /\ senders' = IF Channelled THEN senders - (Len(worker[w].slice) - Len(rest)) ELSE senders
                   /\ flags' = flags \cup StopFlag(o, cut)
                   /\ late' = (late \/ cut < Len(leaves[o].hits))
    /\ UNCHANGED <<leaves, chain, pc, slices, queue, taskCount, pq, total>>
TaskDone(w) ==
    /\ worker[w].st = "run" /\ worker[w].slice = <<>>
    /\ worker' = [worker EXCEPT ![w] = Idle] /\ taskCount' = taskCount - 1
    /\ UNCHANGED <<leaves, chain, pc, slices, queue, results, flags, late>>
Caller == SearchParallel \/ Submit \/ CountTask \/ Submitted \/ Receive \/ FinishParallel \/ SearchLeaf \/ Searched
Work(w) == Fetch(w) \/ SearchInSlice(w) \/ TaskDone(w)
Next == Caller \/ \E w \in Workers : Work(w) \/ Sleep(w) \/ NapOver(w)
Fairness == WF_vars(Caller) /\ \A w \in Workers : WF_vars(Work(w))
Spec == Init /\ [][Next]_vars /\ Fairness

(***************************************************************************)
(* Properties.                                                             *)
(***************************************************************************)
AllHits == UNION {{[doc |-> leaves[o].hits[i].doc + DocBase(o), score |-> leaves[o].hits[i].score]
                      : i \in DOMAIN leaves[o].hits} : o \in Ords}
\* The hits no collector was told to leave out.
Wanted == UNION {{Given(o, Len(leaves[o].hits))[i] : i \in DOMAIN Given(o, Len(leaves[o].hits))} : o \in Ords}
TopOf(S) == {h \in S : Cardinality({x \in S : x.score > h.score}) < NumHits}
(* However the slices run and whatever order the leaf collectors answer    *)
(* in, a search that returns and did not stop for the time has the NumHits *)
(* best docs (or their number), and no leaf is still being searched with   *)
(* its weight, which is freed on return.                                   *)
SearchExact ==
    /\ Len(LeafSlices) > 0 =>
           \A o \in Ords : Cardinality({<<i, j>> \in (DOMAIN LeafSlices) \X Ords :
                                            j \in DOMAIN LeafSlices[i] /\ LeafSlices[i][j] = o}) = 1
    /\ pc = "done" /\ "timeout" \notin flags /\ Main # 0 =>
           IF IsTop THEN /\ pq \subseteq TopOf(Wanted) /\ Cardinality(pq) = Min({NumHits, Cardinality(Wanted)})
                         /\ \A h \in Wanted \ pq, x \in pq : h.score <= x.score
           ELSE total = Cardinality(Wanted)
    /\ pc = "done" /\ Channelled => \A w \in Workers : worker[w].slice = <<>>
    /\ Wanted # AllHits /\ pc = "done" => flags # {}
\* Every search returns.
SearchEnds == <>(pc \in {"done", "failed"})
(* total_hits is the number of docs collected: violated, finish_parallel   *)
(* adds a leaf's total and then counts each of its docs again.             *)
TotalHitsExact == pc = "done" /\ flags = {} /\ IsTop => total = Cardinality(AllHits)
(* The weight outlives the tasks that use it: violated by a chain without  *)
(* a channel, whose finish_parallel does not wait.                         *)
WeightAlive == pc = "done" => \A w \in Workers : worker[w].slice = <<>>
(* A search that returns Ok without a flag is complete: violated in        *)
(* parallel, where the error of a leaf is only logged.                     *)
ErrorsReported == pc = "done" /\ flags = {} => \A o \in Ords : ~leaves[o].bad
\* task_count is never below zero: violated, a task may end before it is counted.
TaskCountSound == taskCount >= 0
=============================================================================
