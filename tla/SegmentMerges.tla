--------------------------- MODULE SegmentMerges ---------------------------
(***************************************************************************)
(* Merges and the pool of readers they share with deletes and with         *)
(* near-real-time readers: ReaderPool, ReadersAndUpdates, the registration *)
(* of merges and the steps of IndexWriterInner::merge (index_writer.rs).   *)
(*                                                                         *)
(* A document is <<key, n>>.  Packets of buffered updates carry one key:   *)
(* "del" deletes its documents, by a term that no other packet carries (a  *)
(* term in two packets is the subject of UpdateStream, which models the    *)
(* walk over the terms), "upd" gives them a doc value.  The live           *)
(* documents of a segment are bit sets shared by reference: bits[s] is the *)
(* sequence of bit sets made for segment s and a reader names one of them  *)
(* by its index, 0 being "no deletions".  Every action is one critical     *)
(* section of the writer's lock.                                           *)
(***************************************************************************)
EXTENDS Naturals, Sequences, FiniteSets, SequencesExt, TLC

CONSTANTS
    Flushed,      \* the keys of the documents indexed
    Updates,      \* the buffered updates: a set of <<key, "del" or "upd">>
    Segments0,    \* the segments of the opened index: a sequence of sequences of keys
    MergeSizes,   \* how many segments the merge policy merges: a subset of {1, 2}
    Bound,        \* bounds: how often each kind of operation is called
    MaxOps,       \* bound: operations called in all, a merge counting twice
    None,         \* no reader, no live docs
    Faults        \* SUBSET {"merge", "livedocs"}: the I/O that may fail, once

VARIABLES
    infos,        \* SegmentInfos.segments
    seg,          \* SegmentCommitInfo of every segment name handed out
    packets,      \* BufferedUpdatesStream.updates
    nextGen,      \* BufferedUpdatesStream.next_gen
    numUpdates,   \* BufferedUpdatesStream.num_updates
    pool,         \* ReaderPool.reader_map
    bits,         \* the live-docs objects of every segment
    merge,        \* every OneMerge registered
    pending,      \* pending_merges
    running,      \* running_merges
    merging,      \* merging_segments
    stopMerges,   \* stop_merges
    status,       \* who has the writer: open, rollback, delete_all, closed, poisoned
    tragedy,      \* tragedy.is_some()
    numDocs,      \* pending_num_docs
    nrt,          \* the reader opened last, with what it showed when it was opened
    alive,        \* history: the documents of the index that no delete has hit
    value,        \* history: the doc value each document was last given
    used          \* how much of every bound has been used

index  == <<infos, seg, pool, bits, numDocs>>
stream == <<packets, nextGen, numUpdates>>
control == <<merge, pending, running, merging, stopMerges>>
history == <<nrt, alive, value>>
vars == <<index, stream, control, status, tragedy, history, used>>

Ords(s) == 1 .. Len(seg[s].docs)
Live(s, v) == IF v = 0 THEN Ords(s) ELSE bits[s][v]
Working == status \in {"open", "delete_all"}   \* delete_all waits without the lock
Operations == {"packet", "flush", "merge", "reader", "write", "stop", "fault"}
Use(b) ==
    /\ used[b] < Bound[b]
    /\ used' = [used EXCEPT ![b] = @ + 1]
    /\ FoldFunction(+, 0, used') + used'["merge"] <= MaxOps
SegmentInfo(docs, gen) ==
    [docs |-> docs, gen |-> gen, dels |-> 0, disk |-> 1 .. Len(docs), written |-> TRUE,
     dv |-> [i \in 1 .. Len(docs) |-> 0]]
MaxDoc(segs) == FoldSeq(LAMBDA s, n : Len(seg[s].docs) + n, 0, segs)

Init ==
    LET docs == [s \in DOMAIN Segments0 |->
                    [i \in DOMAIN Segments0[s] |-> <<Segments0[s][i], 10 * s + i>>]]
    IN  /\ infos = [s \in DOMAIN docs |-> s]
        /\ seg = [s \in DOMAIN docs |-> SegmentInfo(docs[s], 0)]
        /\ packets = <<>> /\ nextGen = 1 /\ numUpdates = 0
        /\ pool = <<>> /\ bits = [s \in DOMAIN docs |-> <<>>]
        /\ merge = <<>> /\ pending = <<>> /\ running = {} /\ merging = {}
        /\ stopMerges = FALSE /\ status = "open" /\ tragedy = FALSE
        /\ numDocs = MaxDoc(infos)
        /\ nrt = None
        /\ alive = UNION {Range(docs[s]) : s \in DOMAIN docs}
        /\ value = [d \in alive |-> 0]
        /\ used = [b \in Operations |-> 0]

----------------------------------------------------------------------------
(* ReadersAndUpdates: one segment's reader, live docs and pending changes. *)

NewRld == [live |-> None, shared |-> TRUE, pending |-> 0, merging |-> FALSE,
           upds |-> <<>>, reader |-> None]
Pooled(s) == IF s \in DOMAIN pool THEN pool[s] ELSE NewRld

\* create_reader_if_not_exist: the live docs are read from disk when there are deletions.
Opened(s) ==
    LET r == Pooled(s)
        v == IF seg[s].dels = 0 THEN 0 ELSE Len(bits[s]) + 1
    IN  IF r.reader # None THEN [r |-> r, b |-> bits[s]]
        ELSE [r |-> [r EXCEPT !.reader = [ver |-> v, dels |-> seg[s].dels, dv |-> seg[s].dv],
                              !.live = IF @ = None THEN v ELSE @],
              b |-> IF v = 0 THEN bits[s] ELSE Append(bits[s], seg[s].disk)]

\* Mutant: the live docs are written in place.
Writable_inplace(o, all) ==
    IF o.r.live \in {None, 0}
      THEN [r |-> [o.r EXCEPT !.live = Len(o.b) + 1, !.shared = FALSE], b |-> Append(o.b, all)]
      ELSE o
\* init_writable_live_docs: copy on write.
Writable(o, all) ==
    IF o.r.shared
      THEN [r |-> [o.r EXCEPT !.live = Len(o.b) + 1, !.shared = FALSE],
            b |-> Append(o.b, IF o.r.live \in {None, 0} THEN all ELSE o.b[o.r.live])]
      ELSE o

\* delete, for a set of ordinals known to be alive.
Deleted(o, all, dead) ==
    LET w == Writable(o, all)
    IN  IF dead = {} THEN o
        ELSE [r |-> [w.r EXCEPT !.pending = @ + Cardinality(dead)],
              b |-> [w.b EXCEPT ![w.r.live] = @ \ dead]]

\* get_readonly_clone: what the clone shows; the live docs count as shared from now on.
Clone(r, s, dv) == [ver |-> r.live, dels |-> seg[s].dels + r.pending, dv |-> dv]

\* write_field_updates: new doc values on disk and a reader reopened on them.
WithValues(o, s, dv) ==
    [o EXCEPT !.r = [@ EXCEPT !.shared = TRUE, !.reader = Clone(o.r, s, dv)]]

\* drop_merging_updates
DropMergingUpdates(r) == [r EXCEPT !.upds = <<>>, !.merging = FALSE]

----------------------------------------------------------------------------
(* BufferedUpdatesStream::apply_deletes_and_updates over the segments S.   *)

Push(kind, k, v) == Append(packets, [gen |-> nextGen, kind |-> kind, key |-> k, val |-> v])
Packets(s, kind) == SelectSeq(packets, LAMBDA p : p.kind = kind /\ p.gen > seg[s].gen)
AnyUpdates == numUpdates > 0 \/ \E i \in DOMAIN packets : packets[i].kind = "del"
ToApply(S) == AnyUpdates /\ \E s \in S : Packets(s, "del") \o Packets(s, "upd") # <<>>

\* The newest of the updates that names each ordinal's key, deleted documents included.
Updated(s, us) ==
    {i \in Ords(s) : \E j \in DOMAIN us : us[j].key = seg[s].docs[i][1]}
NewValue(s, us, i) ==
    us[CHOOSE j \in DOMAIN us : /\ us[j].key = seg[s].docs[i][1]
                                /\ \A n \in j + 1 .. Len(us) : us[n].key # seg[s].docs[i][1]].val
Values(s, us) == [i \in Ords(s) |-> IF i \in Updated(s, us) THEN NewValue(s, us, i) ELSE seg[s].dv[i]]

\* apply_term_deletes, then apply_doc_values_updates with its write_field_updates.
Applied(s) ==
    LET o == Opened(s)
        dels == {Packets(s, "del")[j].key : j \in DOMAIN Packets(s, "del")}
        cur == IF o.r.live = 0 THEN Ords(s) ELSE o.b[o.r.live]
        d == Deleted(o, Ords(s), {i \in cur : seg[s].docs[i][1] \in dels})
        us == Packets(s, "upd")
        m == IF d.r.merging THEN [d EXCEPT !.r.upds = @ \o us] ELSE d
    IN  IF Updated(s, us) = {} THEN m ELSE WithValues(m, s, Values(s, us))

AllDeleted(S) == {s \in S : seg[s].dels + Applied(s).r.pending = Len(seg[s].docs)}
\* A segment after the call; open: get_reader goes on to clone its reader.
After(s, apply, open) ==
    LET o == IF apply THEN Applied(s) ELSE IF open THEN Opened(s)
             ELSE [r |-> Pooled(s), b |-> bits[s]]
    IN  IF open THEN [o EXCEPT !.r.shared = TRUE] ELSE o
\* The segments S after the call and after the segments Gone are dropped; fresh: new names.
ApplyTo(S, Gone, open, fresh) ==
    LET apply == ToApply(S)
        touched == DOMAIN pool \union (IF open \/ apply THEN S ELSE {})
        after == [s \in S |-> After(s, apply, open)]
    IN  /\ nextGen' = nextGen + 1
        /\ numDocs' = numDocs - MaxDoc(SetToSeq(Gone))
        /\ infos' = SelectSeq(infos, LAMBDA s : s \notin Gone)
        /\ pool' = [s \in touched \ Gone |-> IF s \in S THEN after[s].r ELSE pool[s]]
        /\ bits' = [s \in DOMAIN bits |-> IF s \in S THEN after[s].b ELSE bits[s]]
                      \o [i \in DOMAIN fresh |-> <<>>]
        /\ seg' = [s \in DOMAIN seg |->
                      IF s \in S /\ apply
                        THEN [seg[s] EXCEPT !.gen = nextGen, !.dv = Values(s, Packets(s, "upd"))]
                        ELSE seg[s]] \o fresh
        \* num_updates is cleared unless the early return "no updates" was taken
        /\ numUpdates' = IF AnyUpdates THEN 0 ELSE numUpdates
\* prune: the packets older than every segment of the index go.
Prune == packets' = SelectSeq(packets, LAMBDA p : \E i \in DOMAIN infos' : seg'[infos'[i]].gen <= p.gen)

\* apply_all_deletes_and_update: a 100% deleted segment stays while a merge holds it.
DropNow == IF ToApply(Range(infos)) THEN AllDeleted(Range(infos)) \ merging ELSE {}
ApplyAllDeletesAndUpdates(open) == ApplyTo(Range(infos), DropNow, open, <<>>) /\ Prune

----------------------------------------------------------------------------
(* Indexing, readers and commits. *)

\* publish_frozen_updates: a delete or a doc-values update of every document of key k.
PublishFrozenUpdates(k, kind) ==
    /\ Working /\ Use("packet")
    /\ LET hit == {d \in alive : d[1] = k}
       IN  IF kind = "del" THEN alive' = alive \ hit /\ UNCHANGED value
           ELSE /\ value' = [d \in DOMAIN value |-> IF d \in hit THEN used["packet"] + 1 ELSE value[d]]
                /\ UNCHANGED alive
    /\ packets' = Push(kind, k, used["packet"] + 1)
    /\ nextGen' = nextGen + 1
    /\ numUpdates' = IF kind = "upd" THEN numUpdates + 1 ELSE numUpdates
    /\ UNCHANGED <<index, control, status, tragedy, nrt>>

\* publish_flushed_segment: a segment of one new document of key k.
PublishFlushedSegment(k) ==
    LET d == <<k, used["flush"]>>
    IN  /\ Working /\ Use("flush")
        /\ seg' = Append(seg, SegmentInfo(<<d>>, nextGen))
        /\ bits' = Append(bits, <<>>)
        /\ infos' = Append(infos, Len(seg) + 1)
        /\ nextGen' = nextGen + 1 /\ numDocs' = numDocs + 1
        /\ alive' = alive \union {d}
        /\ value' = [e \in DOMAIN value \union {d} |-> IF e = d THEN 0 ELSE value[e]]
        /\ UNCHANGED <<pool, packets, numUpdates, control, status, tragedy, nrt>>

\* maybe_apply_deletes(true), from flush, commit or an event; without the call that finds
\* nothing and only advances next_gen.
ApplyDeletes ==
    /\ Working /\ AnyUpdates
    /\ ApplyAllDeletesAndUpdates(FALSE)
    /\ UNCHANGED <<control, status, tragedy, history, used>>

\* flush_and_open and open_by_writer: deletes applied, then a clone of every reader;
\* a segment without live documents is left out.
GetReader ==
    /\ status = "open" /\ Use("reader")
    /\ ApplyAllDeletesAndUpdates(TRUE)
    /\ LET clone(s) == Clone(pool'[s], s, pool'[s].reader.dv)
       IN  nrt' = [segs |-> [s \in {t \in Range(infos') : clone(t).dels < Len(seg[t].docs)} |->
                                clone(s)],
                   showed |-> alive]
    /\ UNCHANGED <<control, status, tragedy, alive, value>>

\* Mutant: the pending deletes are written and still counted as pending.
WriteLiveDocs_again(s, ok) ==
    /\ Working /\ s \in DOMAIN pool /\ s \in Range(infos) /\ pool[s].pending > 0 /\ ok /\ Use("write")
    /\ seg' = [seg EXCEPT ![s].dels = @ + pool[s].pending, ![s].disk = Live(s, pool[s].live)]
    /\ UNCHANGED <<infos, pool, bits, numDocs, stream, control, status, tragedy, history>>
\* write_live_docs of one segment (ReaderPool::commit): on an error the generation and the
\* count of deletions advance all the same.
WriteLiveDocs(s, ok) ==
    /\ Working /\ s \in DOMAIN pool /\ s \in Range(infos) /\ pool[s].pending > 0
    /\ IF ok THEN Use("write") ELSE "livedocs" \in Faults /\ Use("fault")
    /\ seg' = [seg EXCEPT ![s].dels = @ + pool[s].pending,
                          ![s].written = ok,
                          ![s].disk = IF ok THEN Live(s, pool[s].live) ELSE @]
    /\ pool' = [pool EXCEPT ![s].pending = 0]
    /\ UNCHANGED <<infos, bits, numDocs, stream, control, status, tragedy, history>>

----------------------------------------------------------------------------
(* Registering merges. *)

NewMerge(S, forced) ==
    [segs |-> S, total |-> MaxDoc(S), pc |-> "pending", aborted |-> FALSE,
     info |-> 0, readers |-> <<>>, registered |-> TRUE, forced |-> forced]

\* Mutant: a segment may be in two merges.
CanRegister_twice(S) == Range(S) \subseteq Range(infos)
\* register_merge: no segment is already merging, all of them are in the index.
CanRegister(S) == Range(S) \intersect merging = {} /\ Range(S) \subseteq Range(infos)
Register(S, forced, mg, pd) ==
    /\ merge' = Append(mg, NewMerge(S, forced))
    /\ pending' = Append(pd, Len(mg) + 1)
    /\ merging' = merging \union Range(S)

\* maybe_merge and update_pending_merges; the merge policy's choice is free.
MergeChoices ==
    {S \in {<<s>> : s \in Range(infos)} \union {<<infos[i], infos[j]>> : i, j \in DOMAIN infos} :
        Len(S) \in MergeSizes /\ (Len(S) = 2 => S[1] < S[2])}
MaybeMerge(S) ==
    /\ status = "open" /\ ~ stopMerges /\ ~ tragedy
    /\ Use("merge")
    /\ CanRegister(S)
    /\ Register(S, FALSE, merge, pending)
    /\ UNCHANGED <<index, stream, running, stopMerges, status, tragedy, history>>

\* force_merge: every pending and running merge is marked, whose info is unwrapped under the
\* lock; it is None until merge_init, and running_merges keeps the None of next_merge.
ForceMerge(S) ==
    /\ status = "open" /\ Use("stop")
    /\ IF pending # <<>> \/ running # {}
         THEN status' = "poisoned" /\ UNCHANGED control
         ELSE /\ UNCHANGED <<running, stopMerges, status>>
              /\ IF CanRegister(S) /\ ~ stopMerges /\ ~ tragedy
                   THEN Register(S, TRUE, merge, pending)
                   ELSE UNCHANGED <<merge, pending, merging>>
    /\ UNCHANGED <<index, stream, tragedy, history>>

\* next_merge: pending_merges.pop_front, running_merges.insert.
NextMerge ==
    /\ pending # <<>> /\ status # "poisoned"
    /\ pending' = Tail(pending)
    /\ running' = running \union {Head(pending)}
    /\ merge' = [merge EXCEPT ![Head(pending)].pc = "init"]
    /\ UNCHANGED <<index, stream, merging, stopMerges, status, tragedy, history, used>>

----------------------------------------------------------------------------
(* The steps of one merge: IndexWriterInner::do_merge. *)

At(m, pc) == m \in running /\ merge[m].pc = pc /\ status # "poisoned"
Go(m, pc) == merge' = [merge EXCEPT ![m].pc = pc]
Without(f, S) == [x \in DOMAIN f \ S |-> f[x]]

\* merge_init: deletes are applied to the segments of the merge, the 100% deleted ones leave
\* the index and the merge, and the merged segment gets its name.
MergeInit(m) ==
    LET S == Range(merge[m].segs)
        gone == IF ToApply(S) THEN AllDeleted(S) ELSE {}
    IN  /\ At(m, "init")
        /\ IF tragedy \/ merge[m].aborted
             THEN Go(m, IF tragedy THEN "error" ELSE "aborted") /\ UNCHANGED <<index, stream, merging>>
             ELSE LET segs == SelectSeq(merge[m].segs, LAMBDA s : s \notin gone)
                  IN  /\ merge' = [merge EXCEPT ![m].pc = "pull", ![m].segs = segs,
                                                ![m].info = Len(seg) + 1]
                      /\ merging' = merging \ gone
                      /\ ApplyTo(S, gone, FALSE, <<SegmentInfo(<<>>, 0)>>)
                      /\ Prune
        /\ UNCHANGED <<pending, running, stopMerges, status, tragedy, history, used>>

\* A pooled reader older than the newest deletes is rebuilt on the newest live docs.
MergeReader(r, s) ==
    IF r.reader.dels # r.pending + seg[s].dels
      THEN [ver |-> r.live, dv |-> r.reader.dv]
      ELSE [ver |-> r.reader.ver, dv |-> r.reader.dv]
\* do_merge_middle, the loop over segments: pull the newest live docs and the reader of the
\* next one (get_or_create, reader_for_merge, readonly_live_docs).
PullReader(m) ==
    LET s == merge[m].segs[Len(merge[m].readers) + 1]
        o == Opened(s)
    IN  /\ At(m, "pull") /\ Len(merge[m].readers) < Len(merge[m].segs)
        /\ pool' = (s :> [o.r EXCEPT !.merging = TRUE, !.shared = TRUE]) @@ pool
        /\ bits' = [bits EXCEPT ![s] = o.b]
        /\ merge' = [merge EXCEPT ![m].readers = Append(@, MergeReader(o.r, s))]
        /\ UNCHANGED <<infos, seg, numDocs, stream, pending, running, merging, stopMerges,
                       status, tragedy, history, used>>

\* The ordinals merge m copies from its i-th segment, and where they land.
Copied(m, i) == Live(merge[m].segs[i], merge[m].readers[i].ver)
CopiedSeq(m, i) == SetToSortSeq(Copied(m, i), <)
Base(m, i) == FoldSeq(LAMBDA j, n : Cardinality(Copied(m, j)) + n, 0, [j \in 1 .. i - 1 |-> j])
DocMap(m, i, j) == Base(m, i) + Cardinality({n \in Copied(m, i) : n <= j})
Concat(m, f(_, _)) ==
    FlattenSeq([i \in DOMAIN merge[m].segs |->
                  [n \in DOMAIN CopiedSeq(m, i) |-> f(i, CopiedSeq(m, i)[n])]])

\* close_merge_readers: after a success the merged-away readers leave the pool, after an
\* error only their merging updates go.
MergedAway(m) == {merge[m].segs[i] : i \in DOMAIN merge[m].readers}
CloseMergeReaders(m, suppress) ==
    IF suppress
      THEN [s \in DOMAIN pool |-> IF s \in MergedAway(m) THEN DropMergingUpdates(pool[s]) ELSE pool[s]]
      ELSE Without(pool, MergedAway(m))

\* check_abort at both ends of the loop, and inside the copying: MergeAborted.
MergeAborted(m) ==
    /\ At(m, "pull") /\ merge[m].aborted
    /\ Len(merge[m].readers) \in {0, Len(merge[m].segs)}
    /\ pool' = CloseMergeReaders(m, TRUE)
    /\ Go(m, "aborted")
    /\ UNCHANGED <<infos, seg, bits, numDocs, stream, pending, running, merging, stopMerges,
                   status, tragedy, history, used>>

\* SegmentMerger::merge: the live documents of the readers, renumbered, without the lock.
MergeDocuments(m, ok) ==
    /\ At(m, "pull") /\ Len(merge[m].readers) = Len(merge[m].segs)
    /\ IF ok
         THEN /\ seg' = [seg EXCEPT ![merge[m].info] =
                     [SegmentInfo(Concat(m, LAMBDA i, j : seg[merge[m].segs[i]].docs[j]), 0)
                        EXCEPT !.dv = Concat(m, LAMBDA i, j : merge[m].readers[i].dv[j])]]
              /\ Go(m, "commit") /\ UNCHANGED <<pool, used>>
         ELSE /\ "merge" \in Faults /\ Use("fault")
              /\ pool' = CloseMergeReaders(m, TRUE)
              /\ Go(m, "error") /\ UNCHANGED seg
    /\ UNCHANGED <<infos, bits, numDocs, stream, pending, running, merging, stopMerges,
                   status, tragedy, history>>

\* Mutant: the deletes of a segment pulled without deletions are not looked for.
NewDeletes_old(m) ==
    UNION {{DocMap(m, i, j) : j \in Copied(m, i) \ Live(merge[m].segs[i], pool[merge[m].segs[i]].live)}
             : i \in {n \in DOMAIN merge[m].segs : merge[m].readers[n].ver # 0}}
\* commit_merged_deletes_and_updates: the documents deleted since the readers were pulled,
\* and the updates registered since, under the numbers of the merged segment.
NewDeletes(m) ==
    UNION {{DocMap(m, i, j) : j \in Copied(m, i) \ Live(merge[m].segs[i], pool[merge[m].segs[i]].live)}
             : i \in DOMAIN merge[m].segs}
\* maybe_apply_merged_dv_updates is called for the live documents only and its index moves on
\* a match only: behind an update of a deleted document no update is carried over.
CarriedOver(m, i) ==
    LET s == merge[m].segs[i]
        upd == Updated(s, pool[s].upds)
        called == Copied(m, i) \intersect Live(s, pool[s].live)
    IN  {j \in upd : \A n \in upd : n <= j => n \in called}
NewValues(m) ==
    UNION {{<<DocMap(m, i, j), NewValue(merge[m].segs[i], pool[merge[m].segs[i]].upds, j)>>
              : j \in CarriedOver(m, i)} : i \in DOMAIN merge[m].segs}
MergedValues(m) ==
    [n \in Ords(merge[m].info) |->
        IF \E u \in NewValues(m) : u[1] = n THEN (CHOOSE u \in NewValues(m) : u[1] = n)[2]
        ELSE seg[merge[m].info].dv[n]]
\* min_gen: the merged segment still has to take what its oldest part has not.
MergedGen(m) == Min({seg[s].gen : s \in Range(merge[m].segs)})
MergedRld(m) ==
    LET g == merge[m].info
        d == Deleted([r |-> NewRld, b |-> <<>>], Ords(g), NewDeletes(m))
        opened == [d EXCEPT !.r.live = IF @ = None THEN 0 ELSE @]
    IN  IF NewValues(m) = {} THEN d ELSE WithValues(opened, g, MergedValues(m))

\* Mutant: the merged segment takes every place.
ApplyMergeChanges_each(m, drop) ==
    FlattenSeq([i \in DOMAIN infos |->
                  IF infos[i] \notin Range(merge[m].segs) THEN <<infos[i]>>
                  ELSE IF drop THEN <<>> ELSE <<merge[m].info>>])
\* apply_merge_changes: the merged segment takes the place of the first merged-away one.
ApplyMergeChanges(m, drop) ==
    LET S == Range(merge[m].segs)
        at == {i \in DOMAIN infos : infos[i] \in S}
        place(i) == IF infos[i] \notin S THEN <<infos[i]>>
                    ELSE IF ~ drop /\ i = Min(at) THEN <<merge[m].info>> ELSE <<>>
        rest == FlattenSeq([i \in DOMAIN infos |-> place(i)])
    IN  IF at = {} /\ ~ drop THEN <<merge[m].info>> \o rest ELSE rest

\* commit_merge; an aborted merge leaves its readers as they are.
CommitMerge(m) ==
    LET g == merge[m].info
        rld == MergedRld(m)
        empty == Ords(g) = {}
        drop == empty \/ rld.r.pending = Len(seg[g].docs)
        closed == CloseMergeReaders(m, FALSE)
    IN  /\ At(m, "commit")
        /\ IF tragedy
             THEN pool' = CloseMergeReaders(m, TRUE) /\ Go(m, "error") /\ UNCHANGED <<infos, seg, bits, numDocs>>
             ELSE IF merge[m].aborted THEN Go(m, "ok") /\ UNCHANGED index
             ELSE /\ Go(m, "ok")
                  /\ infos' = ApplyMergeChanges(m, drop)
                  /\ numDocs' = numDocs - (merge[m].total - Len(seg[g].docs))
                  /\ pool' = IF drop \/ rld.r = NewRld THEN closed ELSE (g :> rld.r) @@ closed
                  /\ bits' = IF empty THEN bits ELSE [bits EXCEPT ![g] = rld.b]
                  /\ seg' = IF empty THEN seg
                            ELSE [seg EXCEPT ![g].gen = MergedGen(m), ![g].dv = MergedValues(m)]
        /\ UNCHANGED <<stream, pending, running, merging, stopMerges, status, tragedy, history, used>>

\* Mutant: merge_finish is skipped when the merge was aborted.
Ended_unaborted == {"ok", "error"}
\* do_merge: how execute_merge may end; merge_finish follows each.
Ended == {"ok", "aborted", "error"}
\* merge_finish, and update_pending_merges after a merge that went well; S: the policy's choice.
MergeFinish(m, S) ==
    LET released == IF merge[m].registered THEN Range(merge[m].segs) ELSE {}
        done == [merge EXCEPT ![m].pc = IF @ = "error" THEN "failed" ELSE "done", ![m].registered = FALSE]
        more == /\ merge[m].pc = "ok" /\ ~ stopMerges /\ ~ tragedy
                /\ ((~ merge[m].aborted /\ merge[m].forced) \/ status \notin {"rollback", "closed"})
    IN  /\ m \in running /\ merge[m].pc \in Ended /\ status # "poisoned"
        /\ running' = running \ {m}
        /\ IF S = <<>>
             THEN merge' = done /\ merging' = merging \ released /\ UNCHANGED <<pending, used>>
             ELSE /\ more /\ Use("merge")
                  /\ Range(S) \intersect (merging \ released) = {}
                  /\ merge' = Append(done, NewMerge(S, merge[m].forced))
                  /\ pending' = Append(pending, Len(done) + 1)
                  /\ merging' = (merging \ released) \union Range(S)
        /\ UNCHANGED <<index, stream, stopMerges, status, tragedy, history>>

\* tragic_event: the merge's error closes the writer (Rollback below).
TragicEvent(m) ==
    /\ merge[m].pc = "failed" /\ status # "poisoned"
    /\ tragedy' = TRUE /\ Go(m, "done")
    /\ UNCHANGED <<index, stream, pending, running, merging, stopMerges, status, history, used>>

----------------------------------------------------------------------------
(* Stopping merges. *)

\* abort_merges, up to its wait; by rollback (also after a tragedy) or by delete_all.
AbortMerges(by) ==
    /\ status = "open" /\ ~ (tragedy /\ by = "delete_all")
    /\ IF tragedy THEN UNCHANGED used ELSE Use("stop")
    /\ status' = by
    /\ stopMerges' = TRUE
    /\ merge' = [m \in DOMAIN merge |->
                    IF m \in Range(pending)
                      THEN [merge[m] EXCEPT !.aborted = TRUE, !.pc = "done", !.registered = FALSE]
                      ELSE IF m \in running THEN [merge[m] EXCEPT !.aborted = TRUE] ELSE merge[m]]
    /\ merging' = merging \ UNION {Range(merge[m].segs) : m \in Range(pending)}
    /\ pending' = <<>>
    /\ UNCHANGED <<index, stream, running, tragedy, history>>

\* ... and after it: rollback drops the pool and closes, delete_all empties the index.
MergesAborted ==
    /\ status \in {"rollback", "delete_all"} /\ running = {}
    /\ pool' = <<>>
    /\ IF status = "rollback"
         THEN /\ status' = "closed" /\ packets' = <<>> /\ nextGen' = 1 /\ numUpdates' = 0
              /\ UNCHANGED <<infos, numDocs, stopMerges, alive>>
         ELSE /\ status' = "open" /\ infos' = <<>> /\ numDocs' = numDocs - MaxDoc(infos)
              /\ stopMerges' = FALSE /\ alive' = {}
              /\ UNCHANGED stream
    /\ UNCHANGED <<seg, bits, merge, pending, running, merging, tragedy, nrt, value, used>>

MergeStep(m) ==
    \/ MergeInit(m) \/ PullReader(m) \/ MergeAborted(m) \/ CommitMerge(m)
    \/ \E ok \in BOOLEAN : MergeDocuments(m, ok)
    \/ \E S \in MergeChoices \union {<<>>} : MergeFinish(m, S)
    \/ TragicEvent(m)
Next ==
    \/ \E u \in Updates : PublishFrozenUpdates(u[1], u[2])
    \/ \E k \in Flushed : PublishFlushedSegment(k)
    \/ ApplyDeletes \/ GetReader
    \/ \E s \in DOMAIN seg, ok \in BOOLEAN : WriteLiveDocs(s, ok)
    \/ \E S \in MergeChoices : MaybeMerge(S) \/ ForceMerge(S)
    \/ NextMerge
    \/ \E m \in DOMAIN merge : MergeStep(m)
    \/ \E by \in {"rollback", "delete_all"} : AbortMerges(by)
    \/ MergesAborted

\* Threads that run merges, and the waiter woken by cond (or its 1 s timeout), make progress.
Spec == Init /\ [][Next]_vars
        /\ WF_vars(NextMerge) /\ WF_vars(MergesAborted)
        /\ \A m \in 1 .. MaxOps : WF_vars(m \in DOMAIN merge /\ MergeStep(m))

----------------------------------------------------------------------------
(* Properties. *)

Visible(s) == IF s \in DOMAIN pool /\ pool[s].live # None THEN Live(s, pool[s].live) ELSE seg[s].disk
Due(s, i, kind) == \E j \in DOMAIN packets : /\ packets[j].kind = kind /\ packets[j].gen > seg[s].gen
                                             /\ packets[j].key = seg[s].docs[i][1]
Shown == {<<s, i>> \in UNION {{s} \X Visible(s) : s \in Range(infos)} : ~ Due(s, i, "del")}

TypeOK ==
    /\ Range(infos) \subseteq DOMAIN seg /\ IsInjective(infos)
    /\ DOMAIN pool \subseteq DOMAIN seg /\ DOMAIN bits = DOMAIN seg
    /\ running \subseteq DOMAIN merge /\ Range(pending) \subseteq DOMAIN merge
    /\ status \in {"open", "rollback", "delete_all", "closed", "poisoned"}
    /\ stopMerges \in BOOLEAN /\ tragedy \in BOOLEAN
    /\ \A s \in DOMAIN pool : pool[s].pending \in 0 .. Len(seg[s].docs)

\* Whatever merges, deletes and their interleaving do, the index holds every document that no
\* delete has hit exactly once, and no other: merges and the generations that decide which
\* packets a segment still has to take neither lose, revive, double nor over-delete documents
\* (commit_merge, commit_merged_deletes_and_updates, do_merge_init, prune).
IndexExact ==
    Working =>
      LET shown == Shown
      IN  /\ {seg[x[1]].docs[x[2]] : x \in shown} = alive
          /\ Cardinality(shown) = Cardinality(alive)

\* A near-real-time reader shows, as long as it is held, exactly the documents that were alive
\* when it was opened (get_reader, get_readonly_clone, copy on write in init_writable_live_docs).
ReaderIsSnapshot ==
    nrt # None =>
      nrt.showed = UNION {{seg[s].docs[i] : i \in Live(s, nrt.segs[s].ver)} : s \in DOMAIN nrt.segs}

\* verify_doc_counts, asserted before every merge: the live documents in memory are those on
\* disk less the pending deletes; and live docs that may be written are held by no reader
\* (the Arc::get_mut of delete would fail).
LiveDocsOwned ==
    \A s \in DOMAIN pool :
      /\ pool[s].live # None =>
            Cardinality(Live(s, pool[s].live)) = Len(seg[s].docs) - seg[s].dels - pool[s].pending
      /\ ~ pool[s].shared =>
            /\ pool[s].reader # None => pool[s].reader.ver # pool[s].live
            /\ nrt # None /\ s \in DOMAIN nrt.segs => nrt.segs[s].ver # pool[s].live
            /\ \A m \in running : \A i \in DOMAIN merge[m].readers :
                  merge[m].segs[i] = s => merge[m].readers[i].ver # pool[s].live

\* merging_segments names exactly the segments of the merges that are pending or running, and
\* no segment is in two of them: what register_merge tests, and what wait_for_merges and
\* abort_merges assert when the last merge has ended.
MergingExact ==
    LET active == {m \in DOMAIN merge : merge[m].registered}
    IN  /\ active = Range(pending) \union running
        /\ merging = UNION {Range(merge[m].segs) : m \in active}
        /\ \A m, n \in active : m # n => Range(merge[m].segs) \intersect Range(merge[n].segs) = {}
        /\ \A m \in active : Working /\ merge[m].pc # "ok" => Range(merge[m].segs) \subseteq Range(infos)

\* abort_merges ends: rollback reaches "closed", delete_all gives the writer back.
AbortEnds == status \in {"rollback", "delete_all"} ~> status \in {"open", "closed"}

\* "This method 'carries over' such new deletes and updates onto the newly merged segment":
\* every document shows the value it was last given, once the packets it is still due are in.
UpdatesCarriedOver ==
    Working => \A x \in Shown : ~ Due(x[1], x[2], "upd") =>
                 seg[x[1]].dv[x[2]] = value[seg[x[1]].docs[x[2]]]

\* pending_num_docs is the number of documents of the segments of the index.
PendingDocsExact == Working => numDocs = MaxDoc(infos)

\* "If we hit an exc in the line above (eg disk full) then info's delGen remains pointing to the
\* previous (successfully written) del docs": the live docs named by an info exist.
LiveDocsWritten == Working => \A s \in Range(infos) : seg[s].written

\* force_merge marks the pending and running merges and waits for them.
NotPoisoned == status # "poisoned"
=============================================================================
