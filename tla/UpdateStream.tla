--------------------------- MODULE UpdateStream ---------------------------
(***************************************************************************)
(* The packets of buffered deletes and doc-values updates between a flush  *)
(* and the segments they change: FrozenBufferedUpdates and                 *)
(* BufferedUpdatesStream (bufferd_updates.rs), the prefix-coded delete     *)
(* terms and their merged iterator (prefix_code_terms.rs), and the merged  *)
(* doc-values updates (doc_values_update.rs).                              *)
(*                                                                         *)
(* A packet and a flushed segment each get a generation.  Applying takes,  *)
(* for some segments, every packet that is younger than the segment: query *)
(* deletes segment by segment, term deletes by one walk of the merged      *)
(* terms over all the segments at once, and the updates by one walk of the *)
(* merged updates per segment.                                             *)
(*                                                                         *)
(* A term is a field (a number, 0 the empty name) and its bytes, a query   *)
(* matches the documents of one term, a document has its terms and one     *)
(* doc value.  Index sorting (sort_map) and failing readers are left out.  *)
(***************************************************************************)
EXTENDS Integers, Sequences, FiniteSets

CONSTANTS Globals,    \* packets for every older segment: sequences of operations
          Privates,   \* packets for the segment flushed with them
          Flushed,    \* the documents of the segments that are flushed
          MaxSteps    \* bound: calls in a behaviour

VARIABLES stream,  \* updates, nextGen, numTerms, numUpdates
          segs,    \* the segments: gen, docs, live, values, dropped
          due,     \* history: per segment the documents to delete, the values to have
          used,    \* the packets that were published (each at most once)
          last,    \* the last call and whether it had something to apply
          steps

vars == <<stream, segs, due, used, last, steps>>

NoLimit == 1000        \* i32::max_value(), NO_MORE_DOCS
None == [none |-> TRUE]

(* ------------------------------- terms --------------------------------- *)

\* <[u8]>::cmp
Before(a, b) ==
    \/ \E i \in 1..Len(a) :
          /\ i <= Len(b) /\ a[i] < b[i]
          /\ \A j \in 1..(i - 1) : a[j] = b[j]
    \/ Len(a) < Len(b) /\ \A j \in 1..Len(a) : a[j] = b[j]

\* Term::cmp: the field, then the bytes
TermBefore(s, t) == \/ s.field < t.field
                    \/ s.field = t.field /\ Before(s.bytes, t.bytes)

RECURSIVE SortTerms(_)
SortTerms(set) ==
    IF set = {} THEN <<>>
    ELSE LET least == CHOOSE s \in set : \A t \in set \ {s} : TermBefore(s, t)
         IN  <<least>> \o SortTerms(set \ {least})

\* shared_prefix_len
SharedPrefixLen(a, b) ==
    CHOOSE n \in 0..Len(a) :
        /\ n <= Len(b) /\ \A i \in 1..n : a[i] = b[i]
        /\ n = Len(a) \/ n = Len(b) \/ a[n + 1] # b[n + 1]

\* PrefixCodedTermsBuilder::add: the prefix is that of the last bytes, whatever
\* their field, and the field is written when it differs from the last
RECURSIVE Coded(_, _)
Coded(terms, previous) ==
    IF terms = <<>> THEN <<>>
    ELSE LET t == Head(terms)
             n == SharedPrefixLen(previous.bytes, t.bytes)
         IN  <<[newField |-> IF t.field = previous.field THEN 0 ELSE t.field,
                prefix |-> n,
                suffix |-> SubSeq(t.bytes, n + 1, Len(t.bytes))]>>
             \o Coded(Tail(terms), t)

\* PrefixCodedTermsIterator: where it is, <<>> when it has ended
Iterator(packet) == [code |-> packet.terms, field |-> 0, bytes |-> <<>>,
                     gen |-> packet.gen, ended |-> FALSE]

\* PrefixCodedTermsIterator::next and read_term_bytes; at the end the field is
\* cleared and the bytes stay
NextTerm(it) ==
    IF it.code = <<>> THEN [it EXCEPT !.field = 0, !.ended = TRUE]
    ELSE LET c == Head(it.code)
         IN  [it EXCEPT !.code = Tail(it.code),
                        !.field = IF c.newField = 0 THEN it.field ELSE c.newField,
                        !.bytes = SubSeq(it.bytes, 1, c.prefix) \o c.suffix]

\* TermsIteratorByTerm::cmp reversed: the top of term_queue
ByTerm(queue) == CHOOSE a \in queue : \A b \in queue \ {a} :
                    Before(a.bytes, b.bytes) \/ (a.bytes = b.bytes /\ a.gen < b.gen)

\* TermsIteratorByField::cmp reversed: the field on top of field_queue
ByField(queue) == CHOOSE f \in {a.field : a \in queue} : \A b \in queue : f <= b.field

\* MergedPrefixCodedTermsIterator::new
Merged(packets) == [terms |-> {},
                    fields |-> {it \in {NextTerm(Iterator(p)) : p \in packets} : it.field # 0},
                    field |-> 0]

\* MergedPrefixCodedTermsIterator::next, when term_queue is empty
NextField(m) ==
    IF m.fields = {} THEN [m EXCEPT !.field = 0]
    ELSE LET f == ByField(m.fields)
         IN  [terms |-> {it \in m.fields : it.field = f},
              fields |-> {it \in m.fields : it.field # f}, field |-> f]

\* MergedPrefixCodedTermsIterator::next, otherwise: the top advances, and the
\* field that is looked at is that of the top afterwards
MergedNext(m) ==
    IF m.terms = {} THEN NextField(m)
    ELSE LET top == ByTerm(m.terms)
             moved == NextTerm(top)
             queue == (m.terms \ {top}) \union (IF moved.ended THEN {} ELSE {moved})
             new == ByTerm(queue)
             left == IF moved.ended \/ new.field = m.field THEN queue ELSE queue \ {new}
             after == [m EXCEPT !.terms = left, !.fields = @ \union (queue \ left)]
         IN  IF queue = {} THEN NextField([m EXCEPT !.terms = {}])
             ELSE IF left = {} THEN NextField(after) ELSE after

\* FieldTermIterator: the terms in the order in which they are visited
RECURSIVE SingleVisits(_), MergedVisits(_)
SingleVisits(it) ==
    IF it.ended THEN <<>>
    ELSE <<[field |-> it.field, bytes |-> it.bytes, gen |-> it.gen]>> \o SingleVisits(NextTerm(it))
MergedVisits(m) ==
    IF m.terms = {} THEN <<>>
    ELSE <<[field |-> m.field, bytes |-> ByTerm(m.terms).bytes, gen |-> ByTerm(m.terms).gen]>>
         \o MergedVisits(MergedNext(m))

\* FieldTermIterator::build
Visits(packets) ==
    IF Cardinality(packets) = 1
    THEN SingleVisits(NextTerm(Iterator(CHOOSE p \in packets : TRUE)))
    ELSE MergedVisits(MergedNext(Merged(packets)))

(* ------------------------------- packets ------------------------------- *)

Put(f, key, value) == [k \in DOMAIN f \union {key} |-> IF k = key THEN value ELSE f[k]]

NoUpdates == [terms |-> {}, count |-> 0, queries |-> [k \in {} |-> 0], updates |-> [k \in {} |-> 0]]

\* BufferedUpdates: add_query, add_term and add_doc_values_update.  A query is
\* kept under its text, an update under the bytes of its term
Buffer(b, op) ==
    CASE op.kind = "term" ->
           IF op.term \in b.terms THEN b
           ELSE [b EXCEPT !.terms = @ \union {op.term}, !.count = @ + 1]
      [] op.kind = "query" -> [b EXCEPT !.queries = Put(@, op.term, op.limit)]
      [] op.kind = "update" ->
           [b EXCEPT !.updates = Put(@, op.term.bytes,
               [term |-> op.term, value |-> op.value, limit |-> op.limit])]

RECURSIVE BufferAll(_, _)
BufferAll(b, ops) == IF ops = <<>> THEN b ELSE BufferAll(Buffer(b, Head(ops)), Tail(ops))

\* FrozenBufferedUpdates::new
Frozen(ops, private) ==
    LET b == BufferAll(NoUpdates, ops)
    IN  [gen |-> 0, private |-> private,
         terms |-> Coded(SortTerms(b.terms), [field |-> 0, bytes |-> <<>>]),
         numTerms |-> b.count, queries |-> b.queries, updates |-> b.updates]

\* FrozenBufferedUpdates::any
Any(p) == p.terms # <<>> \/ DOMAIN p.queries # {} \/ DOMAIN p.updates # {}

\* push and set_del_gen
Push(s, p) == [updates |-> Append(s.updates, [p EXCEPT !.gen = s.nextGen]),
               nextGen |-> s.nextGen + 1,
               numTerms |-> s.numTerms + p.numTerms,
               numUpdates |-> s.numUpdates + Cardinality(DOMAIN p.updates)]

\* BufferedUpdatesStream::any
StreamAny(s) == s.numTerms > 0 \/ s.numUpdates > 0

(* ------------------------------- applying ------------------------------ *)

WithTerm(seg, term) == {d \in DOMAIN seg.docs : term \in seg.docs[d].terms}

\* apply_query_deletes: the documents below each query's limit
QueryDeletes(seg, queries) ==
    [seg EXCEPT !.live = @ \ {d \in DOMAIN seg.docs :
        \E q \in DOMAIN queries : d <= queries[q] /\ d \in WithTerm(seg, q)}]

\* CoalescedUpdates::update and collect_doc_values_updates
Coalesce(c, p) == [queries |-> c.queries \union DOMAIN p.queries,
                   terms |-> c.terms \union {p}, updates |-> c.updates \union {p}]
Unlimited(queries) == [q \in queries |-> NoLimit]

\* do_apply_deletes_and_updates: segments and packets from the youngest down.
\* order holds the ids of the segments by generation, u counts the packets left
RECURSIVE Walk(_, _, _, _, _)
Walk(ss, order, packets, u, c) ==
    IF order = <<>> THEN [segs |-> ss, coalesced |-> c]
    ELSE LET id == order[Len(order)]
             shorter == SubSeq(order, 1, Len(order) - 1)
             p == packets[u]
         IN  IF u > 0 /\ ss[id].gen < p.gen
             THEN Walk(ss, order, packets, u - 1, IF p.private THEN c ELSE Coalesce(c, p))
             ELSE IF u > 0 /\ ss[id].gen = p.gen
             THEN Walk([ss EXCEPT ![id] = QueryDeletes(QueryDeletes(@, p.queries),
                                                       Unlimited(c.queries))],
                       shorter, packets, u - 1, [c EXCEPT !.updates = @ \union {p}])
             ELSE Walk([ss EXCEPT ![id] = QueryDeletes(@, Unlimited(c.queries))],
                       shorter, packets, u, c)

\* apply_term_deletes for one visited term: per segment, rest holds the terms of
\* the field its iterator has not passed (the segments wait in a heap on the
\* least of them).  A segment that has the term is past it afterwards
VisitTerm(w, v) ==
    LET open == IF v.field = w.field THEN w.rest
                ELSE [id \in DOMAIN w.rest |->
                        {t.bytes : t \in {x \in UNION {w.segs[id].docs[d].terms :
                                              d \in DOMAIN w.segs[id].docs} : x.field = v.field}}]
        hit == {id \in DOMAIN open : v.bytes \in open[id]}
        term == [field |-> v.field, bytes |-> v.bytes]
    IN  [field |-> v.field,
         rest |-> [id \in DOMAIN open |-> {b \in open[id] : Before(v.bytes, b)}],
         segs |-> [id \in DOMAIN w.segs |->
                     IF id \in hit /\ w.segs[id].gen < v.gen
                     THEN [w.segs[id] EXCEPT !.live = @ \ WithTerm(w.segs[id], term)]
                     ELSE w.segs[id]]]

RECURSIVE VisitAll(_, _)
VisitAll(w, visits) ==
    IF visits = <<>> THEN w.segs ELSE VisitAll(VisitTerm(w, Head(visits)), Tail(visits))

\* apply_term_deletes, for the segments ids
TermDeletes(ss, ids, packets) ==
    IF \A p \in packets : p.terms = <<>> THEN ss
    ELSE VisitAll([field |-> 0, rest |-> [id \in ids |-> {}], segs |-> ss], Visits(packets))

(* ------------------------- doc-values updates -------------------------- *)

\* collect_doc_values_updates: the updates of a packet sorted by their bytes
RECURSIVE SortUpdates(_)
SortUpdates(updates) ==
    IF DOMAIN updates = {} THEN <<>>
    ELSE LET least == CHOOSE b \in DOMAIN updates :
                         \A o \in DOMAIN updates \ {b} : Before(b, o)
         IN  <<updates[least]>> \o SortUpdates([b \in DOMAIN updates \ {least} |-> updates[b]])

\* DocValuesUpdatesWrapper::new
Wrapper(p) == [left |-> SortUpdates(p.updates), gen |-> p.gen]

\* DocValuesUpdatesWrapper::cmp: the least bytes, among equal ones the youngest
OnTop(heap) == CHOOSE a \in heap : \A b \in heap \ {a} :
    LET x == Head(a.left).term.bytes
        y == Head(b.left).term.bytes
    IN  Before(x, y) \/ (x = y /\ a.gen > b.gen)

\* MergedDocValuesUpdatesIterator::next, from the last update to the end: an
\* update whose term does not come after the last one is passed over
RECURSIVE MergedUpdates(_, _)
MergedUpdates(heap, previous) ==
    IF heap = {} THEN <<>>
    ELSE LET top == OnTop(heap)
             up == Head(top.left)
             rest == (heap \ {top}) \union
                     (IF Len(top.left) = 1 THEN {} ELSE {[top EXCEPT !.left = Tail(@)]})
         IN  IF previous = None \/ TermBefore(previous, up.term)
             THEN <<[up |-> up, gen |-> top.gen]>> \o MergedUpdates(rest, up.term)
             ELSE MergedUpdates(rest, previous)

\* prepare_data: the documents of each update below its limit.  The terms are
\* looked up in the first update's field that the segment has
RECURSIVE Prepared(_, _, _)
Prepared(seg, merged, field) ==
    IF merged = <<>> THEN {}
    ELSE LET m == Head(merged)
             has(f) == \E d \in DOMAIN seg.docs : \E t \in seg.docs[d].terms : t.field = f
             terms == IF field # 0 THEN field ELSE IF has(m.up.term.field) THEN m.up.term.field ELSE 0
             docs == {d \in WithTerm(seg, [field |-> terms, bytes |-> m.up.term.bytes]) :
                         d <= m.up.limit}
         IN  {[doc |-> d, value |-> m.up.value, gen |-> m.gen, rank |-> Len(merged)] : d \in docs}
             \union Prepared(seg, Tail(merged), terms)

\* prepare_data's stable sort by document and generation, and dedup: the first of
\* a document's youngest updates is kept, the other documents keep their values
Chosen(found, d) ==
    CHOOSE u \in found : /\ u.doc = d
                         /\ \A o \in found : o.doc = d =>
                               o.gen < u.gen \/ (o.gen = u.gen /\ o.rank <= u.rank)
NewValues(seg, found) ==
    [d \in DOMAIN seg.docs |->
        IF \E u \in found : u.doc = d THEN Chosen(found, d).value ELSE seg.values[d]]

\* apply_doc_values_updates: a private packet goes to its segment alone, another
\* to every segment that is not younger
Wanted(seg, packets) ==
    {p \in packets : /\ DOMAIN p.updates # {}
                     /\ seg.gen <= p.gen
                     /\ p.private => seg.gen = p.gen}
DocValuesUpdates(seg, packets) ==
    LET heap == {Wrapper(p) : p \in Wanted(seg, packets)}
    IN  IF heap = {} THEN seg
        ELSE [seg EXCEPT !.values = NewValues(seg, Prepared(seg, MergedUpdates(heap, None), 0))]

(* --------------------------- the whole apply --------------------------- *)

RECURSIVE ByGen(_, _)
ByGen(ss, ids) ==
    IF ids = {} THEN <<>>
    ELSE LET least == CHOOSE i \in ids : \A j \in ids \ {i} :
                         ss[i].gen < ss[j].gen \/ (ss[i].gen = ss[j].gen /\ i < j)
         IN  <<least>> \o ByGen(ss, ids \ {least})

\* close_segment_states: the opened segments get the new generation, and those
\* without a live document are dropped by the caller
Closed(ss, ids, gen) ==
    [id \in DOMAIN ss |->
        IF id \in ids THEN [ss[id] EXCEPT !.gen = gen, !.dropped = ss[id].live = {}] ELSE ss[id]]

\* apply_deletes_and_updates on the segments ids; the states are opened (all of
\* them) by the first segment that has something to apply
Applied(s, ss, ids) ==
    LET Updated(deleted, c) == [id \in DOMAIN ss |->
                      IF id \in ids THEN DocValuesUpdates(deleted[id], c.updates) ELSE deleted[id]]
        Opened(walked, c) == Closed(Updated(TermDeletes(walked.segs, ids, c.terms), c), ids, s.nextGen)
        Coalesced(walked, c) == IF c.terms # {} \/ c.updates # {} THEN Opened(walked, c) ELSE ss
        Walked(walked) == Coalesced(walked, walked.coalesced)
    IN  Walked(Walk(ss, ByGen(ss, ids), s.updates, Len(s.updates), [queries |-> {}, terms |-> {}, updates |-> {}]))

\* do_prune stops at the first packet that is not older than every segment
Prune_equal(updates, min) ==
    SelectSeq(updates, LAMBDA p : p.gen > min)
Prune(updates, min) ==
    SelectSeq(updates, LAMBDA p : p.gen >= min)

Live(ss) == {id \in DOMAIN ss : ~ss[id].dropped}
SumTerms(s) == LET RECURSIVE Sum(_)
                   Sum(q) == IF q = <<>> THEN 0 ELSE Head(q).numTerms + Sum(Tail(q))
               IN  Sum(s)

\* prune: what is older than the least generation of a segment goes
Pruned(s, ss) ==
    LET gens == {ss[id].gen : id \in Live(ss)}
        kept == IF gens = {} THEN <<>>
                ELSE Prune(s.updates, CHOOSE g \in gens : \A h \in gens : g <= h)
    IN  [s EXCEPT !.updates = kept, !.numTerms = SumTerms(kept)]

(* ------------------------------- actions ------------------------------- *)

Init ==
    /\ stream = [updates |-> <<>>, nextGen |-> 1, numTerms |-> 0, numUpdates |-> 0]
    /\ segs = <<>> /\ due = <<>> /\ used = {}
    /\ last = "none" /\ steps = 0

Call(kind) == steps < MaxSteps /\ steps' = steps + 1 /\ last' = kind

\* what an operation means for the documents of a segment up to its limit
Meant(seg, d, op) ==
    LET docs == {x \in WithTerm(seg, op.term) : x <= op.limit}
    IN  IF op.kind = "update"
        THEN [d EXCEPT !.values = [x \in DOMAIN @ |-> IF x \in docs THEN op.value ELSE @[x]]]
        ELSE [d EXCEPT !.dead = @ \union docs]
RECURSIVE MeantAll(_, _, _)
MeantAll(seg, d, ops) ==
    IF ops = <<>> THEN d ELSE MeantAll(seg, Meant(seg, d, Head(ops)), Tail(ops))

Values(docs) == [d \in DOMAIN docs |-> docs[d].value]

\* publish_frozen_updates
PublishFrozenUpdates ==
    \E g \in DOMAIN Globals \ used :
        /\ Call("publish") /\ used' = used \union {g}
        /\ stream' = Push(stream, Frozen(Globals[g], FALSE))
        /\ due' = [id \in DOMAIN segs |-> MeantAll(segs[id], due[id], Globals[g])]
        /\ UNCHANGED segs

\* do_publish_flushed_segment: the global packet goes first, and the segment gets
\* the generation of its private packet, or the next one
PublishFlushedSegment ==
    \E docs \in Flushed, g \in {0} \union (DOMAIN Globals \ used), ops \in Privates :
        LET global == IF g = 0 THEN <<>> ELSE Globals[g]
            pushed == IF g = 0 THEN stream ELSE Push(stream, Frozen(global, FALSE))
            packet == Frozen(ops, TRUE)
            seg == [gen |-> pushed.nextGen, docs |-> docs, live |-> DOMAIN docs,
                    values |-> Values(docs), dropped |-> FALSE]
        IN  /\ Call("publish") /\ used' = used \union ({g} \ {0})
            /\ stream' = IF Any(packet) THEN Push(pushed, packet)
                         ELSE [pushed EXCEPT !.nextGen = @ + 1]
            /\ segs' = Append(segs, seg)
            /\ due' = Append([id \in DOMAIN segs |-> MeantAll(segs[id], due[id], global)],
                             MeantAll(seg, [dead |-> {}, values |-> Values(docs)], ops))

\* apply_deletes_and_updates and the prune that follows it, at both its callers
Apply(ids, kind) ==
    LET applies == ids # {} /\ StreamAny(stream)
        spent == [stream EXCEPT !.nextGen = @ + 1, !.numUpdates = IF applies THEN 0 ELSE @]
    IN  /\ Call(IF applies THEN kind ELSE "skipped")
        /\ segs' = IF applies THEN Applied(stream, segs, ids) ELSE segs
        /\ stream' = Pruned(spent, segs')
        /\ UNCHANGED <<due, used>>

\* apply_all_deletes_and_update
ApplyAllDeletesAndUpdate == Apply(Live(segs), "all")

\* do_merge_init: the segments of one merge, some of all
ApplyMerging == \E ids \in SUBSET Live(segs) : ids # {} /\ Apply(ids, "merge")

Next == PublishFrozenUpdates \/ PublishFlushedSegment \/ ApplyAllDeletesAndUpdate \/ ApplyMerging
Spec == Init /\ [][Next]_vars

(* ------------------------------ properties ----------------------------- *)

Exact(id) ==
    /\ segs[id].live = DOMAIN segs[id].docs \ due[id].dead
    /\ \A d \in segs[id].live : segs[id].values[d] = due[id].values[d]

\* Once the stream was applied to every segment, a document lives exactly when no
\* delete came after it, and carries the youngest update that came after it: the
\* generations, the coalescing walk, the merged iterators, applying to the
\* segments of a merge alone and the pruning lose no packet a segment still
\* needs and give none to a segment that is younger.  Documents never die
\* without a delete on the way either, and only whole segments are dropped.
\* (bufferd_updates.rs:272-286)
AppliedExact ==
    /\ last = "all" => \A id \in DOMAIN segs : Exact(id)
    /\ \A id \in DOMAIN segs : DOMAIN segs[id].docs \ segs[id].live \subseteq due[id].dead

\* Applying is not passed over while some segment is short of a delete or an
\* update (bufferd_updates.rs:346, 423, 539).
NothingSkipped == last = "skipped" => \A id \in DOMAIN segs : Exact(id)
===========================================================================
