----------------------------- MODULE MergeMaps -----------------------------
(* How the documents of the merged segments are renumbered, and in which    *)
(* order the merge of every format visits them: MergeState, the sorters of  *)
(* an index with an index sort, and the doc id mergers.  A reader is        *)
(* [keys, live]: the sort key of each doc, <<>> when it has none, and the   *)
(* docs that are not deleted.  Docs count from 0; sequences hold doc d at   *)
(* position d + 1.                                                          *)
EXTENDS Integers, Sequences, FiniteSets, FiniteSetsExt, SequencesExt
CONSTANTS Keys,            \* the values of the sort field
          MissingKeys,     \* the missing_values a sort field may have
          Descending,         \* is_reverse
          MaxReaders, MaxDocs
VARIABLES readers,
          indexSort,       \* <<>> or <<missing_value>>, 0 when the field has none
          maps,            \* the doc maps of the merge, <<>> before it starts
          merger,          \* the doc id merger
          emitted          \* what it returned since its last reset
vars == <<readers, indexSort, maps, merger, emitted>>
Docs(r) == 0..Len(r.keys) - 1

(***************************************************************************)
(* Two comparators: that of a leaf is given no missing value and takes the *)
(* 0 the doc values return, that across leaves has the sort field's.       *)
(***************************************************************************)
Sorting == indexSort # <<>>
LeafKey(key) == IF key = <<>> THEN 0 ELSE key[1]
CrossKey(key) == IF key = <<>> THEN indexSort[1] ELSE key[1]
Less(a, b) == IF Descending THEN a > b ELSE a < b
LeafBefore(a, b) == Less(LeafKey(a), LeafKey(b))
Before(a, b) == Less(CrossKey(a), CrossKey(b))

(***************************************************************************)
(* Sorter: a leaf written without the index sort is read through a sorting *)
(* reader.                                                                 *)
(***************************************************************************)
InOrder(keys) == \A d \in 1..Len(keys) - 1 : ~LeafBefore(keys[d + 1], keys[d])
NewToOld(keys) ==
    IF InOrder(keys) THEN [d \in DOMAIN keys |-> d - 1]
    ELSE SortSeq([d \in DOMAIN keys |-> d - 1],
                 LAMBDA a, b : \/ LeafBefore(keys[a + 1], keys[b + 1])
                               \/ (~LeafBefore(keys[b + 1], keys[a + 1]) /\ a < b))
OldToNew(order) == [d \in DOMAIN order |-> (CHOOSE n \in DOMAIN order : order[n] = d - 1) - 1]
SortingReader(r) ==
    LET order == NewToOld(r.keys)
    IN  [keys |-> [n \in DOMAIN order |-> r.keys[order[n] + 1]],
         live |-> {OldToNew(order)[d + 1] : d \in r.live}]
MaybeSortReaders(rs) == IF Sorting THEN [k \in DOMAIN rs |-> SortingReader(rs[k])] ELSE rs

(***************************************************************************)
(* Doc maps: [base, docs, live].                                           *)
(***************************************************************************)
RemoveDeletes(r) == [d \in DOMAIN r.keys |-> Cardinality({x \in r.live : x < d - 1})]
DeletionDocMaps(rs) ==
    [k \in DOMAIN rs |-> [base |-> FoldLeft(LAMBDA n, r : n + Cardinality(r.live), 0, SubSeq(rs, 1, k - 1)),
                          docs |-> RemoveDeletes(rs[k]), live |-> rs[k].live]]
MapGet(map, doc) == IF doc \in map.live THEN map.base + map.docs[doc + 1] ELSE -1

\* The least key of the readers' next docs; the first reader of equal ones.
Top(rs, at) ==
    LET left == {k \in DOMAIN rs : at[k] < Len(rs[k].keys)}
        Key(k) == rs[k].keys[at[k] + 1]
    IN  CHOOSE k \in left : \A j \in left \ {k} :
            Before(Key(k), Key(j)) \/ (~Before(Key(j), Key(k)) /\ k < j)
RECURSIVE MultiSort(_, _)
MultiSort(rs, s) ==
    IF \A k \in DOMAIN rs : s.at[k] = Len(rs[k].keys) THEN s
    ELSE LET k == Top(rs, s.at)
         IN  MultiSort(rs, [at |-> [s.at EXCEPT ![k] = @ + 1],
                            mapped |-> s.mapped + (IF s.at[k] \in rs[k].live THEN 1 ELSE 0),
                            last |-> k, sorted |-> s.sorted /\ s.last <= k,
                            docs |-> [s.docs EXCEPT ![k] = Append(@, s.mapped)]])
MultiSorted(rs) ==
    MultiSort(rs, [at |-> [k \in DOMAIN rs |-> 0], mapped |-> 0, last |-> 1, sorted |-> TRUE,
                   docs |-> [k \in DOMAIN rs |-> <<>>]])
LeavesSorted(rs) == \A k \in DOMAIN rs : InOrder(rs[k].keys)
BuildDocMaps(rs) ==
    IF Sorting /\ ~MultiSorted(rs).sorted
    THEN [k \in DOMAIN rs |-> [base |-> 0, docs |-> MultiSorted(rs).docs[k], live |-> rs[k].live]]
    ELSE DeletionDocMaps(rs)
NeedsIndexSort(rs) == Sorting /\ (~LeavesSorted(rs) \/ ~MultiSorted(MaybeSortReaders(rs)).sorted)

(***************************************************************************)
(* The doc id mergers: [sorted, docs, mapped, cur] or, sorted, with the    *)
(* subs in the queue.                                                      *)
(***************************************************************************)
None == 1000
NextDoc(map, doc) == IF doc + 1 < Len(map.docs) THEN doc + 1 ELSE None
RECURSIVE NextLive(_, _)
NextLive(map, doc) ==
    LET next == NextDoc(map, doc)
    IN  IF next = None \/ MapGet(map, next) # -1 THEN next ELSE NextLive(map, next)
Moved(ms, m, k) ==
    LET next == NextLive(ms[k], m.docs[k])
    IN  [m EXCEPT !.docs[k] = next, !.mapped[k] = IF next = None THEN None ELSE MapGet(ms[k], next)]
Unmoved(ms, sorted) ==
    [sorted |-> sorted, cur |-> 1, queue |-> {},
     docs |-> [k \in DOMAIN ms |-> -1], mapped |-> [k \in DOMAIN ms |-> IF sorted /\ k = 1 THEN -1 ELSE 0]]
\* The first sub stays before its first doc; the others are moved to theirs.
SortedReset(ms) ==
    LET m == FoldFunctionOnSet(LAMBDA k, acc : Moved(ms, acc, k), Unmoved(ms, TRUE), [k \in DOMAIN ms |-> k], DOMAIN ms \ {1})
    IN  [m EXCEPT !.queue = {k \in DOMAIN ms : m.docs[k] # None}]
MergerReset(ms, sorted) == IF sorted /\ Len(ms) > 1 THEN SortedReset(ms) ELSE Unmoved(ms, FALSE)
Least(m) == CHOOSE k \in m.queue : \A j \in m.queue : m.mapped[k] <= m.mapped[j]
\* Mutant: a sub that ran dry stays in the queue.
SortedNext_kept(ms, m) ==
    IF m.queue = {} THEN [m |-> m, sub |-> 0] ELSE [m |-> Moved(ms, m, Least(m)), sub |-> Least(Moved(ms, m, Least(m)))]
SortedNext(ms, m) ==
    IF m.queue = {} THEN [m |-> m, sub |-> 0]
    ELSE LET k == Least(m)
             moved == Moved(ms, m, k)
             left == IF moved.docs[k] = None THEN [moved EXCEPT !.queue = @ \ {k}] ELSE moved
         IN  [m |-> left, sub |-> IF left.queue = {} THEN 0 ELSE Least(left)]
RECURSIVE SequentialNext(_, _)
SequentialNext(ms, m) ==
    IF m.cur > Len(ms) THEN [m |-> m, sub |-> 0]
    ELSE LET moved == Moved(ms, m, m.cur)
         IN  IF moved.docs[m.cur] = None THEN SequentialNext(ms, [moved EXCEPT !.cur = @ + 1])
             ELSE [m |-> moved, sub |-> m.cur]
MergerNext(ms, m) == IF m.sorted THEN SortedNext(ms, m) ELSE SequentialNext(ms, m)

(***************************************************************************)
(* The merge.  Leaves are added, documents deleted, the merge is set up,   *)
(* and every format walks the merger to its end, some more than once.      *)
(***************************************************************************)
Init == /\ readers = <<>> /\ indexSort \in {<<>>} \cup {<<m>> : m \in MissingKeys}
        /\ maps = <<>> /\ merger = Unmoved(<<>>, FALSE) /\ emitted = <<>>
Leaf(keys) == [keys |-> keys, live |-> 0..Len(keys) - 1]
AddReader == /\ maps = <<>> /\ Len(readers) < MaxReaders
             /\ \E n \in 1..MaxDocs : \E keys \in [1..n -> {<<>>} \cup {<<v>> : v \in Keys}] :
                    readers' = Append(readers, Leaf(keys))
             /\ UNCHANGED <<indexSort, maps, merger, emitted>>
Delete == /\ maps = <<>>
          /\ \E k \in DOMAIN readers : \E d \in readers[k].live :
                 readers' = [readers EXCEPT ![k].live = @ \ {d}]
          /\ UNCHANGED <<indexSort, maps, merger, emitted>>
MergeState ==
    /\ maps = <<>> /\ readers # <<>>
    /\ LET rs == MaybeSortReaders(readers)
       IN  /\ maps' = BuildDocMaps(rs)
           /\ merger' = MergerReset(maps', NeedsIndexSort(readers))
           /\ readers' = rs
    /\ UNCHANGED <<indexSort, emitted>>
Walk == /\ maps # <<>>
        /\ LET r == MergerNext(maps, merger)
           IN  /\ r.sub # 0
               /\ merger' = r.m
               /\ emitted' = Append(emitted, [sub |-> r.sub, doc |-> r.m.docs[r.sub], mapped |-> r.m.mapped[r.sub]])
        /\ UNCHANGED <<readers, indexSort, maps>>
Reset == /\ maps # <<>> /\ emitted # <<>>
         /\ merger' = MergerReset(maps, merger.sorted) /\ emitted' = <<>>
         /\ UNCHANGED <<readers, indexSort, maps>>
Next == AddReader \/ Delete \/ MergeState \/ Walk \/ Reset
Spec == Init /\ [][Next]_vars

(***************************************************************************)
(* Properties.                                                             *)
(***************************************************************************)
Live == {<<k, d>> : k \in DOMAIN readers, d \in 0..MaxDocs - 1} \cap
        UNION {{<<k, d>> : d \in readers[k].live} : k \in DOMAIN readers}
KeyAt(e) == readers[e.sub].keys[e.doc + 1]
Ended == MergerNext(maps, merger).sub = 0
SortKept == Sorting => \A n \in 1..Len(emitted) - 1 : ~Before(KeyAt(emitted[n + 1]), KeyAt(emitted[n]))
\* The two comparators agree: no document lacks the field, or lacking it is 0.
OneOrder == \/ Sorting /\ indexSort[1] = 0
            \/ \A k \in DOMAIN readers : \A d \in DOMAIN readers[k].keys : readers[k].keys[d] # <<>>
\* The merger hands out exactly the documents that are not deleted, in the
\* order of their new numbers, which count from 0 without gaps and, in an
\* index with a sort, follow it where the leaves were sorted by the same
\* keys.  doc_id_merger.rs, codec/sorter.rs and MergeState::build_doc_maps
\* have to agree for it.
MergeOrderExact ==
    maps # <<>> =>
        /\ \A n \in DOMAIN emitted :
               /\ emitted[n].mapped = n - 1
               /\ emitted[n].doc \in readers[emitted[n].sub].live
        /\ Ended => {<<emitted[n].sub, emitted[n].doc>> : n \in DOMAIN emitted} = Live
        /\ OneOrder => SortKept
\* The part MergeOrderExact leaves out.
SortedBySort == maps # <<>> => SortKept
============================================================================
