----------------------------- MODULE DocIdSets -----------------------------
(* Sets of doc ids and the iterators over them: the fixed bit set, the       *)
(* buffers of DocIdSetBuilder, the roaring set the query cache keeps, and    *)
(* the lookups SparseBits and DocIteratorAsBits.  Arrays are sequences,      *)
(* indices are the code's, from 0.                                           *)
EXTENDS Integers, Sequences, FiniteSets, FiniteSetsExt, SequencesExt
CONSTANTS MaxDoc,
          WordBits,       \* bits of a word: 64
          BlockSize,      \* docs of a roaring block: 65536
          MaxArrayLength, \* docs of a block kept as an array: 4096
          Shift,          \* a builder buffers up to MaxDoc \div 2^Shift docs: 7
          MinBuffer,      \* the least buffer: 32
          MaxGrow,        \* bound: docs announced by one grow
          NoMoreDocs
VARIABLES kind,     \* which set is built: "builder", "roaring", "not", "bits"
          set,      \* the set under construction
          given,    \* the docs added so far
          iter,     \* the iterator over the set when it is built
          target,   \* the least doc the last call asked for
          returned, \* what it answered
          sparse    \* the context of a SparseBits over the docs
vars == <<kind, set, given, iter, target, returned, sparse>>
Ascending(S) == SelectSeq([i \in 1..MaxDoc + WordBits |-> i - 1], LAMBDA d : d \in S)

(***************************************************************************)
(* FixedBitSet: the set of its bits, with what the masks of a word select. *)
(***************************************************************************)
WordOf(i) == i \div WordBits
Below(i) == {j \in 0..i - 1 : WordOf(j) = WordOf(i)}
From(end) == {j \in end..end + WordBits : WordOf(j) = WordOf(end - 1)}
Between(start, end) == {j \in 0..end : WordOf(start) < WordOf(j) /\ WordOf(j) < WordOf(end - 1)}
Toggle(bits, mask) == (bits \ mask) \cup (mask \ bits)
\* The masks of flip are those of clear_batch.
Flip(bits, start, end) ==
    IF end <= start THEN bits ELSE Toggle(bits, Below(start) \cup Between(start, end) \cup From(end))
NextSetBit(bits, i) == Min({NoMoreDocs} \cup {b \in bits : b >= i})
BatchSet(bits, start, end) ==
    LET first == {j \in start..end + WordBits : WordOf(j) = WordOf(start)}
        last  == {j \in 0..end - 1 : WordOf(j) = WordOf(end - 1)}
    IN  CASE start >= end -> bits
          [] start < end /\ WordOf(start) = WordOf(end - 1) -> bits \cup (first \cap last)
          [] OTHER -> bits \cup first \cup Between(start, end) \cup last
ClearBatch(bits, start, end) ==
    LET kept == Below(start) \cup From(end)
        Gone(j) == IF WordOf(start) = WordOf(end - 1) THEN WordOf(j) = WordOf(start) /\ j \notin kept
                   ELSE \/ WordOf(j) = WordOf(start) /\ j \notin Below(start)
                        \/ j \in Between(start, end)
                        \/ WordOf(j) = WordOf(end - 1) /\ j \notin From(end)
    IN  IF end <= start THEN bits ELSE {j \in bits : ~Gone(j)}

(***************************************************************************)
(* Iterators.  A call answers [it, doc].                                   *)
(***************************************************************************)
\* How far a binary search of docs[i + 1 ..] for t goes.
Skipped(docs, i, len, t) == Cardinality({k \in i + 1..len - 1 : docs[k + 1] < t})
ShortIter(docs) == [kind |-> "short", docs |-> docs, i |-> -1, doc |-> -1]
ShortNext(it) ==
    IF it.i + 1 >= Len(it.docs) THEN [it |-> [it EXCEPT !.i = @ + 1], doc |-> NoMoreDocs]
    ELSE [it |-> [it EXCEPT !.i = @ + 1, !.doc = it.docs[it.i + 2]], doc |-> it.docs[it.i + 2]]
ShortAdvance(it, t) ==
    LET i == IF it.i + 1 >= Len(it.docs) THEN it.i ELSE it.i + Skipped(it.docs, it.i, Len(it.docs), t) + 1
        doc == IF it.i + 1 < Len(it.docs) /\ i < Len(it.docs) THEN it.docs[i + 1] ELSE NoMoreDocs
    IN  [it |-> [it EXCEPT !.i = i, !.doc = doc], doc |-> doc]
\* docs ends with a sentinel, which `len` does not count.
IntIter(docs, len) == [kind |-> "int", docs |-> docs, len |-> len, i |-> -1, doc |-> -1]
IntAt(it, i) == [it |-> [it EXCEPT !.i = i, !.doc = it.docs[i + 1]], doc |-> it.docs[i + 1]]
IntNext(it) == IntAt(it, it.i + 1)
IntAdvance(it, t) == IntAt(it, it.i + Skipped(it.docs, it.i, it.len, t) + 1)
BitIter(bits, length) == [kind |-> "bit", bits |-> bits, length |-> length, doc |-> -1]
BitAdvance(it, t) ==
    LET doc == IF t >= it.length THEN NoMoreDocs ELSE NextSetBit(it.bits, t)
    IN  [it |-> [it EXCEPT !.doc = doc], doc |-> doc]
NotIter(docs, max) == [kind |-> "not", it |-> ShortIter(docs), max |-> max, doc |-> -1, skipped |-> -1]
RECURSIVE NotLoop(_)
NotLoop(it) ==
    LET next == ShortNext(it.it)
    IN  CASE it.doc >= it.max -> [it |-> [it EXCEPT !.doc = NoMoreDocs], doc |-> NoMoreDocs]
          [] it.doc < it.max /\ it.doc # it.skipped -> [it |-> it, doc |-> it.doc]
          [] OTHER -> NotLoop([it EXCEPT !.doc = @ + 1, !.skipped = next.doc, !.it = next.it])
NotAdvance(it, t) ==
    LET adv == ShortAdvance(it.it, t)
    IN  NotLoop(IF t > it.skipped THEN [it EXCEPT !.doc = t, !.skipped = adv.doc, !.it = adv.it]
                ELSE [it EXCEPT !.doc = t])
SubNext(it) ==
    CASE it.kind = "short" -> ShortNext(it)
      [] it.kind = "int" -> IntNext(it)
      [] it.kind = "bit" -> BitAdvance(it, it.doc + 1)
      [] it.kind = "not" -> NotAdvance(it, it.doc + 1)
SubAdvance(it, t) ==
    CASE it.kind = "short" -> ShortAdvance(it, t)
      [] it.kind = "int" -> IntAdvance(it, t)
      [] it.kind = "bit" -> BitAdvance(it, t)
      [] it.kind = "not" -> NotAdvance(it, t)

(***************************************************************************)
(* RoaringDocIdSet: each block an array, a bit set or the complement of an *)
(* array, in the form that is smallest.                                    *)
(***************************************************************************)
Blocks == (MaxDoc + BlockSize - 1) \div BlockSize
NewRoaring == [sets |-> [b \in 0..Blocks - 1 |-> <<>>], cardinality |-> 0, block |-> -1, docs |-> <<>>, failed |-> FALSE]
BlockLength(b) == Min({BlockSize, MaxDoc - b * BlockSize})
\* The first n docs after the flip; the assertion that they are all fails otherwise.
Excluded(r) == Ascending(Flip(Range(r.docs), 0, BlockLength(r.block)))
FlushRoaring(r) ==
    LET n == Len(r.docs)
        excluded == SubSeq(Excluded(r), 1, Min({Len(Excluded(r)), BlockSize - n}))
        inverted == BlockLength(r.block) = BlockSize /\ BlockSize - n < MaxArrayLength
        sub == CASE n <= MaxArrayLength -> ShortIter(r.docs)
                 [] n > MaxArrayLength /\ inverted -> NotIter(excluded, BlockSize)
                 [] OTHER -> BitIter(Range(r.docs), BlockLength(r.block))
    IN  IF n = 0 THEN r
        ELSE [r EXCEPT !.sets[r.block] = <<sub>>, !.cardinality = @ + n, !.docs = <<>>,
                       !.failed = n > MaxArrayLength /\ inverted /\ Len(Excluded(r)) # BlockSize - n]
AddToRoaring(r, doc) ==
    LET b == doc \div BlockSize
        s == IF b # r.block THEN [FlushRoaring(r) EXCEPT !.block = b] ELSE r
    IN  [s EXCEPT !.docs = Append(@, doc % BlockSize)]
RoaringIter(r) ==
    [kind |-> "roaring", sets |-> r.sets, doc |-> -1, block |-> -1, sub |-> <<IntIter(<<NoMoreDocs>>, 0)>>]
RECURSIVE FirstDocFromNextBlock(_)
FirstDocFromNextBlock(it) ==
    LET b == it.block + 1
        next == SubNext(it.sets[b][1])
    IN  CASE b >= Blocks -> [it |-> [it EXCEPT !.block = b, !.sub = <<>>, !.doc = NoMoreDocs], doc |-> NoMoreDocs]
          [] b < Blocks /\ it.sets[b] = <<>> -> FirstDocFromNextBlock([it EXCEPT !.block = b])
          [] OTHER -> [it |-> [it EXCEPT !.block = b, !.sub = <<next.it>>, !.doc = b * BlockSize + next.doc],
                       doc |-> b * BlockSize + next.doc]
InBlock(it, sub) ==
    IF sub.doc = NoMoreDocs THEN FirstDocFromNextBlock([it EXCEPT !.sub = <<sub.it>>])
    ELSE [it |-> [it EXCEPT !.sub = <<sub.it>>, !.doc = it.block * BlockSize + sub.doc],
          doc |-> it.block * BlockSize + sub.doc]
RoaringNext(it) == InBlock(it, SubNext(it.sub[1]))
\* Mutant: the block of the target is not entered.
RoaringAdvance_block(it, t) == InBlock(it, SubAdvance(it.sub[1], t % BlockSize))
RoaringAdvance(it, t) ==
    LET b == t \div BlockSize
        moved == [it EXCEPT !.block = b]
    IN  CASE b = it.block -> InBlock(it, SubAdvance(it.sub[1], t % BlockSize))
          [] b # it.block /\ b > Blocks -> [it |-> [moved EXCEPT !.sub = <<>>, !.doc = NoMoreDocs], doc |-> NoMoreDocs]
          [] b # it.block /\ b <= Blocks /\ it.sets[b] = <<>> -> FirstDocFromNextBlock(moved)
          [] OTHER -> InBlock(moved, SubAdvance(it.sets[b][1], t % BlockSize))

(***************************************************************************)
(* DocIdSetBuilder: buffers up to a threshold, then a bit set.  grow       *)
(* announces how many docs may be added.                                   *)
(***************************************************************************)
Threshold == MaxDoc \div 2^Shift
NewBuilder == [buffers |-> <<>>, allocated |-> 0, bits |-> {}, dense |-> FALSE, counter |-> -1, room |-> 0]
AdditionalCapacity(b, n) == Min({Threshold - b.allocated, Max({MinBuffer, n + 1, b.allocated})})
AddBuffer(b, cap) ==
    [b EXCEPT !.buffers = Append(@, [cap |-> cap, docs |-> <<>>]), !.allocated = @ + cap]
EnsureBufferCapacity(b, n) ==
    IF b.buffers # <<>> /\ Len(Last(b.buffers).docs) >= n + Last(b.buffers).cap THEN b
    ELSE AddBuffer(b, AdditionalCapacity(b, n))
Buffered(b) == FlattenSeq([k \in DOMAIN b.buffers |-> b.buffers[k].docs])
Upgrade2BitSet(b) ==
    [b EXCEPT !.bits = Range(Buffered(b)), !.dense = TRUE, !.counter = Len(Buffered(b)), !.buffers = <<>>]
Grow(b, n) ==
    LET c == CASE b.dense -> b
               [] ~b.dense /\ b.allocated + n <= Threshold -> EnsureBufferCapacity(b, n)
               [] OTHER -> Upgrade2BitSet(b)
    IN  [c EXCEPT !.counter = IF c.dense THEN @ + n ELSE @, !.room = n]
AddDoc(b, doc) ==
    IF b.dense THEN [b EXCEPT !.bits = @ \cup {doc}, !.room = @ - 1]
    ELSE [b EXCEPT !.buffers[Len(b.buffers)].docs = Append(@, doc), !.room = @ - 1]
\* concat, the radix sort (see Sorters), dedup: the docs in order, then the sentinel.
BuildSet(b) ==
    IF b.dense THEN BitIter(b.bits, MaxDoc)
    ELSE LET docs == Ascending(Range(Buffered(b))) IN IntIter(Append(docs, NoMoreDocs), Len(docs))

(***************************************************************************)
(* SparseBits: docs[index] = ctx.doc <= the doc asked for < ctx.next.      *)
(***************************************************************************)
SparseDocs == Ascending(given)
FirstContext(docs) == [index |-> -1, doc |-> -1, next |-> IF docs = <<>> THEN MaxDoc ELSE docs[1]]
\* [ctx, hi]
RECURSIVE GallopFrom(_, _, _, _)
GallopFrom(docs, c, hi, doc) ==
    CASE hi >= Len(docs) -> [ctx |-> [c EXCEPT !.next = MaxDoc], hi |-> Len(docs)]
      [] hi < Len(docs) /\ docs[hi + 1] > doc -> [ctx |-> [c EXCEPT !.next = docs[hi + 1]], hi |-> hi]
      [] OTHER -> GallopFrom(docs, [c EXCEPT !.index = hi, !.doc = docs[hi + 1]], hi + 2 * (hi - c.index), doc)
Gallop(docs, c, doc) ==
    LET d == [c EXCEPT !.index = @ + 1, !.doc = c.next] IN GallopFrom(docs, d, d.index + 1, doc)
RECURSIVE BinarySearch(_, _, _, _)
BinarySearch(docs, c, hi, doc) ==
    LET mid == c.index + (hi - c.index) \div 2
    IN  IF c.index + 1 >= hi THEN c
        ELSE IF docs[mid + 1] > doc THEN BinarySearch(docs, [c EXCEPT !.next = docs[mid + 1]], mid, doc)
             ELSE BinarySearch(docs, [c EXCEPT !.index = mid, !.doc = docs[mid + 1]], hi, doc)
Get64(docs, ctx, doc) ==
    LET c == IF doc < ctx.doc THEN FirstContext(docs) ELSE ctx
        g == Gallop(docs, c, doc)
    IN  IF doc >= c.next THEN BinarySearch(docs, g.ctx, g.hi, doc) ELSE c
CheckInvariants(docs, c, doc) ==
    /\ c.doc <= doc /\ doc < c.next
    /\ (c.index = -1 /\ c.doc = -1) \/ c.doc = docs[c.index + 1]
    /\ (c.index + 1 = Len(docs) /\ c.next = MaxDoc) \/ c.next = docs[c.index + 2]

(***************************************************************************)
(* The life of a set: docs are added, the set is built, its iterator used. *)
(***************************************************************************)
Init ==
    /\ kind \in {"builder", "roaring", "not", "sparse"}
    /\ set = CASE kind = "builder" -> NewBuilder [] kind = "roaring" -> NewRoaring [] OTHER -> <<>>
    /\ given = {} /\ iter = <<>> /\ target = -1 /\ returned = -1 /\ sparse = <<>>
Building == iter = <<>> /\ sparse = <<>>
AnnounceDocs(n) ==
    /\ Building /\ kind = "builder" /\ set.room = 0
    /\ set' = Grow(set, n)
    /\ UNCHANGED <<kind, given, iter, target, returned, sparse>>
Add(doc) ==
    /\ Building
    \* Only the builder takes docs in any order, each at most once here.
    /\ doc \notin given /\ (kind = "builder" \/ \A d \in given : d < doc)
    /\ kind = "builder" => set.room > 0
    /\ set' = CASE kind = "builder" -> AddDoc(set, doc)
                [] kind = "roaring" -> AddToRoaring(set, doc)
                [] OTHER -> Append(set, doc)
    /\ given' = given \cup {doc}
    /\ UNCHANGED <<kind, iter, target, returned, sparse>>
Build ==
    /\ Building /\ kind # "sparse"
    /\ kind = "roaring" => given # {}        \* iterator() is None otherwise
    /\ set' = IF kind = "roaring" THEN FlushRoaring(set) ELSE set
    /\ iter' = CASE kind = "builder" -> <<BuildSet(set)>>
                 [] kind = "roaring" -> <<RoaringIter(set')>>
                 [] kind = "not" -> <<NotIter(set, MaxDoc)>>
    /\ UNCHANGED <<kind, given, target, returned, sparse>>
Move(answer, t) ==
    /\ iter' = <<answer.it>> /\ returned' = answer.doc /\ target' = t
    /\ UNCHANGED <<kind, set, given, sparse>>
Positioned == iter # <<>> /\ returned # NoMoreDocs /\ (kind = "roaring" => ~set.failed)
Next1 ==
    /\ Positioned
    /\ Move(IF kind = "roaring" THEN RoaringNext(iter[1]) ELSE SubNext(iter[1]), returned + 1)
Advance(t) ==
    /\ Positioned /\ t > returned
    /\ Move(IF kind = "roaring" THEN RoaringAdvance(iter[1], t) ELSE SubAdvance(iter[1], t), t)
SparseGet(doc) ==
    /\ kind = "sparse" /\ iter = <<>>
    /\ sparse' = <<Get64(SparseDocs, IF sparse = <<>> THEN FirstContext(SparseDocs) ELSE sparse[1], doc)>>
    /\ target' = doc /\ UNCHANGED <<kind, set, given, iter, returned>>
Next ==
    \/ \E n \in 0..MaxGrow : AnnounceDocs(n)
    \/ \E doc \in 0..MaxDoc - 1 : Add(doc) \/ Advance(doc) \/ SparseGet(doc)
    \/ Build
    \/ Next1
    \/ Advance(NoMoreDocs)
Spec == Init /\ [][Next]_vars

(***************************************************************************)
(* Properties.                                                             *)
(***************************************************************************)
Members == IF kind = "not" THEN (0..MaxDoc - 1) \ given ELSE given
NearlyFull(b) == BlockSize - Cardinality({d \in given : d \div BlockSize = b}) < MaxArrayLength
(* Every iterator, over every form a set can take, answers next and        *)
(* advance with the least doc of the set that is not before the one asked  *)
(* for; a lookup in SparseBits answers membership whatever was asked       *)
(* before.  Roaring sets with a block kept as a complement are left out:   *)
(* see FullBlocksKept.                                                     *)
SetsExact ==
    /\ target # -1 /\ iter # <<>> /\ (kind = "roaring" => \A b \in 0..Blocks - 1 : ~NearlyFull(b))
           => returned = Min({NoMoreDocs} \cup {d \in Members : d >= target})
    /\ sparse # <<>> => /\ CheckInvariants(SparseDocs, sparse[1], target)
                        /\ sparse[1].doc = target <=> target \in given
(* A roaring set keeps a nearly full block as the complement of what it    *)
(* lacks: violated, flip leaves the first and the last word as they were,  *)
(* so the assertion on the excluded docs fails.                            *)
FullBlocksKept == kind = "roaring" => ~set.failed
\* batch_set and clear_batch change exactly the bits of a range.
RangesExact ==
    \A a \in 0..MaxDoc - 1, b \in 0..MaxDoc :
        /\ BatchSet(given, a, b) = given \cup (a..b - 1)
        /\ ClearBatch(given, a, b) = given \ (a..b - 1)
=============================================================================
