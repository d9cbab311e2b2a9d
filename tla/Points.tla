------------------------------- MODULE Points -------------------------------
(* Points: what a field's PointValuesWriter buffers, the BKD tree a flush    *)
(* writes, the range queries that walk it and the merge that rewrites the    *)
(* trees of several segments.  A value is a sequence of bytes, BytesPerDim   *)
(* for each dimension.  A file is a sequence of items: a byte, or a number   *)
(* written as one (vint, vlong); a fixed-width doc id is two items.  File    *)
(* pointers count items from 0.                                              *)
EXTENDS Integers, Sequences, FiniteSets, FiniteSetsExt, SequencesExt
CONSTANTS NumDims, BytesPerDim,
          Byte,        \* the number of byte values
          RunMax,      \* the longest run of a compressed byte: 0xFF
          AllEqual,    \* the mark of a leaf whose values are one: 0xFF
          NarrowDoc,   \* doc ids up to this are written in 24 bits
          LeafSizes,   \* candidates for max_points_in_leaf_node
          Values,      \* the packed values that are added
          MaxPoints,   \* bound: points added
          MaxSegments, \* bound: segments flushed
          Deletes      \* whether docs are deleted before a merge
VARIABLES leafSize,    \* max_points_in_leaf_node
          buffer,      \* PointValuesWriter: doc_ids and bytes, num_docs, last_doc_id
          segments,    \* the points files, each with the points it was given
          merged       \* the points file of the merge, if it ran
vars == <<leafSize, buffer, segments, merged>>

PackedLength == NumDims * BytesPerDim
Dims == 0..NumDims - 1
Slice(v, dim) == SubSeq(v, dim * BytesPerDim + 1, (dim + 1) * BytesPerDim)
From(v, dim, prefix) == SubSeq(v, dim * BytesPerDim + prefix + 1, (dim + 1) * BytesPerDim)
\* The order of byte slices: a proper prefix is less.
Less(a, b) ==
    \/ Len(a) < Len(b) /\ IsPrefix(a, b)
    \/ \E k \in 1..Min({Len(a), Len(b)}) : SubSeq(a, 1, k - 1) = SubSeq(b, 1, k - 1) /\ a[k] < b[k]
Zeros == [k \in 1..PackedLength |-> 0]
PrefixLength(a, b) == Max({k \in 0..Len(a) : SubSeq(a, 1, k) = SubSeq(b, 1, k)})
Splice(v, at, bytes) == SubSeq(v, 1, at) \o bytes \o SubSeq(v, at + Len(bytes) + 1, Len(v))
Docs(points) == [k \in DOMAIN points |-> points[k].doc]

(***************************************************************************)
(* DocIdsWriter.                                                           *)
(***************************************************************************)
WriteDocIds(docs) ==
    IF \A k \in 1..Len(docs) - 1 : docs[k] <= docs[k + 1]
    THEN <<0>> \o [k \in DOMAIN docs |-> IF k = 1 THEN docs[k] ELSE docs[k] - docs[k - 1]]
    ELSE <<IF Max(Range(docs)) <= NarrowDoc THEN 24 ELSE 32>>
         \o FlattenSeq([k \in DOMAIN docs |-> <<docs[k] \div Byte, docs[k] % Byte>>])
DeltaDocs(file, fp, count) == [k \in 1..count |-> FoldLeft(LAMBDA n, x : n + x, 0, SubSeq(file, fp + 1, fp + k))]
WideDocs(file, fp, count) == [k \in 1..count |-> file[fp + 2 * k - 1] * Byte + file[fp + 2 * k]]
\* [docs, fp]: read_ints, from the byte that tells the encoding on.
ReadInts(file, fp, count) ==
    IF file[fp + 1] = 0 THEN [docs |-> DeltaDocs(file, fp + 1, count), fp |-> fp + 1 + count]
    ELSE [docs |-> WideDocs(file, fp + 1, count), fp |-> fp + 1 + 2 * count]
\* read_ints_with_visitor reads a 32-bit doc id as a vint.
ReadIntsWithVisitor(file, fp, count) ==
    CASE file[fp + 1] = 0 -> DeltaDocs(file, fp + 1, count)
      [] file[fp + 1] = 24 -> WideDocs(file, fp + 1, count)
      [] file[fp + 1] = 32 -> [k \in 1..count |-> file[fp + 1 + k]]

(***************************************************************************)
(* BKDWriter: a leaf block.                                                *)
(***************************************************************************)
WriteCommonPrefixes(prefixes, v) ==
    FlattenSeq([d \in 1..NumDims |-> <<prefixes[d]>> \o SubSeq(Slice(v, d - 1), 1, prefixes[d])])
\* Mutant: the first byte is compared, whatever the dimension.
RunLen_first(values, start, end, offset) ==
    Max({n \in 1..end - start + 1 : \A k \in start..start + n - 1 : values[k][1] = values[start][1]})
RunLen(values, start, end, offset) ==
    Max({n \in 1..end - start + 1 : \A k \in start..start + n - 1 : values[k][offset] = values[start][offset]})
WriteRange(values, prefixes, start, end) ==
    FlattenSeq([k \in 1..end - start + 1 |->
        FlattenSeq([d \in 1..NumDims |-> From(values[start + k - 1], d - 1, prefixes[d])])])
RECURSIVE WriteRuns(_, _, _, _)
WriteRuns(values, prefixes, offset, start) ==
    IF start > Len(values) THEN <<>>
    ELSE LET n == RunLen(values, start, Min({Len(values), start + RunMax - 1}), offset)
         IN  <<values[start][offset], n>> \o WriteRange(values, prefixes, start, start + n - 1)
             \o WriteRuns(values, prefixes, offset, start + n)
WriteLeafBlockPackedValues(values, prefixes, sortedDim) ==
    IF \A d \in 1..NumDims : prefixes[d] = BytesPerDim THEN <<AllEqual>>
    ELSE <<sortedDim>> \o WriteRuns(values, [prefixes EXCEPT ![sortedDim + 1] = @ + 1],
                                    sortedDim * BytesPerDim + prefixes[sortedDim + 1] + 1, 1)
WriteLeafBlock(points, prefixes, sortedDim) ==
    <<Len(points)>> \o WriteDocIds(Docs(points)) \o WriteCommonPrefixes(prefixes, points[1].value)
    \o WriteLeafBlockPackedValues([k \in DOMAIN points |-> points[k].value], prefixes, sortedDim)

(***************************************************************************)
(* The index: inner node n has the children 2n and 2n + 1.                 *)
(***************************************************************************)
\* The splits of a field of one dimension, from the first values of the leaves but the first.
RECURSIVE RotateToTree(_, _, _, _)
RotateToTree(node, offset, count, starts) ==
    IF count = 0 THEN <<>>
    ELSE LET full == Max({k \in 0..count : 2^k - 1 < count})   \* levels above the last one
             left == (2^full - 2) \div 2 + Min({count - (2^full - 1), 2^full \div 2})
             half == IF count = 1 THEN 0 ELSE left
             own  == node :> [dim |-> 0, value |-> starts[offset + half + 1]]
         IN  own @@ RotateToTree(2 * node, offset, half, starts)
                 @@ RotateToTree(2 * node + 1, offset + half + 1, count - half - 1, starts)
\* Mutant: the leaves are not rotated.
LeafOrder_file(fps) == fps
\* With one dimension the leaves of the last level come first in the file.
LeafOrder(fps) ==
    LET n == Len(fps)
        levelCount == Min({c \in {2^k : k \in 1..n} : c <= n /\ n <= 2 * c})
        last == 2 * (n - levelCount)
    IN  IF NumDims > 1 \/ n = 1 THEN fps ELSE SubSeq(fps, last + 1, n) \o SubSeq(fps, 1, last)
LeftMostLeafBlockFp(fps, node) ==
    LET leaf == CHOOSE m \in {node * 2^k : k \in 0..Len(fps)} : m >= Len(fps) /\ m < 2 * Len(fps)
    IN  fps[leaf - Len(fps) + 1]
RECURSIVE RecursePackIndex(_, _, _, _, _, _, _)
RecursePackIndex(fps, tree, minFp, node, last, negative, isLeft) ==
    IF node >= Len(fps)
    THEN IF isLeft \/ node >= 2 * Len(fps) THEN <<>> ELSE <<fps[node - Len(fps) + 1] - minFp>>
    ELSE LET dim   == tree[node].dim
             split == tree[node].value
             next  == Splice(last, dim * BytesPerDim, split)
             Diff(prefix) == IF prefix = BytesPerDim THEN 0
                             ELSE (IF negative[dim] THEN -1 ELSE 1) * (split[prefix + 1] - Slice(last, dim)[prefix + 1])
             Code(prefix) == <<(Diff(prefix) * (1 + BytesPerDim) + prefix) * NumDims + dim>>
                             \o SubSeq(split, prefix + 2, BytesPerDim)
             Sides(left, right) == (IF 2 * node < Len(fps) THEN <<Len(left)>> ELSE <<>>) \o left \o right
             Below(leftFp, side) == RecursePackIndex(fps, tree, leftFp, IF side THEN 2 * node ELSE 2 * node + 1, next,
                                                     [negative EXCEPT ![dim] = side], side)
             Node(leftFp) == (IF isLeft THEN <<>> ELSE <<leftFp - minFp>>)
                             \o Code(PrefixLength(split, Slice(last, dim)))
                             \o Sides(Below(leftFp, TRUE), Below(leftFp, FALSE))
         IN  Node(IF isLeft THEN minFp ELSE LeftMostLeafBlockFp(fps, node))
PackIndex(fps, tree) ==
    RecursePackIndex(LeafOrder(fps), tree, 0, 1, Zeros, [d \in Dims |-> FALSE], FALSE)
\* [file, header]: write_index_packed.
WriteIndex(file, fps, tree, points, low, high) ==
    [file |-> file, size |-> leafSize, leaves |-> Len(fps), min |-> low, max |-> high, pointCount |-> Len(points),
     docCount |-> Cardinality(Range(Docs(points))), index |-> PackIndex(fps, tree)]

\* OneDimensionBKDWriter: add and finish, on points in order.
OneDimension(points) ==
    LET n      == (Len(points) + leafSize - 1) \div leafSize
        Leaf(k) == SubSeq(points, (k - 1) * leafSize + 1, Min({k * leafSize, Len(points)}))
        Prefix(k) == PrefixLength(Leaf(k)[1].value, Last(Leaf(k)).value)
        tree   == RotateToTree(1, 0, n - 1, [k \in 1..n - 1 |-> Leaf(k + 1)[1].value])
        Write(blocks) == WriteIndex(FlattenSeq(blocks), [k \in 1..n |-> Len(FlattenSeq(SubSeq(blocks, 1, k - 1)))],
                                    tree, points, points[1].value, Last(points).value)
    IN  Write([k \in 1..n |-> WriteLeafBlock(Leaf(k), <<Prefix(k)>>, 0)])
\* MutablePointsReaderUtils::sort: by value, then by doc (the sort itself is in Sorters).
PointLess(p, q) == Less(p.value, q.value) \/ (p.value = q.value /\ p.doc < q.doc)
WriteField1Dim(points) == OneDimension(SortSeq(points, PointLess))

(***************************************************************************)
(* BKDWriter::finish: points in any number of dimensions, added in any     *)
(* order.  slices[d + 1] is the part of the points below a node, sorted by *)
(* dimension d; `splits` counts the splits of a dimension above the node.  *)
(***************************************************************************)
Split(low, high, splits) ==
    LET most  == Max(Range(splits))
        Rare(d) == splits[d + 1] < most \div 2 /\ Slice(low, d) # Slice(high, d)
        Number(b) == FoldLeft(LAMBDA n, x : n * Byte + x, 0, b)
        Width(d) == Number(Slice(high, d)) - Number(Slice(low, d))
    IN  IF \E d \in Dims : Rare(d) THEN Min({d \in Dims : Rare(d)})
        ELSE Min({d \in Dims : \A e \in Dims : Width(e) <= Width(d)})
\* The dimension a leaf is sorted by: the fewest bytes after the prefix, of which two are compared.
SortedDim(slices, prefixes) ==
    LET Second(s) == s[Min({2, Len(s)})].value
        Bytes(d) == IF Second(slices[d + 1])[d * BytesPerDim + prefixes[d + 1] + 1]
                       = slices[d + 1][1].value[d * BytesPerDim + prefixes[d + 1] + 1] THEN 1 ELSE 2
        Open  == {d \in Dims : prefixes[d + 1] < BytesPerDim}
    IN  IF Open = {} THEN 0 ELSE Min({d \in Open : \A e \in Open : Bytes(d) <= Bytes(e)})
RECURSIVE Build(_, _, _, _, _, _)
Build(node, leaves, slices, splits, bounds, s) ==
    LET half == Len(slices[1]) - Len(slices[1]) \div 2
        Rights(dim) == Range(SubSeq(slices[dim + 1], half + 1, Len(slices[1])))
        Half(rights, right) == [d \in 1..NumDims |-> SelectSeq(slices[d], LAMBDA p : (p \in rights) = right)]
        \* The value of the split is not written down with its dimension.
        Begun(dim) == [s EXCEPT !.tree = (node :> [dim |-> dim, value |-> [k \in 1..BytesPerDim |-> 0]]) @@ @]
        Halves(dim, below, rights) ==
            Build(2 * node + 1, leaves, Half(rights, TRUE), below, bounds,
                  Build(2 * node, leaves, Half(rights, FALSE), below, bounds, Begun(dim)))
        Inner(dim) == Halves(dim, [splits EXCEPT ![dim + 1] = @ + 1], Rights(dim))
        Leaf(prefixes, sorted) == [s EXCEPT !.fps = (node - leaves + 1 :> Len(s.file)) @@ @,
                                            !.file = @ \o WriteLeafBlock(slices[sorted + 1], prefixes, sorted)]
        Sorted(prefixes) == Leaf(prefixes, SortedDim(slices, prefixes))
    IN  IF node < leaves THEN Inner(Split(bounds.low, bounds.high, splits))
        ELSE Sorted([d \in 1..NumDims |-> PrefixLength(Slice(slices[d][1].value, d - 1), Slice(Last(slices[d]).value, d - 1))])
NumLeaves(count) == LET halved == Min({k \in 0..count : (count + 2^k - 1) \div 2^k <= leafSize}) IN 2^halved
ExtremeBytes(points, lowest) ==
    FlattenSeq([d \in 1..NumDims |-> CHOOSE b \in {Slice(p.value, d - 1) : p \in Range(points)} :
                                       \A p \in Range(points) : ~IF lowest THEN Less(Slice(p.value, d - 1), b) ELSE Less(b, Slice(p.value, d - 1))])
Finish(points) ==
    LET Key(p, d) == [value |-> Slice(p.value, d), doc |-> p.doc]
        \* Each point carries its ord, by which the right half is marked.
        tagged == [k \in DOMAIN points |-> [ord |-> k] @@ points[k]]
        ByDim(d) == SortSeq(tagged, LAMBDA p, q : PointLess(Key(p, d), Key(q, d)))
        Written(s, low, high) == WriteIndex(s.file, s.fps, s.tree, points, low, high)
        Bounded(low, high) ==
            Written(Build(1, NumLeaves(Len(points)), [d \in 1..NumDims |-> ByDim(d - 1)], [d \in 1..NumDims |-> 0],
                          [low |-> low, high |-> high], [file |-> <<>>, fps |-> <<>>, tree |-> <<>>]), low, high)
    IN  Bounded(ExtremeBytes(points, TRUE), ExtremeBytes(points, FALSE))

(***************************************************************************)
(* BKDReader.                                                              *)
(***************************************************************************)
\* [docs, values, fp]: a leaf block read whole (read_doc_ids, visit_doc_values).
ReadDocIds(file, fp) == ReadInts(file, fp + 1, file[fp + 1])
ReadCommonPrefixes(file, fp) ==
    LET Step(s, d) == LET n == file[s.fp + 1]
                      IN  [fp |-> s.fp + 1 + n, prefixes |-> Append(s.prefixes, n),
                           value |-> Splice(s.value, (d - 1) * BytesPerDim, SubSeq(file, s.fp + 2, s.fp + 1 + n))]
    IN  FoldLeft(Step, [fp |-> fp, prefixes |-> <<>>, value |-> Zeros], [d \in 1..NumDims |-> d])
ReadValue(file, s) ==
    LET Step(t, d) == LET n == BytesPerDim - s.prefixes[d]
                      IN  [fp |-> t.fp + n,
                           value |-> Splice(t.value, (d - 1) * BytesPerDim + s.prefixes[d], SubSeq(file, t.fp + 1, t.fp + n))]
        Read(r) == [s EXCEPT !.fp = r.fp, !.value = r.value, !.values = Append(@, r.value)]
    IN  Read(FoldLeft(Step, [fp |-> s.fp, value |-> s.value], [d \in 1..NumDims |-> d]))
RECURSIVE ReadRuns(_, _, _, _)
ReadRuns(file, s, offset, count) ==
    IF Len(s.values) >= count THEN s
    ELSE LET begun == [s EXCEPT !.value[offset] = file[s.fp + 1], !.fp = @ + 2]
         IN  ReadRuns(file, FoldLeft(LAMBDA t, k : ReadValue(file, t), begun, [k \in 1..file[s.fp + 2] |-> k]), offset, count)
VisitDocValues(file, fp, count) ==
    LET Visit(s, d) ==
            IF d = AllEqual THEN FoldLeft(LAMBDA t, k : ReadValue(file, t), s, [k \in 1..count |-> k])
            ELSE ReadRuns(file, [s EXCEPT !.prefixes[d + 1] = @ + 1], d * BytesPerDim + s.prefixes[d + 1] + 1, count)
        Start(p) == Visit([fp |-> p.fp + 1, prefixes |-> p.prefixes, value |-> p.value, values |-> <<>>], file[p.fp + 1])
    IN  Start(ReadCommonPrefixes(file, fp))
ReadLeaf(file, fp) ==
    LET Leaf(ids, vs) == [docs |-> ids.docs, values |-> vs.values, fp |-> vs.fp, scratch |-> vs.value]
        Read(ids) == Leaf(ids, VisitDocValues(file, ids.fp, file[fp + 1]))
    IN  Read(ReadDocIds(file, fp))

\* PackedIndexTree: the data of a node, read at `pos`; `up` is the data of its parent.
ReadNodeData(t, pos, node, up, isLeft) ==
    LET inner == 2 * node < t.leaves
        Delta(dim, rest) == (IF up.negative[dim] THEN -1 ELSE 1) * (rest \div (1 + BytesPerDim))
        Value(at, dim, rest, prefix) ==
            IF prefix = BytesPerDim THEN up.values
            ELSE Splice(up.values, dim * BytesPerDim + prefix,
                        <<up.values[dim * BytesPerDim + prefix + 1] + Delta(dim, rest)>>
                            \o SubSeq(t.index, at + 2, at + BytesPerDim - prefix))
        Node(fp, dim, value, next) ==
            [fp |-> fp, node |-> node, dim |-> dim, values |-> value, negative |-> up.negative,
             left |-> IF inner THEN next + 1 ELSE next, right |-> IF inner THEN next + 1 + t.index[next + 1] ELSE next]
        Decoded(fp, at, dim, rest, prefix) ==
            Node(fp, dim, Value(at, dim, rest, prefix), at + 1 + Max({0, BytesPerDim - prefix - 1}))
        Inner(fp, at, code) == Decoded(fp, at, code % NumDims, code \div NumDims, (code \div NumDims) % (1 + BytesPerDim))
        Start(fp, at) == IF node >= t.leaves THEN [fp |-> fp, node |-> node] ELSE Inner(fp, at, t.index[at + 1])
    IN  IF isLeft THEN Start(up.fp, pos) ELSE Start(up.fp + t.index[pos + 1], pos + 1)
Root(t) == ReadNodeData(t, 0, 1, [fp |-> 0, values |-> Zeros, negative |-> [d \in Dims |-> FALSE]], FALSE)
Push(n, side) == [n EXCEPT !.negative[n.dim] = side]
PushLeft(t, n) == ReadNodeData(t, n.left, 2 * n.node, Push(n, TRUE), TRUE)
PushRight(t, n) == ReadNodeData(t, n.right, 2 * n.node + 1, Push(n, FALSE), FALSE)

(***************************************************************************)
(* PointRangeQuery: the visitor, and the walk it directs.  The result is   *)
(* the sequence of the docs that are visited.                              *)
(***************************************************************************)
InRange(v, lower, upper) ==
    \A d \in Dims : ~Less(Slice(v, d), Slice(lower, d)) /\ ~Less(Slice(upper, d), Slice(v, d))
Relation(low, high, lower, upper) ==
    LET Outside(d) == \/ Less(Slice(upper, d), Slice(low, d))
                      \/ Less(Slice(high, d), SubSeq(lower, d * BytesPerDim + 1, PackedLength))
        Crosses(d) == Less(Slice(low, d), Slice(lower, d)) \/ Less(Slice(upper, d), Slice(high, d))
    IN  CASE \E d \in Dims : Outside(d) -> "outside"
          [] ~(\E d \in Dims : Outside(d)) /\ (\E d \in Dims : Crosses(d)) -> "crosses"
          [] OTHER -> "inside"
NodeExists(t, n) == n.node - t.leaves < t.leaves
VisitLeaf(t, n, lower, upper) ==
    LET Visit(leaf) == FoldLeft(LAMBDA out, k : IF InRange(leaf.values[k], lower, upper) THEN Append(out, leaf.docs[k]) ELSE out,
                                <<>>, [k \in DOMAIN leaf.docs |-> k])
    IN  Visit(ReadLeaf(t.file, n.fp))
RECURSIVE AddAll(_, _)
AddAll(t, n) ==
    CASE n.node >= t.leaves /\ NodeExists(t, n) -> ReadIntsWithVisitor(t.file, n.fp + 1, t.file[n.fp + 1])
      [] n.node >= t.leaves /\ ~NodeExists(t, n) -> <<>>
      [] OTHER -> AddAll(t, PushLeft(t, n)) \o AddAll(t, PushRight(t, n))
RECURSIVE IntersectWithState(_, _, _, _, _, _)
IntersectWithState(t, n, low, high, lower, upper) ==
    LET AtSplit(v) == Splice(v, n.dim * BytesPerDim, Slice(n.values, n.dim))
        Walk(r) ==
            CASE r = "outside" -> <<>>
              [] r = "inside" -> AddAll(t, n)
              [] r = "crosses" /\ n.node >= t.leaves -> IF NodeExists(t, n) THEN VisitLeaf(t, n, lower, upper) ELSE <<>>
              [] OTHER -> IntersectWithState(t, PushLeft(t, n), low, AtSplit(high), lower, upper)
                          \o IntersectWithState(t, PushRight(t, n), AtSplit(low), high, lower, upper)
    IN  Walk(Relation(low, high, lower, upper))
Intersect(t, lower, upper) == IntersectWithState(t, Root(t), t.min, t.max, lower, upper)
\* PointRangeWeight::create_scorer: every doc of the segment when all have a point in range.
AllDocsMatch(t, maxDoc, lower, upper) ==
    t.docCount = maxDoc /\ \A d \in Dims : ~Less(Slice(t.min, d), Slice(lower, d)) /\ ~Less(Slice(upper, d), Slice(t.max, d))
RangeQuery(t, maxDoc, lower, upper) ==
    IF AllDocsMatch(t, maxDoc, lower, upper) THEN 0..maxDoc - 1 ELSE Range(Intersect(t, lower, upper))

(***************************************************************************)
(* BKDWriter::merge: a heap of readers, the one with the least value and   *)
(* doc on top.                                                             *)
(***************************************************************************)
NewMergeReader(t, docMap) ==
    [t |-> t, map |-> docMap, fp |-> t.index[1], upto |-> 0, docs |-> <<>>, values |-> <<>>, block |-> 0,
     doc |-> 0, scratch |-> Zeros, live |-> TRUE]
RECURSIVE NextPoint(_)
NextPoint(m) ==
    IF m.upto = Len(m.docs) /\ m.block = m.t.leaves THEN [m EXCEPT !.live = FALSE]
    ELSE LET \* Reading the values of a block leaves its last one in the scratch value.
             Load(leaf) == [m EXCEPT !.docs = leaf.docs, !.values = leaf.values, !.fp = leaf.fp, !.upto = 0,
                                     !.block = @ + 1, !.scratch = leaf.scratch]
             Found(b, doc) == [b EXCEPT !.upto = @ + 1, !.doc = doc, !.scratch = b.values[b.upto + 1]]
             Take(b) == IF b.map[b.docs[b.upto + 1]] = -1 THEN NextPoint([b EXCEPT !.upto = @ + 1])
                        ELSE Found(b, b.map[b.docs[b.upto + 1]])
         IN  Take(IF m.upto < Len(m.docs) THEN m ELSE Load(ReadLeaf(m.t.file, m.fp)))
\* Mutant: the docs are compared, not the values.
OnTop_doc(queue) == CHOOSE m \in queue : \A o \in queue \ {m} : m.doc < o.doc
OnTop(queue) ==
    CHOOSE m \in queue : \A o \in queue \ {m} : PointLess([value |-> m.scratch, doc |-> m.doc], [value |-> o.scratch, doc |-> o.doc])
RECURSIVE MergeLoop(_, _)
MergeLoop(queue, points) ==
    IF queue = {} THEN points
    ELSE LET Sifted(next, sifted) == IF next.live THEN sifted ELSE sifted \ {OnTop(sifted)}
             Advance(top, next) == Sifted(next, (queue \ {top}) \cup {next})
             Emit(top) == MergeLoop(Advance(top, NextPoint(top)), Append(points, [doc |-> top.doc, value |-> top.scratch]))
         IN  Emit(OnTop(queue))
MergePoints(trees, docMaps) ==
    MergeLoop({m \in {NextPoint(NewMergeReader(trees[k], docMaps[k])) : k \in DOMAIN trees} : m.live}, <<>>)

(***************************************************************************)
(* The life of a field: add_packed_value, flush, merge.                    *)
(***************************************************************************)
EmptyBuffer == [points |-> <<>>, numDocs |-> 0, lastDoc |-> -1]
Init ==
    /\ leafSize \in LeafSizes
    /\ buffer = EmptyBuffer
    /\ segments = <<>>
    /\ merged = <<>>
Added == Len(buffer.points) + FoldLeft(LAMBDA n, s : n + Len(s.points), 0, segments)
AddPackedValue(doc, v) ==
    /\ merged = <<>> /\ Len(segments) < MaxSegments /\ Added < MaxPoints
    /\ doc >= 0
    /\ buffer' = [points |-> Append(buffer.points, [doc |-> doc, value |-> v]), lastDoc |-> doc,
                  numDocs |-> buffer.numDocs + (IF doc = buffer.lastDoc THEN 0 ELSE 1)]
    /\ UNCHANGED <<leafSize, segments, merged>>
\* write_field is not implemented for more than one dimension.
Flush(maxDoc) ==
    /\ buffer.points # <<>> /\ NumDims = 1
    /\ segments' = Append(segments, [tree |-> WriteField1Dim(buffer.points), points |-> buffer.points, maxDoc |-> maxDoc])
    /\ buffer' = EmptyBuffer
    /\ UNCHANGED <<leafSize, merged>>
\* The doc map of a segment whose `deleted` docs are dropped, the others moved behind `base`.
DocMap(maxDoc, deleted, base) ==
    [d \in 0..maxDoc - 1 |-> IF d \in deleted THEN -1 ELSE base + Cardinality((0..d - 1) \ deleted)]
DocMaps(deleted) ==
    [k \in DOMAIN segments |->
        DocMap(segments[k].maxDoc, deleted[k],
               FoldLeft(LAMBDA n, j : n + segments[j].maxDoc - Cardinality(deleted[j]), 0, [j \in 1..k - 1 |-> j]))]
Merge(deleted) ==
    /\ merged = <<>> /\ Len(segments) = MaxSegments
    /\ \E points \in {MergePoints([k \in DOMAIN segments |-> segments[k].tree], DocMaps(deleted))} :
           merged' = <<[tree |-> IF points = <<>> THEN <<>> ELSE OneDimension(points), deleted |-> deleted]>>
    /\ UNCHANGED <<leafSize, buffer, segments>>
Deletable == [DOMAIN segments -> SUBSET (0..Max({segments[k].maxDoc : k \in DOMAIN segments}) - 1)]
Deleted ==
    IF ~Deletes THEN {[k \in DOMAIN segments |-> {}]}
    ELSE {del \in Deletable : \A k \in DOMAIN segments : del[k] \subseteq 0..segments[k].maxDoc - 1}
Next ==
    \/ \E v \in Values, doc \in {buffer.lastDoc, buffer.lastDoc + 1} : AddPackedValue(doc, v)
    \/ Flush(buffer.lastDoc + 1)
    \/ segments # <<>> /\ \E del \in Deleted : Merge(del)
Spec == Init /\ [][Next]_vars

(***************************************************************************)
(* Properties.                                                             *)
(***************************************************************************)
Matching(points, lower, upper) == {points[k].doc : k \in {j \in DOMAIN points : InRange(points[j].value, lower, upper)}}
AllValues == [1..PackedLength -> 0..Byte - 1]
TreeExact(t, points, maxDoc) ==
    \A lower \in AllValues, upper \in AllValues :
        /\ \A n \in {maxDoc, maxDoc + 1} : RangeQuery(t, n, lower, upper) = Matching(points, lower, upper)
        /\ Len(Intersect(t, lower, upper)) =
               Cardinality({j \in DOMAIN points : InRange(points[j].value, lower, upper)})

(* A range query finds exactly the docs that have a point in the range, and *)
(* visits each point once, whatever the shape of the tree: leaves that are *)
(* full or not, a last level that is partly filled, values that are equal  *)
(* across leaves, runs cut at their longest, docs without a point or none. *)
QueriesExact ==
    segments = <<>> \/ LET s == Last(segments) IN TreeExact(s.tree, s.points, s.maxDoc)

Kept(deleted) ==
    LET maps == DocMaps(deleted)
        Live(k, p) == p.doc \notin deleted[k]
        Mapped(k) == LET live == SelectSeq(segments[k].points, LAMBDA p : Live(k, p))
                     IN  [j \in DOMAIN live |-> [live[j] EXCEPT !.doc = maps[k][@]]]
    IN  FlattenSeq([k \in DOMAIN segments |-> Mapped(k)])
\* The last leaf of every segment holds a live doc.
LastLeafLive(deleted) ==
    \A k \in DOMAIN segments :
        LET points == SortSeq(segments[k].points, PointLess)
            first  == ((Len(points) - 1) \div leafSize) * leafSize + 1
        IN  \E j \in first..Len(points) : points[j].doc \notin deleted[k]
MergedExact(deleted, tree) ==
    LET Answers(kept) ==
            IF kept = <<>> THEN tree = <<>>
            ELSE /\ tree # <<>> /\ tree.pointCount = Len(kept)
                 /\ TreeExact(tree, kept, Max(Range(Docs(kept))) + 1)
    IN  Answers(Kept(deleted))
(* A merge keeps every point of a live doc under its new doc id and no     *)
(* other, and the tree it writes answers range queries exactly, as long as *)
(* the last leaf of every segment that is merged still holds a live doc.   *)
MergeKeepsPoints ==
    merged # <<>> /\ LastLeafLive(merged[1].deleted) => MergedExact(merged[1].deleted, merged[1].tree)
(* The same without the restriction: merge pops the reader on top after    *)
(* the one that ended has been sifted, so that another reader's points are *)
(* lost when the ended reader passed over a last leaf of deleted docs.     *)
MergeLossless == merged # <<>> => MergedExact(merged[1].deleted, merged[1].tree)

ReadLeaves(t) ==
    LET Add(s, leaf) == [fp |-> leaf.fp, points |-> s.points \o [j \in DOMAIN leaf.docs |->
                                                        [doc |-> leaf.docs[j], value |-> leaf.values[j]]]]
    IN  FoldLeft(LAMBDA s, k : Add(s, ReadLeaf(t.file, s.fp)), [fp |-> 0, points |-> <<>>], [k \in 1..t.leaves |-> k])
(* The tree built by halving the points, dimension by dimension, holds     *)
(* every point in exactly one leaf, and no leaf is larger than allowed.    *)
BuildPartitions ==
    buffer.points = <<>> \/
        \E t \in {Finish(buffer.points)} : \E read \in {ReadLeaves(t)} :
            /\ read.fp = Len(t.file)
            /\ SortSeq(read.points, PointLess) = SortSeq(buffer.points, PointLess)
            /\ Len(buffer.points) <= t.leaves * leafSize
\* A range query over a tree that finish wrote: violated, the split values are all 0.
BuildQueries ==
    buffer.points = <<>> \/ TreeExact(Finish(buffer.points), buffer.points, buffer.lastDoc + 2)
=============================================================================
