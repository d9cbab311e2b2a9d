---------------------------- MODULE StoredFields ----------------------------
(***************************************************************************)
(* Stored fields: the compressing writer with its chunks and its index,    *)
(* the reader, the three ways a merge carries documents over, and the      *)
(* consumer that feeds the writer while documents are indexed.             *)
(*                                                                         *)
(* The stream is a sequence of cells, each a tuple that starts with its    *)
(* kind; a byte, a vint and a packed array take one cell.  A compressed    *)
(* slice takes one cell too: LZ4 is the business of Compression.           *)
(***************************************************************************)
EXTENDS Integers, Sequences, SequencesExt

CONSTANTS ChunkSize,         \* chunk_size: bytes that trigger a flush
          MaxDocsPerChunk,   \* max_docs_per_chunk
          IndexBlock,        \* block_size of the index: chunks in a block
          DirtyFactor,       \* 100: dirty chunks times this, against chunks
          DirtyLimit,        \* 1024: dirty chunks
          Documents,         \* what may be indexed: sequences of fields
          Numberings,        \* field numbers a segment may have: name -> number
          Units,             \* <<SECOND, HOUR, DAY>>, scaled
          LowBits,           \* 2^5: what a tlong's header holds
          MaxDocs,           \* bound on the documents indexed and merged in all
          MaxSegments,       \* bound on the segments
          Failures           \* may processing a document fail midway?

VARIABLES writer,     \* the open writer of the segment in memory
          consumer,   \* [lastDoc, next, numbers]: StoredFieldsConsumer
          given,      \* ghost: the documents of that segment
          segments    \* the segments: [seg, docs, spoiled]

vars == <<writer, consumer, given, segments>>

V(n) == <<"v", n>>
Sum(s) == FoldLeft(LAMBDA a, b : a + b, 0, s)

-----------------------------------------------------------------------------
(* Values.  A float is a record: its integral part, whether it equals it   *)
(* (exact) or is closer than EPSILON (near), its sign, and for a double    *)
(* whether a float holds it.                                               *)

ZigZag(n) == IF n >= 0 THEN 2 * n ELSE -2 * n - 1
UnZigZag(n) == IF n % 2 = 0 THEN n \div 2 ELSE -((n + 1) \div 2)
Divides(u, l) == IF l >= 0 THEN l % u = 0 ELSE (-l) % u = 0
Over(l, u) == IF l >= 0 THEN l \div u ELSE -((-l) \div u)
WriteTLong(l) ==
    LET unit == IF ~Divides(Units[1], l) THEN 0
                ELSE IF Divides(Units[3], l) THEN 3 ELSE IF Divides(Units[2], l) THEN 2 ELSE 1
        z == ZigZag(IF unit = 0 THEN l ELSE Over(l, Units[unit]))
    IN  IF z \div LowBits = 0 THEN <<<<"t", unit, z, FALSE>>>>
        ELSE <<<<"t", unit, z % LowBits, TRUE>>, V(z \div LowBits)>>
WriteZFloat(f) ==
    IF f.near /\ f.int >= -1 /\ f.int <= 125 /\ ~f.negativeZero THEN <<<<"small", f.int>>>>
    ELSE IF ~f.negative THEN [i \in 1 .. 4 |-> <<"float", f, i>>]
    ELSE <<<<"FF">>>> \o [i \in 1 .. 5 |-> <<"vint", f, i>>]
WriteZDouble(d) ==
    IF d.near /\ d.int >= -1 /\ d.int <= 124 /\ ~d.negativeZero THEN <<<<"small", d.int>>>>
    ELSE IF d.float THEN <<<<"small", 125>>>> \o [i \in 1 .. 4 |-> <<"float", d, i>>]   \* 0xFE
    ELSE IF ~d.negative THEN [i \in 1 .. 8 |-> <<"double", d, i>>]
    ELSE <<<<"FF">>>> \o [i \in 1 .. 8 |-> <<"double", d, i>>]
WriteField(number, f) ==
    <<<<"h", number, f.kind>>>> \o
      CASE f.kind = "string" -> <<V(Len(f.value))>> \o [i \in 1 .. Len(f.value) |-> <<"b", f.value[i]>>]
        [] f.kind = "int" -> <<V(ZigZag(f.value))>>
        [] f.kind = "long" -> WriteTLong(f.value)
        [] f.kind = "float" -> WriteZFloat(f.value)
        [] OTHER -> WriteZDouble(f.value)

(* A read is [value, rest], or Failed when the bytes are not what is       *)
(* expected: the value is garbage or the file is taken for corrupt.        *)
Failed == [value |-> [int |-> -99], rest |-> <<>>]
ReadTLong(s) ==
    LET z == IF s[1][4] THEN s[1][3] + LowBits * s[2][2] ELSE s[1][3]
    IN  [value |-> UnZigZag(z) * (IF s[1][2] = 0 THEN 1 ELSE Units[s[1][2]]),
         rest |-> SubSeq(s, IF s[1][4] THEN 3 ELSE 2, Len(s))]
Whole(s, tag, n) == Len(s) >= n /\ \A i \in 1 .. n : s[i][1] = tag /\ s[i][3] = i
ReadZ(s, tag, n) ==
    IF s = <<>> THEN Failed
    ELSE IF s[1][1] = "small"
         THEN [value |-> [int |-> s[1][2], near |-> TRUE, exact |-> TRUE, negative |-> s[1][2] < 0,
                          negativeZero |-> FALSE, float |-> TRUE], rest |-> Tail(s)]
         ELSE LET t == IF s[1][1] = "FF" THEN Tail(s) ELSE s
              IN  IF Whole(t, tag, n) THEN [value |-> t[1][2], rest |-> SubSeq(t, n + 1, Len(t))]
                  ELSE Failed
ReadZFloat(s) == ReadZ(s, "float", 4)
ReadZDouble(s) == ReadZ(s, "double", 8)
ReadField(kind, s) ==
    CASE kind = "string" -> [value |-> [i \in 1 .. s[1][2] |-> s[i + 1][2]],
                             rest |-> SubSeq(s, s[1][2] + 2, Len(s))]
      [] kind = "int" -> [value |-> UnZigZag(s[1][2]), rest |-> Tail(s)]
      [] kind = "long" -> ReadTLong(s)
      [] kind = "float" -> ReadZFloat(s)
      [] OTHER -> ReadZDouble(s)
(* do_visit_document over all the bytes of a document.                     *)
RECURSIVE Visit(_, _, _)
Visit(s, n, numbers) ==
    IF n = 0 THEN <<>>
    ELSE IF s = <<>> \/ s[1][1] # "h" \/ ~\E f \in DOMAIN numbers : numbers[f] = s[1][2]
         THEN <<[name |-> "corrupt"]>>
         ELSE LET r == ReadField(s[1][3], Tail(s))
                  name == CHOOSE f \in DOMAIN numbers : numbers[f] = s[1][2]
              IN  <<[name |-> name, kind |-> s[1][3], value |-> r.value]>> \o Visit(r.rest, n - 1, numbers)

-----------------------------------------------------------------------------
(* CompressingStoredFieldsIndexWriter: blocks of chunks, each with what    *)
(* the doc bases and the start pointers miss from their average.           *)

Round(a, n) == (2 * a + n) \div (2 * n)
IndexWriter == [blocks |-> <<>>, total |-> 0, docs |-> <<>>, pointers |-> <<>>]
WriteIndexBlock(x) ==
    LET n == Len(x.docs)
        Base(i) == Sum(SubSeq(x.docs, 1, i - 1))
        avgDocs == IF n = 1 THEN 0 ELSE Round(Base(n), n - 1)
        first == x.pointers[1]
        avgSize == IF n = 1 THEN 0 ELSE (x.pointers[n] - first) \div (n - 1)
    IN  [x EXCEPT !.docs = <<>>, !.pointers = <<>>,
                  !.blocks = Append(@,
                     [docBase |-> x.total - Sum(x.docs), avgDocs |-> avgDocs,
                      docDeltas |-> [i \in 1 .. n |-> ZigZag(Base(i) - avgDocs * (i - 1))],
                      start |-> first, avgSize |-> avgSize,
                      pointerDeltas |-> [i \in 1 .. n |->
                                           ZigZag(x.pointers[i] - first - avgSize * (i - 1))]])]
(* Mutant: the block is closed once it is full, before the count is taken. *)
WriteIndex_late(x0, num, pointer) ==
    LET x == [x0 EXCEPT !.docs = Append(@, num), !.pointers = Append(@, pointer)]
        y == IF Len(x.docs) = IndexBlock THEN WriteIndexBlock(x) ELSE x
    IN  [y EXCEPT !.total = @ + num]
WriteIndex(x0, num, pointer) ==
    LET x == IF Len(x0.docs) = IndexBlock THEN WriteIndexBlock(x0) ELSE x0
    IN  [x EXCEPT !.docs = Append(@, num), !.pointers = Append(@, pointer), !.total = @ + num]
FinishIndex(x) == IF x.docs = <<>> THEN x.blocks ELSE WriteIndexBlock(x).blocks

(* CompressingStoredFieldsIndexReader.  The binary searches end on the     *)
(* last block, or chunk, whose base is not above the document.             *)
RECURSIVE Search(_, _, _, _)
Search(bases, lo, hi, doc) ==
    LET mid == (lo + hi) \div 2
    IN  IF lo > hi THEN hi
        ELSE IF bases[mid] = doc THEN mid
        ELSE IF bases[mid] < doc THEN Search(bases, mid + 1, hi, doc) ELSE Search(bases, lo, mid - 1, doc)
Block(blocks, doc) == Search([i \in 1 .. Len(blocks) |-> blocks[i].docBase], 1, Len(blocks), doc)
RelativeDocBase(b, c) == b.avgDocs * (c - 1) + UnZigZag(b.docDeltas[c])
RelativeStartPointer(b, c) == b.avgSize * (c - 1) + UnZigZag(b.pointerDeltas[c])
RelativeChunk(b, doc) ==
    Search([c \in 1 .. Len(b.docDeltas) |-> RelativeDocBase(b, c)], 1, Len(b.docDeltas), doc)
StartPointer(blocks, doc) ==
    LET b == blocks[Block(blocks, doc)]
    IN  b.start + RelativeStartPointer(b, RelativeChunk(b, doc - b.docBase))

-----------------------------------------------------------------------------
(* CompressingStoredFieldsWriter.                                          *)

NewWriter == [stream |-> <<<<"header">>>>, index |-> IndexWriter, buffer |-> <<>>, counts |-> <<>>,
              ends |-> <<>>, docBase |-> 0, chunks |-> 0, dirty |-> 0, fields |-> 0]
SaveInts(s) ==
    IF Len(s) = 1 THEN <<V(s[1])>>
    ELSE IF \A i \in DOMAIN s : s[i] = s[1] THEN <<V(0), V(s[1])>> ELSE <<V(1), <<"packed", s>>>>
Slices(b) == [k \in 1 .. (Len(b) + ChunkSize - 1) \div ChunkSize |->
                <<"slice", SubSeq(b, (k - 1) * ChunkSize + 1,
                                  IF k * ChunkSize > Len(b) THEN Len(b) ELSE k * ChunkSize)>>]
FlushChunk(w) ==
    LET n == Len(w.counts)
        lengths == [i \in 1 .. n |-> w.ends[i] - (IF i = 1 THEN 0 ELSE w.ends[i - 1])]
        sliced == Len(w.buffer) >= 2 * ChunkSize
    IN  [w EXCEPT !.index = WriteIndex(@, n, Len(w.stream)),
                  !.stream = @ \o <<V(w.docBase), V(2 * n + (IF sliced THEN 1 ELSE 0))>>
                               \o SaveInts(w.counts) \o SaveInts(lengths)
                               \o (IF sliced THEN Slices(w.buffer) ELSE <<<<"slice", w.buffer>>>>),
                  !.docBase = @ + n, !.buffer = <<>>, !.counts = <<>>, !.ends = <<>>, !.chunks = @ + 1]
TriggerFlush(w) == Len(w.buffer) >= ChunkSize \/ Len(w.counts) >= MaxDocsPerChunk
FinishDocument(w0) ==
    LET w == [w0 EXCEPT !.counts = Append(@, w0.fields), !.ends = Append(@, Len(w0.buffer)), !.fields = 0]
    IN  IF TriggerFlush(w) THEN FlushChunk(w) ELSE w
PutField(w, number, f) == [w EXCEPT !.buffer = @ \o WriteField(number, f), !.fields = @ + 1]
RECURSIVE PutFields(_, _, _)
PutFields(w, doc, numbers) ==
    IF doc = <<>> THEN w ELSE PutFields(PutField(w, numbers[doc[1].name], doc[1]), Tail(doc), numbers)
(* finish: the count of documents must be the one the segment has.         *)
Finish(w0, num, numbers) ==
    LET w == IF w0.counts = <<>> THEN w0 ELSE [FlushChunk(w0) EXCEPT !.dirty = @ + 1]
    IN  [failed |-> w.docBase # num, blocks |-> FinishIndex(w.index), stream |-> w.stream,
         maxPointer |-> Len(w.stream), chunks |-> w.chunks, dirty |-> w.dirty,
         numDocs |-> num, numbers |-> numbers]

-----------------------------------------------------------------------------
(* CompressingStoredFieldsReader: a record of the chunk it has loaded.     *)

NewReader(seg, merging) ==
    [merging |-> merging, docBase |-> 0, docs |-> 0, sliced |-> FALSE, ends |-> <<>>, counts |-> <<>>,
     start |-> 0, bytes |-> <<>>, corrupt |-> FALSE]
InChunk(r, doc) == doc >= r.docBase /\ doc < r.docBase + r.docs
(* Two integers' worth of SaveInts: [ints, fp].                            *)
LoadInts(stream, fp, n) ==
    IF n = 1 THEN [ints |-> <<stream[fp + 1][2]>>, fp |-> fp + 1]
    ELSE IF stream[fp + 1][2] = 0 THEN [ints |-> [i \in 1 .. n |-> stream[fp + 2][2]], fp |-> fp + 2]
    ELSE [ints |-> stream[fp + 2][2], fp |-> fp + 2]
(* A merging reader puts every slice at the start of its buffer.           *)
MergedSlices(stream, fp, total) ==
    LET n == (total + ChunkSize - 1) \div ChunkSize
        last == stream[fp + n][2]
    IN  [i \in 1 .. total |->
            IF i <= Len(last) THEN last[i]
            ELSE IF n > 1 /\ i <= ChunkSize THEN stream[fp + n - 1][2][i] ELSE <<"zero">>]
DoReset(seg, r, fp, doc) ==
    LET base == seg.stream[fp + 1][2]
        n == seg.stream[fp + 2][2] \div 2
        counts == LoadInts(seg.stream, fp + 2, n)
        lens == LoadInts(seg.stream, counts.fp, n)
        sliced == seg.stream[fp + 2][2] % 2 = 1
        ends == [i \in 1 .. n |-> Sum(SubSeq(lens.ints, 1, i))]
        bad == \/ ~(doc >= base /\ doc < base + n) \/ base + n > seg.numDocs
               \/ n > 1 /\ \E i \in 1 .. n : (lens.ints[i] = 0) # (counts.ints[i] = 0)
    IN  IF bad THEN [r EXCEPT !.docs = 0, !.corrupt = TRUE]
        ELSE [r EXCEPT !.docBase = base, !.docs = n, !.sliced = sliced, !.counts = counts.ints,
                       !.ends = ends, !.start = lens.fp,
                       !.bytes = IF ~r.merging THEN <<>>
                                 ELSE IF sliced THEN MergedSlices(seg.stream, lens.fp, ends[n])
                                 ELSE seg.stream[lens.fp + 1][2]]
(* document(): the reader with the document's chunk.                       *)
Document(seg, r, doc) ==
    IF InChunk(r, doc) THEN r ELSE DoReset(seg, r, StartPointer(seg.blocks, doc), doc)
DocOffset(r, doc) == IF doc = r.docBase THEN 0 ELSE r.ends[doc - r.docBase]
DocLength(r, doc) == r.ends[doc - r.docBase + 1] - DocOffset(r, doc)
(* CompressingStoredFieldsInput: the slices of the document one after the  *)
(* other, as read_byte and read_bytes fill the buffer.                     *)
RECURSIVE FillBuffer(_, _, _)
FillBuffer(seg, fp, left) ==
    IF left <= 0 THEN <<>>
    ELSE LET n == IF left < ChunkSize THEN left ELSE ChunkSize
         IN  SubSeq(seg.stream[fp + 1][2], 1, n) \o FillBuffer(seg, fp + 1, left - n)
DocBytes(seg, r, doc) ==
    LET off == DocOffset(r, doc)
        len == DocLength(r, doc)
        first == IF len < ChunkSize - off THEN len ELSE ChunkSize - off
    IN  IF r.merging \/ ~r.sliced
        THEN SubSeq(IF r.merging THEN r.bytes ELSE seg.stream[r.start + 1][2], off + 1, off + len)
        ELSE SubSeq(seg.stream[r.start + 1][2], off + 1, off + first)
               \o FillBuffer(seg, r.start + 1, len - first)
DocFields(r, doc) == r.counts[doc - r.docBase + 1]
(* A string is read with read_exact, which does not fill the buffer: it    *)
(* fails when the string goes on in the next slice.                        *)
CrossesSlice(seg, r, doc) ==
    /\ r.sliced /\ ~r.merging /\ DocOffset(r, doc) + DocLength(r, doc) > ChunkSize
    /\ LET b == DocBytes(seg, r, doc)
       IN  \E i \in DOMAIN b : /\ b[i][1] = "b" /\ i > 1 /\ b[i - 1][1] = "b"
                               /\ (DocOffset(r, doc) + i - 1) % ChunkSize = 0
VisitDocument(seg, r, doc) ==
    IF CrossesSlice(seg, r, doc) THEN <<[name |-> "corrupt"]>>
    ELSE Visit(DocBytes(seg, r, doc), DocFields(r, doc), seg.numbers)

-----------------------------------------------------------------------------
(* Merging.                                                                *)

Matching(seg, numbers) ==
    \A f \in DOMAIN seg.numbers : f \in DOMAIN numbers /\ numbers[f] = seg.numbers[f]
TooDirty(seg) == seg.dirty > DirtyLimit \/ seg.dirty * DirtyFactor > seg.chunks
(* The copy of a chunk up to the next one, with its doc base replaced.     *)
RECURSIVE BulkCopy(_, _, _)
BulkCopy(w, seg, doc) ==
    IF doc >= seg.numDocs THEN [w EXCEPT !.chunks = @ + seg.chunks, !.dirty = @ + seg.dirty]
    ELSE LET fp == StartPointer(seg.blocks, doc)
             n == seg.stream[fp + 2][2] \div 2
             end == IF doc + n = seg.numDocs THEN seg.maxPointer ELSE StartPointer(seg.blocks, doc + n)
         IN  BulkCopy([w EXCEPT !.index = WriteIndex(@, n, Len(w.stream)),
                                !.stream = @ \o <<V(w.docBase)>> \o SubSeq(seg.stream, fp + 2, end),
                                !.docBase = @ + n], seg, doc + n)
CopyDocument(w, seg, r, doc) ==
    FinishDocument([w EXCEPT !.buffer = @ \o DocBytes(seg, r, doc), !.fields = DocFields(r, doc)])
RECURSIVE CopyDocs(_, _, _, _)
CopyDocs(w, seg, r, docs) ==
    IF docs = <<>> THEN w
    ELSE LET l == Document(seg, r, docs[1])
         IN  CopyDocs(CopyDocument(w, seg, l, docs[1]), seg, l, Tail(docs))
(* A visited document is written field by field under the new numbers.     *)
(* What cannot be visited is left out here: the segment counts as spoiled. *)
VisitInto(w, seg, r, doc, numbers) ==
    FinishDocument(PutFields(w, SelectSeq(VisitDocument(seg, r, doc), LAMBDA f : f.name # "corrupt"), numbers))
RECURSIVE VisitDocs(_, _, _, _, _)
VisitDocs(w, seg, r, docs, numbers) ==
    IF docs = <<>> THEN w
    ELSE LET l == Document(seg, r, docs[1])
         IN  VisitDocs(VisitInto(w, seg, l, docs[1], numbers), seg, l, Tail(docs), numbers)
LiveDocs(s, dels) == SelectSeq([i \in 1 .. s.seg.numDocs |-> i - 1], LAMBDA d : d \notin dels)
MergeOne(w, s, dels, numbers) ==
    IF ~Matching(s.seg, numbers) THEN VisitDocs(w, s.seg, NewReader(s.seg, TRUE), LiveDocs(s, dels), numbers)
    ELSE IF dels = {} /\ ~TooDirty(s.seg)
         THEN BulkCopy(IF w.counts = <<>> THEN w ELSE [FlushChunk(w) EXCEPT !.dirty = @ + 1], s.seg, 0)
         ELSE CopyDocs(w, s.seg, NewReader(s.seg, FALSE), LiveDocs(s, dels))
(* With an index sort every document is visited, in the sorted order.      *)
RECURSIVE MergeSorted(_, _, _, _)
MergeSorted(w, order, readers, numbers) ==
    IF order = <<>> THEN w
    ELSE LET i == order[1][1]
             l == Document(segments[i].seg, readers[i], order[1][2])
         IN  MergeSorted(VisitInto(w, segments[i].seg, l, order[1][2], numbers), Tail(order),
                         [readers EXCEPT ![i] = l], numbers)
HasSliced(seg) == \E fp \in DOMAIN seg.stream : /\ seg.stream[fp][1] = "slice" /\ fp < Len(seg.stream)
                                                /\ seg.stream[fp + 1][1] = "slice"

-----------------------------------------------------------------------------
Init ==
    /\ writer = NewWriter
    /\ \E numbers \in Numberings : consumer = [lastDoc |-> -1, next |-> 0, numbers |-> numbers]
    /\ given = <<>> /\ segments = <<>>

(* start_document fills the documents that had no stored fields.           *)
RECURSIVE StartDocument(_, _, _)
StartDocument(w, last, doc) == IF last + 1 >= doc THEN w ELSE StartDocument(FinishDocument(w), last + 1, doc)
NumDocs == consumer.next + Sum([i \in DOMAIN segments |-> Len(segments[i].docs)])
AddDocument(doc) ==
    /\ NumDocs < MaxDocs /\ Len(segments) < MaxSegments
    /\ writer' = FinishDocument(PutFields(StartDocument(writer, consumer.lastDoc, consumer.next),
                                          doc, consumer.numbers))
    /\ consumer' = [consumer EXCEPT !.lastDoc = consumer.next, !.next = @ + 1]
    /\ given' = Append(given, doc)
    /\ UNCHANGED segments
(* A field cannot be processed: the document is marked deleted and counted *)
(* and finish_document is not called.                                      *)
FailedDoc == <<[name |-> "failed"]>>
FailDocument(doc) ==
    /\ Failures /\ doc # <<>> /\ NumDocs < MaxDocs /\ Len(segments) < MaxSegments
    /\ writer' = PutFields(StartDocument(writer, consumer.lastDoc, consumer.next), <<doc[1]>>,
                           consumer.numbers)
    /\ consumer' = [consumer EXCEPT !.lastDoc = consumer.next, !.next = @ + 1]
    /\ given' = Append(given, FailedDoc)
    /\ UNCHANGED segments
(* flush: with a sort map the documents are visited from a temporary       *)
(* segment, in the new order.                                              *)
Sorted(seg, docs, order) ==
    LET RECURSIVE Copy(_, _, _)
        Copy(w, r, o) ==
            IF o = <<>> THEN w
            ELSE LET l == Document(seg, r, o[1])
                 IN  Copy(VisitInto(w, seg, l, o[1], seg.numbers), l, Tail(o))
    IN  [seg |-> Finish(Copy(NewWriter, NewReader(seg, TRUE), order), Len(docs), seg.numbers),
         docs |-> [i \in DOMAIN docs |-> docs[order[i] + 1]], spoiled |-> HasSliced(seg)]
Flush ==
    /\ consumer.next > 0
    /\ \E seg \in {Finish(writer, consumer.next, consumer.numbers)}, sorted \in BOOLEAN :
             /\ ~seg.failed \/ ~sorted
             /\ segments' = Append(segments,
                    IF sorted THEN Sorted(seg, given, [i \in DOMAIN given |-> Len(given) - i])
                    ELSE [seg |-> seg, docs |-> given, spoiled |-> FALSE])
    /\ writer' = NewWriter /\ given' = <<>>
    /\ \E numbers \in Numberings : consumer' = [lastDoc |-> -1, next |-> 0, numbers |-> numbers]
Live(i, dels) == [k \in DOMAIN LiveDocs(segments[i], dels) |-> LiveDocs(segments[i], dels)[k]]
Merge ==
    /\ Len(segments) = MaxSegments /\ given = <<>> /\ MaxSegments = 2
    /\ \A i \in 1 .. 2 : ~segments[i].seg.failed
    /\ \E del \in {{}, {0}}, sorted \in BOOLEAN, numbers \in Numberings :
         LET dels == <<{}, del>>
             order == [k \in DOMAIN Live(2, del) |-> <<2, Live(2, del)[k]>>]
                        \o [k \in DOMAIN Live(1, {}) |-> <<1, Live(1, {})[k]>>]
             plain == [k \in DOMAIN Live(1, {}) |-> <<1, Live(1, {})[k]>>]
                        \o [k \in DOMAIN Live(2, del) |-> <<2, Live(2, del)[k]>>]
             o == IF sorted THEN order ELSE plain
             w == IF sorted
                  THEN MergeSorted(NewWriter, order, [i \in 1 .. 2 |-> NewReader(segments[i].seg, TRUE)],
                                   numbers)
                  ELSE MergeOne(MergeOne(NewWriter, segments[1], {}, numbers), segments[2], del, numbers)
         IN  segments' = <<[seg |-> Finish(w, Len(o), numbers),
                            docs |-> [k \in DOMAIN o |-> segments[o[k][1]].docs[o[k][2] + 1]],
                            spoiled |-> \E i \in 1 .. 2 :
                               \/ segments[i].spoiled
                               \/ /\ HasSliced(segments[i].seg)
                                  /\ sorted \/ ~Matching(segments[i].seg, numbers)]>>
    /\ UNCHANGED <<writer, consumer, given>>

Next == \/ \E doc \in Documents : AddDocument(doc) \/ FailDocument(doc)
        \/ Flush \/ Merge
Spec == Init /\ [][Next]_vars

-----------------------------------------------------------------------------
(* Every document of a segment is found through the index and read back    *)
(* with all its fields, whichever document the reader had loaded before    *)
(* and whichever of the three ways merges brought it there.  Documents     *)
(* whose chunk was written in slices are compared by the bytes a merge     *)
(* copies, and segments that were visited by a merging reader while they   *)
(* had such chunks are left out: see SlicesReadable and SlicesMerged.  So  *)
(* are those with a document that failed: see FailureContained.            *)
HasFailed(s) == \E d \in DOMAIN s.docs : s.docs[d] = FailedDoc
Wanted(s, d) == PutFields(NewWriter, s.docs[d + 1], s.seg.numbers).buffer
ReadExact(s, r, d) ==
    LET l == Document(s.seg, r, d)
    IN  /\ ~l.corrupt
        /\ DocFields(l, d) = Len(s.docs[d + 1])
        /\ DocBytes(s.seg, l, d) = Wanted(s, d)
        /\ ~l.sliced => VisitDocument(s.seg, l, d) = s.docs[d + 1]
StoredExact ==
    \A i \in DOMAIN segments :
      LET s == segments[i]
      IN  ~s.spoiled /\ ~HasFailed(s) =>
            /\ ~s.seg.failed
            /\ \A d, e \in 0 .. s.seg.numDocs - 1 :
                 ReadExact(s, Document(s.seg, NewReader(s.seg, FALSE), e), d)
(* Every stored document can be visited, however large it is.              *)
SlicesReadable ==
    \A i \in DOMAIN segments :
      LET s == segments[i]
      IN  ~s.spoiled => \A d \in 0 .. s.seg.numDocs - 1 :
            VisitDocument(s.seg, Document(s.seg, NewReader(s.seg, FALSE), d), d) = s.docs[d + 1]
(* A merging reader sees the bytes that were written.                      *)
SlicesMerged ==
    \A i \in DOMAIN segments :
      LET s == segments[i]
      IN  ~s.spoiled => \A d \in 0 .. s.seg.numDocs - 1 :
            DocBytes(s.seg, Document(s.seg, NewReader(s.seg, TRUE), d), d) = Wanted(s, d)
(* A document that failed leaves the rest of its segment intact: the       *)
(* segment can be finished.                                                *)
FailureContained == \A i \in DOMAIN segments : ~segments[i].seg.failed
=============================================================================
