---------------------------- MODULE PackedStreams ----------------------------
(* Packed integers in files and in builders: PackedWriter and its readers,   *)
(* the block-packed and monotonic writers, DirectWriter and DirectReader,    *)
(* and PackedLongValues.  A file is a sequence of items: a byte of packed    *)
(* values, or a number written as one (a token, a vlong, a vint).  A writer  *)
(* buffers values and writes whole groups, so that what is read depends on   *)
(* where the groups end.  The average slope of a monotonic block is kept as  *)
(* a fraction: both sides round it the same way.                             *)
EXTENDS PackedPages
CONSTANTS Memory,      \* the budget of compute_iterations
          BlockSize,   \* values of a block of the block-packed formats
          DirectWidths \* SUPPORTED_BITS_PER_VALUE of direct_writer.rs

Signed(x) == IF x >= 2^(LongBits - 1) THEN x - 2^LongBits ELSE x
Unsigned(x) == x % 2^LongBits
Padded(s, n) == s \o Fill0(n - Len(s))
EncodeBytes(format, bpv, values_, iterations) ==
    IF format = "SingleBlock" THEN EncodeBlocksToBytes(bpv, values_, iterations) ELSE EncodeLongToByte(bpv, values_)
DecodeBytes(format, bpv, bytes, iterations) ==
    IF format = "SingleBlock" THEN DecodeBytesOfBlocks(bpv, bytes, iterations) ELSE DecodeByteToLong(bpv, bytes)

(***************************************************************************)
(* PackedWriter, the readers of what it wrote, PackedReaderIterator.       *)
(***************************************************************************)
NewWriter(format, n, bpv) ==
    LET op == BulkOperation(format, bpv)
        iterations == ComputeIterations(op, n, Memory)
    IN  [format |-> format, bpv |-> bpv, n |-> n, iterations |-> iterations,
         capacity |-> iterations * op.byteValues, buf |-> <<>>, written |-> 0, out |-> <<>>]
FlushWriter(w) ==
    LET bytes == EncodeBytes(w.format, w.bpv, Padded(w.buf, w.capacity), w.iterations)
    IN  [w EXCEPT !.buf = <<>>, !.out = @ \o SubSeq(bytes, 1, ByteCount(w.format, Len(w.buf), w.bpv))]
AddToWriter(w, v) ==
    LET added == [w EXCEPT !.buf = Append(@, v), !.written = @ + 1]
    IN  IF Len(added.buf) = w.capacity THEN FlushWriter(added) ELSE added
FinishWriter(w) == FlushWriter(Fold(AddToWriter, w, Fill0(IF w.n = -1 THEN 0 ELSE w.n - w.written))).out
Save(m) == FinishWriter(Fold(AddToWriter, NewWriter(FormatOf(m), m.size, m.bpv), GetEach(m, 0, m.size)))
\* from_input of every reader: its blocks are groups of bytes, the last one cut short.
Joined(bytes, width, k) ==
    Fold(LAMBDA s, j : s * 2^ByteBits + (IF j <= Len(bytes) THEN bytes[j] ELSE 0), 0,
         [j \in 1..width |-> (k - 1) * width + j])
FromInput(bytes, format, n, bpv) ==
    LET m     == MutableByFormat(n, bpv, format)
        width == CASE m.kind = "Direct" -> bpv \div ByteBits
                   [] m.kind = "ThreeBlocks" -> bpv \div (3 * ByteBits)
                   [] OTHER -> LongBytes
    IN  [m EXCEPT !.blocks = [k \in DOMAIN @ |-> Joined(bytes, width, k)]]

NewIterator(format, n, bpv) ==
    LET op == BulkOperation(format, bpv)
        iterations == ComputeIterations(op, n, Memory)
    IN  [format |-> format, bpv |-> bpv, n |-> n, iterations |-> iterations,
         bytes |-> iterations * op.byteBlocks, next |-> <<>>, pos |-> 0, fp |-> 0, out |-> <<>>]
NextOfIterator(file, it) ==
    LET remain == ByteCount(it.format, it.n - it.pos, it.bpv)
        toRead == Least(it.bytes, remain)
        buffer == Padded(SubSeq(file, it.fp + 1, it.fp + toRead), it.bytes)
        filled == IF it.next # <<>> THEN it
                  ELSE [it EXCEPT !.fp = @ + toRead,
                                  !.next = DecodeBytes(it.format, it.bpv, buffer, it.iterations)]
    IN  [filled EXCEPT !.next = Tail(@), !.pos = @ + 1, !.out = Append(@, Head(filled.next))]
ReadAll(file, format, n, bpv) ==
    Fold(LAMBDA it, k : NextOfIterator(file, it), NewIterator(format, n, bpv), UpTo(n)).out

(***************************************************************************)
(* BlockPackedWriter and BlockPackedReaderIterator.                        *)
(***************************************************************************)
ZigZag(x) == IF x >= 0 THEN 2 * x ELSE -2 * x - 1
UnZigZag(y) == IF y % 2 = 0 THEN y \div 2 ELSE -((y + 1) \div 2)
Blocks(vs) ==
    [k \in 1..Ceil(Len(vs), BlockSize) |-> SubSeq(vs, (k - 1) * BlockSize + 1, Least(k * BlockSize, Len(vs)))]
\* write_values: the block is encoded whole, the bytes of its values are written.
WriteValues(vs, bpv) ==
    SubSeq(EncodeLongToByte(bpv, Padded(vs, BlockSize)), 1, ByteCount("Packed", Len(vs), bpv))
FlushBlock(vs) ==
    LET lo    == Min(Range(vs))
        hi    == Max(Range(vs))
        delta == Unsigned(hi - lo)
        bits  == IF delta = 0 THEN 0 ELSE BitsRequired(delta)
        base  == CASE bits = LongBits -> 0
                   [] bits < LongBits /\ lo > 0 -> Max({0, hi - MaxValue(bits)})
                   [] OTHER -> lo
    IN  <<2 * bits + (IF base = 0 THEN 1 ELSE 0)>>
        \o (IF base = 0 THEN <<>> ELSE <<ZigZag(base) - 1>>)
        \o (IF bits = 0 THEN <<>> ELSE WriteValues([k \in DOMAIN vs |-> Unsigned(vs[k] - base)], bits))
BlockPacked(vs) == Fold(LAMBDA out, b : out \o FlushBlock(b), <<>>, Blocks(vs))

NewBlockIterator(n) == [n |-> n, fp |-> 0, off |-> BlockSize, ord |-> 0, block |-> <<>>]
\* The token, and the base when it is not 0.
Header(file, fp) ==
    LET bits == file[fp + 1] \div 2
        zero == file[fp + 1] % 2 = 1
    IN  [bits |-> bits, base |-> IF zero THEN 0 ELSE UnZigZag(file[fp + 2] + 1), len |-> IF zero THEN 1 ELSE 2]
Refill(file, it) ==
    LET n == Least(it.n - it.ord, BlockSize)
        Whole(op) == (BlockSize \div op.byteValues) * op.byteBlocks
        Values(h, bytes) ==
            DecodeByteToLong(h.bits, Padded(SubSeq(file, it.fp + h.len + 1, it.fp + h.len + bytes),
                                            Whole(BulkOperation("Packed", h.bits))))
        Based(h, vals) == [k \in 1..BlockSize |-> Signed(Unsigned(vals[k] + (IF k <= n THEN h.base ELSE 0)))]
        Read(h, bytes) == [it EXCEPT !.fp = @ + h.len + bytes, !.off = 0,
                                     !.block = IF h.bits = 0 THEN [k \in 1..BlockSize |-> h.base]
                                               ELSE Based(h, Values(h, bytes))]
        From(h) == Read(h, IF h.bits = 0 THEN 0 ELSE ByteCount("Packed", n, h.bits))
    IN  From(Header(file, it.fp))
\* Mutant: the base of a block that is skipped is not.
SkipBlock_base(file, it) ==
    LET h == Header(file, it.fp)
    IN  [it EXCEPT !.fp = @ + 1 + (IF h.bits = 0 THEN 0 ELSE ByteCount("Packed", BlockSize, h.bits)),
                   !.ord = @ + BlockSize]
SkipBlock(file, it) ==
    LET h == Header(file, it.fp)
    IN  [it EXCEPT !.fp = @ + h.len + (IF h.bits = 0 THEN 0 ELSE ByteCount("Packed", BlockSize, h.bits)),
                   !.ord = @ + BlockSize]
Skip(file, it, count) ==
    LET inBlock == Least(count, BlockSize - it.off)
        left    == count - inBlock
        begun   == [it EXCEPT !.off = @ + inBlock, !.ord = @ + inBlock]
        rest    == left % BlockSize
        Into(s) == IF rest = 0 THEN s ELSE [Refill(file, s) EXCEPT !.ord = @ + rest, !.off = rest]
    IN  Into(Fold(LAMBDA s, k : SkipBlock(file, s), begun, UpTo(left \div BlockSize)))
\* next_longs_ref: at most `count` values, never past the block.
NextLongs(file, it, count) ==
    LET Taken(r, n) == [it |-> [r EXCEPT !.off = @ + n, !.ord = @ + n], out |-> SubSeq(r.block, r.off + 1, r.off + n)]
        From(r) == Taken(r, Min({count, BlockSize - r.off, r.n - r.ord}))
    IN  From(IF it.off = BlockSize THEN Refill(file, it) ELSE it)

(***************************************************************************)
(* MonotonicBlockPackedWriter: a block is a line and the distances from it.*)
(***************************************************************************)
Average(vs) == [rise |-> IF Len(vs) = 1 THEN 0 ELSE vs[Len(vs)] - vs[1], run |-> Max({1, Len(vs) - 1})]
Expected(origin, avg, i) ==
    origin + (IF avg.rise >= 0 THEN (avg.rise * i) \div avg.run ELSE -((-avg.rise * i) \div avg.run))
MonotonicBlock(vs) ==
    LET avg  == Average(vs)
        Lower(lo, k) == Least(lo, lo - (Expected(lo, avg, k - 1) - vs[k]))
        base == Fold(LAMBDA lo, k : Lower(lo, k), vs[1], [k \in 1..Len(vs) - 1 |-> k + 1])
        dist == [k \in DOMAIN vs |-> vs[k] - Expected(base, avg, k - 1)]
        most == Max(Range(dist))
        bits == IF most = 0 THEN 0 ELSE BitsRequired(most)
    IN  [base |-> base, avg |-> avg, bits |-> bits, bytes |-> IF bits = 0 THEN <<>> ELSE WriteValues(dist, bits)]
MonotonicPacked(vs) == LET bs == Blocks(vs) IN [k \in DOMAIN bs |-> MonotonicBlock(bs[k])]
MonotonicReader(file, n) ==
    [k \in DOMAIN file |->
        LET size == Least(n - (k - 1) * BlockSize, BlockSize)
        IN  [base |-> file[k].base, avg |-> file[k].avg,
             sub  |-> IF file[k].bits = 0 THEN Null(BlockSize) ELSE FromInput(file[k].bytes, "Packed", size, file[k].bits)]]
MonotonicGet(reader, i) ==
    LET b == reader[i \div BlockSize + 1]
    IN  Expected(b.base, b.avg, i % BlockSize) + Get(b.sub, i % BlockSize)

(***************************************************************************)
(* DirectWriter and DirectReader: random access, a value of a few widths   *)
(* read as one aligned word, for which the file ends with 3 more bytes.    *)
(***************************************************************************)
RoundBits(bits) == Min({w \in DirectWidths : w >= bits})
DirectWrite(vs, bpv) == FinishWriter(Fold(AddToWriter, NewWriter("Packed", Len(vs), bpv), vs)) \o Fill0(3)
Word(file, at, n) == Fold(LAMBDA s, j : s * 2^ByteBits + file[j], 0, [j \in 1..n |-> at + j])
\* A width of one and a half bytes and the like begins in the middle of a byte at every odd index.
HalfByte(i) == ((i + 1) % 2) * (ByteBits \div 2)
ByteGet(file, base, bpv, i) ==
    LET per == ByteBits \div bpv IN Field(file[base + i \div per + 1], (per - 1 - (i % per)) * bpv, bpv)
ShortGet(file, base, bpv, i) ==
    IF bpv = 2 * ByteBits THEN Word(file, base + 2 * i, 2)
    ELSE Field(Word(file, base + (3 * i) \div 2, 2), HalfByte(i), bpv)
IntGet(file, base, bpv, i) ==
    LET halves == (2 * bpv) \div ByteBits
        word   == Word(file, base + (halves * i) \div 2, 4)
    IN  CASE halves = 5 -> Field(word, HalfByte(i) + ByteBits, bpv)
          [] halves = 6 -> Shr(word, ByteBits)
          [] halves = 7 -> Field(word, HalfByte(i), bpv)
          [] halves = 8 -> word
LongGet(file, base, bpv, i) == Shr(Word(file, base + i * (bpv \div ByteBits), LongBytes), LongBits - bpv)
DirectGet(file, base, bpv, i) ==
    CASE bpv <= ByteBits -> ByteGet(file, base, bpv, i)
      [] bpv > ByteBits /\ bpv <= 2 * ByteBits -> ShortGet(file, base, bpv, i)
      [] bpv > 2 * ByteBits /\ bpv <= 4 * ByteBits -> IntGet(file, base, bpv, i)
      [] bpv > 4 * ByteBits -> LongGet(file, base, bpv, i)

(***************************************************************************)
(* DirectMonotonicWriter: the lines in a meta file, the distances in       *)
(* another.                                                                *)
(***************************************************************************)
DirectMonotonicFlush(s, vs) ==
    LET avg  == Average(vs)
        dist == [k \in DOMAIN vs |-> vs[k] - Expected(0, avg, k - 1)]
        base == Min(Range(dist))
        most == Max(Range(dist)) - base
        bits == IF most = 0 THEN 0 ELSE RoundBits(BitsRequired(most))
    IN  [meta |-> Append(s.meta, [base |-> base, avg |-> avg, offset |-> Len(s.data), bits |-> bits]),
         data |-> IF bits = 0 THEN s.data ELSE s.data \o DirectWrite([k \in DOMAIN vs |-> dist[k] - base], bits)]
DirectMonotonic(vs) == Fold(DirectMonotonicFlush, [meta |-> <<>>, data |-> <<>>], Blocks(vs))
DirectMonotonicGet(file, i) ==
    LET m == file.meta[i \div BlockSize + 1]
    IN  m.base + Expected(0, m.avg, i % BlockSize)
        + (IF m.bits = 0 THEN 0 ELSE DirectGet(file.data, m.offset, m.bits, i % BlockSize))

(***************************************************************************)
(* PackedLongValuesBuilder: a page is packed by bulk_set calls that each   *)
(* go on, in the array and in the values, where the last one stopped.      *)
(***************************************************************************)
PackPending(m, pending) ==
    LET Stored(s, done) == [m |-> done.m, i |-> s.i + done.n]
    IN  Fold(LAMBDA s, k : IF s.i >= m.size THEN s
                           ELSE Stored(s, BulkSet(s.m, s.i, pending, s.i, m.size - s.i)),
             [m |-> m, i |-> 0], UpTo(m.size)).m
Pack(vs, type) ==
    LET avg == IF type = "Monotonic" THEN Average(vs) ELSE [rise |-> 0, run |-> 1]
        Bits(vals) == IF Min(Range(vals)) < 0 THEN LongBits ELSE BitsRequired(Max(Range(vals)))
        Packed(vals) ==
            IF Range(vals) = {0} THEN Null(Len(vs))
            ELSE PackPending(MutableByRatio(Len(vs), Bits(vals), layout.ratio),
                             [k \in DOMAIN vals |-> Unsigned(vals[k])])
        From(dist, base) == [base |-> base, avg |-> avg, m |-> Packed([k \in DOMAIN vs |-> dist[k] - base])]
        Of(dist) == From(dist, IF type = "Default" THEN 0 ELSE Min(Range(dist)))
    IN  Of([k \in DOMAIN vs |-> vs[k] - Expected(0, avg, k - 1)])
PackedLongValues(vs, type) == LET bs == Blocks(vs) IN [k \in DOMAIN bs |-> Pack(bs[k], type)]
LongValue(pages_, i) ==
    LET p == pages_[i \div BlockSize + 1]
    IN  Signed(Get(p.m, i % BlockSize)) + Expected(p.base, p.avg, i % BlockSize)
DecodePage(p) ==
    Fold(LAMBDA s, k : IF Len(s) = p.m.size THEN s
                       ELSE s \o BulkGet(p.m, Len(s), p.m.size - Len(s)),
         <<>>, UpTo(p.m.size))
LongValuesIterator(pages_) ==
    LET Values(p, d) == [j \in DOMAIN d |-> Signed(d[j]) + p.base + Expected(0, p.avg, j - 1)]
    IN  FlattenSeq([k \in DOMAIN pages_ |-> Values(pages_[k], DecodePage(pages_[k]))])

(***************************************************************************)
(* What the callers store, seen as three kinds of input: as they are, the  *)
(* running totals, and the values around zero.                             *)
(***************************************************************************)
Totals == Fold(LAMBDA s, v : Append(s, v + (IF s = <<>> THEN 0 ELSE Last(s))), <<>>, values)
Around == [k \in DOMAIN values |-> IF values[k] % 2 = 0 THEN -values[k] ELSE values[k]]
Each(Read(_), vs) == \A i \in 0..Len(vs) - 1 : Read(i) = vs[i + 1]
\* A page that is saved is read back by from_input (packed_misc.rs:112) and by the      
\* iterator (2188), however the writer's buffer cuts the values into groups.            
SavedAs(m, bytes, vs) ==
    /\ Len(bytes) = ByteCount(FormatOf(m), m.size, m.bpv)
    /\ \E read \in {FromInput(bytes, FormatOf(m), m.size, m.bpv)} : Each(LAMBDA i : Get(read, i), vs)
    /\ ReadAll(bytes, FormatOf(m), m.size, m.bpv) = vs
SavedExact ==
    \A p \in DOMAIN pages :
        SavedAs(pages[p], Save(pages[p]), SubSeq(values, First(p) + 1, First(p) + pages[p].size))
\* A reader that skips some values (3049) reads the ones after them, from a block it has
\* begun, after blocks it has not decoded, and across a block boundary.                 
SkipExact(vs) ==
    \E file \in {BlockPacked(vs)} :
        \A i, n \in Indices : i + n < Len(vs) =>
            \E begun \in {NextLongs(file, NewBlockIterator(Len(vs)), i + 1)} :
                (Len(begun.out) <= i + n) =>
                    \E read \in {NextLongs(file, Skip(file, begun.it, i + n - Len(begun.out)), 2).out} :
                        read # <<>> /\ read = SubSeq(vs, i + n + 1, i + n + Len(read))
\* The monotonic and the direct formats return the value at every index, without reading
\* past the end of the file; PackedLongValues does so both by index and by iteration.   
StreamsExact ==
    /\ SavedExact
    /\ \A vs \in {values, Around} : SkipExact(vs)
    /\ \E mono \in {MonotonicReader(MonotonicPacked(Totals), Size)} : Each(LAMBDA i : MonotonicGet(mono, i), Totals)
    /\ \E direct \in {DirectMonotonic(Totals)} : Each(LAMBDA i : DirectMonotonicGet(direct, i), Totals)
    /\ \A type \in {"Default", "Delta", "Monotonic"} :
           \E vs \in {IF type = "Monotonic" THEN Totals ELSE Around} :
               \E built \in {PackedLongValues(vs, type)} :
                   Each(LAMBDA i : LongValue(built, i), vs) /\ LongValuesIterator(built) = vs
=============================================================================
