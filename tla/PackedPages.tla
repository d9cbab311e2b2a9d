----------------------------- MODULE PackedPages -----------------------------
(* Packed arrays in memory: the mutables of packed_misc.rs, the growable     *)
(* writer that repacks itself for a larger value, and the paged mutables of  *)
(* paged_mutable.rs made of them.  A mutable is its kind, the bits of a      *)
(* value, the number of values and the array of blocks.  `values` is what    *)
(* the callers stored, the reference the packed pages are compared with.     *)
EXTENDS PackedInts
CONSTANTS Layouts,       \* [ratio, bits, growable]: how the array may be created
          PageSize, StartSize, MaxSize,
          Indices,       \* positions in a page the calls use
          Written,       \* the values stored
          BufferSize,    \* longs of the copy buffer
          MaxCalls       \* bound on the calls
VARIABLES layout, pages, values, calls
vars == <<layout, pages, values, calls>>

Null(n) == [kind |-> "Null", bpv |-> 0, size |-> n, blocks |-> <<>>]
Direct(bits, n) == [kind |-> "Direct", bpv |-> bits, size |-> n, blocks |-> Fill0(n)]
Direct8(n) == Direct(ByteBits, n)
Direct16(n) == Direct(2 * ByteBits, n)
Direct32(n) == Direct(4 * ByteBits, n)
Direct64(n) == Direct(LongBits, n)
Packed8ThreeBlocks(n) == [kind |-> "ThreeBlocks", bpv |-> 3 * ByteBits, size |-> n, blocks |-> Fill0(3 * n)]
Packed16ThreeBlocks(n) == [kind |-> "ThreeBlocks", bpv |-> 6 * ByteBits, size |-> n, blocks |-> Fill0(3 * n)]
Packed64(n, bpv) == [kind |-> "Packed", bpv |-> bpv, size |-> n, blocks |-> Fill0(LongCount("Packed", n, bpv))]
Packed64SingleBlock(n, bpv) ==
    [kind |-> "SingleBlock", bpv |-> bpv, size |-> n, blocks |-> Fill0(LongCount("SingleBlock", n, bpv))]
MutableByFormat(n, bpv, format) ==
    CASE format = "SingleBlock" -> Packed64SingleBlock(n, bpv)
      [] format = "Packed" /\ bpv = ByteBits     -> Direct8(n)
      [] format = "Packed" /\ bpv = 2 * ByteBits -> Direct16(n)
      [] format = "Packed" /\ bpv = 4 * ByteBits -> Direct32(n)
      [] format = "Packed" /\ bpv = LongBits     -> Direct64(n)
      [] format = "Packed" /\ bpv = 3 * ByteBits -> Packed8ThreeBlocks(n)
      [] format = "Packed" /\ bpv = 6 * ByteBits -> Packed16ThreeBlocks(n)
      [] OTHER -> Packed64(n, bpv)
MutableByRatio(n, bpv, ratio) ==
    LET best == Fastest(bpv, ratio) IN MutableByFormat(n, best.bpv, best.format)
FormatOf(m) == IF m.kind = "SingleBlock" THEN "SingleBlock" ELSE "Packed"

(***************************************************************************)
(* One value.                                                              *)
(***************************************************************************)
PackedGet(m, i) ==
    LET block == (i * m.bpv) \div LongBits + 1
        end   == ((i * m.bpv) % LongBits) + m.bpv - LongBits
    IN  IF end <= 0 THEN Field(m.blocks[block], -end, m.bpv)
        ELSE Low(Shl(m.blocks[block], end) + Shr(m.blocks[block + 1], LongBits - end), m.bpv)
PackedSet(m, i, v) ==
    LET block == (i * m.bpv) \div LongBits + 1
        end   == ((i * m.bpv) % LongBits) + m.bpv - LongBits
    IN  IF end <= 0 THEN [m EXCEPT !.blocks[block] = WithField(@, -end, m.bpv, v)]
        ELSE [m EXCEPT !.blocks[block] = WithField(@, 0, m.bpv - end, Shr(v, end)),
                       !.blocks[block + 1] = WithField(@, LongBits - end, end, Low(v, end))]
SingleGet(m, i) == LET n == LongBits \div m.bpv IN Field(m.blocks[i \div n + 1], (i % n) * m.bpv, m.bpv)
SingleSet(m, i, v) ==
    LET n == LongBits \div m.bpv
    IN  [m EXCEPT !.blocks[i \div n + 1] = WithField(@, (i % n) * m.bpv, m.bpv, v)]
ThreeGet(m, i) ==
    LET w == m.bpv \div 3 IN m.blocks[3 * i + 1] * 2^(2 * w) + m.blocks[3 * i + 2] * 2^w + m.blocks[3 * i + 3]
ThreeSet(m, i, v) ==
    LET w == m.bpv \div 3
    IN  [m EXCEPT !.blocks[3 * i + 1] = Field(v, 2 * w, w), !.blocks[3 * i + 2] = Field(v, w, w),
                  !.blocks[3 * i + 3] = Low(v, w)]
Get(m, i) ==
    CASE m.kind = "Direct" -> m.blocks[i + 1]
      [] m.kind = "ThreeBlocks" -> ThreeGet(m, i)
      [] m.kind = "Packed" -> PackedGet(m, i)
      [] m.kind = "SingleBlock" -> SingleGet(m, i)
      [] m.kind = "Null" -> 0
Set(m, i, v) ==
    CASE m.kind = "Direct" -> [m EXCEPT !.blocks[i + 1] = Low(v, m.bpv)]
      [] m.kind = "ThreeBlocks" -> ThreeSet(m, i, v)
      [] m.kind = "Packed" -> PackedSet(m, i, v)
      [] m.kind = "SingleBlock" -> SingleSet(m, i, v)

(***************************************************************************)
(* Several values: single accesses up to a block boundary, then whole      *)
(* blocks; what is left over is for the next call.                         *)
(***************************************************************************)
GetEach(m, i, n) == [k \in 1..n |-> Get(m, i + k - 1)]
SetEach(m, i, arr, off, n) ==
    Fold(LAMBDA s, k : Set(s, i + k - 1, arr[off + k]), m, UpTo(n))
SetAll(m, from, to, v) == Fold(LAMBDA s, k : Set(s, k, v), m, [k \in 1..(to - from) |-> from + k - 1])
GroupSize(m) == BulkOperation(FormatOf(m), m.bpv).longValues
Bulk(m) == m.kind \in {"Packed", "SingleBlock"}
BlockOf(m, i) == (i * BulkOperation(FormatOf(m), m.bpv).longBlocks) \div GroupSize(m)
\* How many values a bulk call takes one by one, and how many groups follow.
Lead(m, i, n) == IF i % GroupSize(m) = 0 THEN 0 ELSE Least(n, GroupSize(m) - (i % GroupSize(m)))
BulkGet(m, i, len) ==
    LET n == Least(len, m.size - i)
        Grouped(lead, groups) ==
            IF ~Bulk(m) \/ lead + groups = 0 THEN GetEach(m, i, n)
            ELSE GetEach(m, i, lead)
                 \o BulkDecode(FormatOf(m), m.bpv,
                               SubSeq(m.blocks, BlockOf(m, i + lead) + 1, Len(m.blocks)), groups)
        Led(lead) == Grouped(lead, (n - lead) \div GroupSize(m))
    IN  Led(Lead(m, i, n))
\* The lead of Packed64SingleBlock::bulk_set counts from the caller's offset in the array.
LeadSet(m, i, off, n) ==
    CASE m.kind = "Packed" \/ i % GroupSize(m) = 0 -> Lead(m, i, n)
      [] m.kind = "SingleBlock" /\ off + (i % GroupSize(m)) >= GroupSize(m) -> 0
      [] OTHER -> Least(n, GroupSize(m) - (i % GroupSize(m)) - off)
BulkSet(m, i, arr, off, len) ==
    LET n == Least(len, m.size - i)
        Over(s, block, coded) ==
            [s EXCEPT !.blocks = [b \in DOMAIN @ |-> IF b \in block + 1..block + Len(coded)
                                                     THEN coded[b - block] ELSE @[b]]]
        Grouped(lead, groups) ==
            IF ~Bulk(m) \/ lead + groups = 0 THEN [m |-> SetEach(m, i, arr, off, n), n |-> n]
            ELSE [m |-> Over(SetEach(m, i, arr, off, lead), BlockOf(m, i + lead),
                             BulkEncode(FormatOf(m), m.bpv, SubSeq(arr, off + lead + 1, Len(arr)), groups)),
                  n |-> lead + groups * GroupSize(m)]
        Led(lead) == Grouped(lead, (n - lead) \div GroupSize(m))
    IN  Led(LeadSet(m, i, off, n))
PackedFill(m, from, to, v) ==
    LET aligned == GroupSize(m)
        start   == Ceil(from, aligned) * aligned
        first   == (start * m.bpv) \div LongBits
        last    == (to * m.bpv) \div LongBits
        Filled(begun, pattern) ==
            [begun EXCEPT !.blocks = [b \in DOMAIN @ |-> IF b - 1 \in first..last - 1
                                          THEN pattern[((b - 1) % Len(pattern)) + 1] ELSE @[b]]]
    IN  IF to - from <= 3 * aligned THEN SetAll(m, from, to, v)
        ELSE SetAll(Filled(SetAll(m, from, start, v), SetAll(Packed64(aligned, m.bpv), 0, aligned, v).blocks),
                    (last * LongBits) \div m.bpv, to, v)
SingleFill(m, from, to, v) ==
    LET n      == GroupSize(m)
        start  == Ceil(from, n) * n
        begun  == SetAll(m, from, start, v)
        filled == [begun EXCEPT !.blocks = [b \in DOMAIN @ |-> IF b - 1 \in (start \div n)..(to \div n) - 1
                                                 THEN EncodeBlock(m.bpv, [k \in 1..n |-> v]) ELSE @[b]]]
    IN  IF to - from < 2 * n THEN SetAll(m, from, to, v) ELSE SetAll(filled, (to \div n) * n, to, v)
FillRange(m, from, to, v) ==
    CASE m.kind = "Packed" -> PackedFill(m, from, to, v)
      [] m.kind = "SingleBlock" -> SingleFill(m, from, to, v)
      [] OTHER -> SetAll(m, from, to, v)

(***************************************************************************)
(* Copying through a buffer: what a bulk_set did not take stays in the     *)
(* buffer, in front of what is read next.                                  *)
(***************************************************************************)
\* Mutant: what bulk_set did not take is overwritten by the next read.
CopyStep_lost(src, capacity, s) ==
    LET Done(buf, done) == [dest |-> done.m, to |-> s.to + done.n, buf |-> <<>>,
                            from |-> s.from + Len(buf), left |-> s.left - Len(buf)]
        Put(buf) == Done(buf, BulkSet(s.dest, s.to, buf, 0, Len(buf)))
    IN  IF s.left = 0 THEN s ELSE Put(BulkGet(src, s.from, Least(s.left, capacity)))
CopyStep(src, capacity, s) ==
    LET Done(buf, done) ==
            [dest |-> done.m, to |-> s.to + done.n, buf |-> SubSeq(buf, done.n + 1, Len(buf)),
             from |-> s.from + Len(buf) - Len(s.buf), left |-> s.left - (Len(buf) - Len(s.buf))]
        Put(buf) == Done(buf, BulkSet(s.dest, s.to, buf, 0, Len(buf)))
    IN  IF s.left = 0 /\ s.buf = <<>> THEN s
        ELSE Put(s.buf \o (IF s.left = 0 THEN <<>>
                           ELSE BulkGet(src, s.from, Least(s.left, capacity - Len(s.buf)))))
CopyByBuf(src, dest, n, capacity) ==
    Fold(LAMBDA s, k : CopyStep(src, capacity, s),
             [dest |-> dest, to |-> 0, buf |-> <<>>, from |-> 0, left |-> n], UpTo(2 * n)).dest
PackedIntsCopy(src, dest, n) == IF n = 0 THEN dest ELSE CopyByBuf(src, dest, n, Least(n, BufferSize))
\* GrowableWriter: repacked when a value does not fit.
EnsureCapacity(m, v) ==
    IF v < 2^m.bpv THEN m
    ELSE PackedIntsCopy(m, MutableByRatio(m.size, BitsRequired(v), layout.ratio), m.size)

(***************************************************************************)
(* Pages.  Every page but the last has PageSize values.                    *)
(***************************************************************************)
NewMutable(n, bpv) ==
    IF layout.growable THEN MutableByRatio(n, bpv, layout.ratio)
    ELSE LET best == Fastest(layout.bits, layout.ratio) IN MutableByFormat(n, best.bpv, best.format)
LastPageSize(n) == IF n % PageSize = 0 THEN PageSize ELSE n % PageSize
PageLen(p, n) == IF p = Ceil(n, PageSize) THEN LastPageSize(n) ELSE PageSize
FillPages(n) == [p \in 1..Ceil(n, PageSize) |-> NewMutable(PageLen(p, n), layout.bits)]
\* What a page does before it stores a value as large as v.
Roomy(m, v) == IF layout.growable THEN EnsureCapacity(m, v) ELSE m
Fitting == {v \in Written : layout.growable \/ v < 2^pages[1].bpv}
Size == Len(values)
First(p) == (p - 1) * PageSize

Init == /\ layout \in Layouts
        /\ pages = FillPages(StartSize)
        /\ values = Fill0(StartSize)
        /\ calls = 0
Called == calls < MaxCalls /\ calls' = calls + 1
SetValue(i, v) ==
    LET p == i \div PageSize + 1
    IN  /\ Called /\ i < Size /\ v \in Fitting
        /\ pages' = [pages EXCEPT ![p] = Set(Roomy(@, v), i % PageSize, v)]
        /\ values' = [values EXCEPT ![i + 1] = v]
        /\ UNCHANGED layout
\* A bulk_set of the values arr at i of page p; it stores as many as it says.
BulkSetValues(p, i, arr) ==
    /\ Called /\ p \in DOMAIN pages /\ i < pages[p].size /\ Max(Range(arr)) \in Fitting
    /\ \E done \in {BulkSet(Roomy(pages[p], Max(Range(arr))), i, arr, 0, Len(arr))} :
           /\ pages' = [pages EXCEPT ![p] = done.m]
           /\ values' = [k \in DOMAIN values |-> IF k - First(p) \in i + 1..i + done.n
                                                  THEN arr[k - First(p) - i] ELSE values[k]]
    /\ UNCHANGED layout
FillValues(p, from, to, v) ==
    /\ Called /\ p \in DOMAIN pages /\ from < to /\ to <= pages[p].size /\ v \in Fitting
    /\ pages' = [pages EXCEPT ![p] = FillRange(Roomy(@, v), from, to, v)]
    /\ values' = [k \in DOMAIN values |-> IF k - First(p) \in from + 1..to THEN v ELSE values[k]]
    /\ UNCHANGED layout
Resize(n) ==
    LET bits(p) == IF p <= Len(pages) THEN pages[p].bpv ELSE layout.bits
        page(p) == NewMutable(PageLen(p, n), bits(p))
    IN  /\ Called
        /\ pages' = [p \in 1..Ceil(n, PageSize) |->
                       IF p <= Len(pages) THEN PackedIntsCopy(pages[p], page(p), Least(PageLen(p, n), pages[p].size))
                       ELSE page(p)]
        /\ values' = [k \in 1..n |-> IF k <= Size THEN values[k] ELSE 0]
        /\ UNCHANGED layout
\* grow: one value more than there are, and an eighth of that, at least 3.
Grow == LET n == Size + 1 IN n + Max({3, n \div 8}) <= MaxSize /\ Resize(n + Max({3, n \div 8}))
Runs == {[k \in 1..n |-> IF k % 3 = 0 THEN v ELSE k % 2] : n \in Indices \ {0}, v \in Written}
Next == \/ \E i \in Indices, v \in Written : SetValue(i, v)
        \/ \E p \in DOMAIN pages, i \in Indices, arr \in Runs : BulkSetValues(p, i, arr)
        \/ \E p \in DOMAIN pages, from, to \in Indices, v \in Written : FillValues(p, from, to, v)
        \/ \E n \in Indices : n > 0 /\ Resize(n)
        \/ Grow
Spec == Init /\ [][Next]_vars

Contents == FlattenSeq([p \in DOMAIN pages |-> GetEach(pages[p], 0, pages[p].size)])
\* Whatever layout was chosen, and whatever calls stored, repacked, grew or shrank  
\* the array, get64 returns what the callers stored, and 0 where nothing was.       
PagesExact == Contents = values
\* bulk_get (packed_misc.rs:1448, 1703) returns a non-empty run of the same values.
BulkReadsExact ==
    \A p \in DOMAIN pages : \A i \in {j \in Indices : j < pages[p].size} :
        LET got == BulkGet(pages[p], i, pages[p].size)
        IN  got # <<>> /\ got = SubSeq(values, First(p) + i + 1, First(p) + i + Len(got))
=============================================================================
