----------------------------- MODULE PackedInts -----------------------------
(* The packed integer arrays of util/packed/packed_misc.rs: how many bits a  *)
(* value is given, the array of blocks the values are packed into, and the   *)
(* bulk encoders and decoders.  A long has LongBits bits and a byte ByteBits *)
(* (64 and 8 in the code): the layouts only depend on their ratio.  A block  *)
(* is the unsigned image of a long, and a bitwise or of disjoint bit fields  *)
(* is their sum.                                                             *)
EXTENDS Integers, Sequences, SequencesExt
CONSTANTS LongBits, ByteBits, SupportedBitsPerValue

LongBytes == LongBits \div ByteBits
Shl(x, n) == (x * 2^n) % 2^LongBits
Shr(x, n) == x \div 2^n
Low(x, n) == x % 2^n
Field(x, pos, n) == Low(Shr(x, pos), n)
WithField(x, pos, n, v) == x - Field(x, pos, n) * 2^pos + v * 2^pos
Ceil(a, b) == (a + b - 1) \div b
Least(a, b) == IF a <= b THEN a ELSE b
\* FoldLeft of SequencesExt, evaluated in linear time.
Fold(op(_, _), base, s) == LET f[i \in 0..Len(s)] == IF i = 0 THEN base ELSE op(f[i - 1], s[i]) IN f[Len(s)]
UpTo(n) == [i \in 1..n |-> i]
Fill0(n) == [i \in 1..n |-> 0]

BitsRequired(x) == CHOOSE b \in 1..LongBits : x < 2^b /\ (b > 1 => x >= 2^(b - 1))
MaxValue(bpv) == 2^(IF bpv = LongBits THEN bpv - 1 ELSE bpv) - 1

(***************************************************************************)
(* The two formats: Packed lets a value straddle two longs, SingleBlock    *)
(* leaves the rest of a long unused.  A ratio is a percentage.             *)
(***************************************************************************)
ByteCount(format, n, bpv) ==
    IF format = "Packed" THEN Ceil(n * bpv, ByteBits) ELSE Ceil(n, LongBits \div bpv) * LongBytes
LongCount(format, n, bpv) ==
    IF format = "Packed" THEN Ceil(ByteCount(format, n, bpv), LongBytes) ELSE Ceil(n, LongBits \div bpv)
OverheadFits(bpv, ratio, p) ==
    100 * (LongBits % p) <= (ratio * bpv + 100 * (bpv - p)) * (LongBits \div p)
DirectBits == {ByteBits, 2 * ByteBits, 4 * ByteBits, LongBits}
ThreeBlocksBits == {3 * ByteBits, 6 * ByteBits}
Fastest(bpv, ratio) ==
    LET most == bpv + (ratio * bpv) \div 100
        Within(S) == {t \in S : bpv <= t /\ t <= most}
        single == {p \in Within(SupportedBitsPerValue) : OverheadFits(bpv, ratio, p)}
        Of(f, S) == [format |-> f, bpv |-> Min(S)]
    IN  CASE Within(DirectBits) # {}      -> Of("Packed", Within(DirectBits))
          [] Within(DirectBits) = {} /\ Within(ThreeBlocksBits) # {} -> Of("Packed", Within(ThreeBlocksBits))
          [] Within(DirectBits \cup ThreeBlocksBits) = {} /\ single # {} -> Of("SingleBlock", single)
          [] OTHER -> Of("Packed", {bpv})

(***************************************************************************)
(* Bulk operations.  An encoder works on the smallest group of values that *)
(* fills whole blocks.                                                     *)
(***************************************************************************)
OddPart(n) == CHOOSE o \in 1..n : o % 2 = 1 /\ \E k \in 0..n : o * 2^k = n
BulkOperation(format, bpv) ==
    IF format = "SingleBlock"
    THEN [longBlocks |-> 1, longValues |-> LongBits \div bpv,
          byteBlocks |-> LongBytes, byteValues |-> LongBits \div bpv]
    ELSE LET blocks == OddPart(bpv)
             values == (LongBits * blocks) \div bpv
             bytes  == LongBytes * blocks
             halved == Max({k \in 0..LongBits : bytes % 2^k = 0 /\ values % 2^k = 0})
         IN  [longBlocks |-> blocks, longValues |-> values,
              byteBlocks |-> Shr(bytes, halved), byteValues |-> Shr(values, halved)]
ComputeIterations(op, n, budget) ==
    LET fit == budget \div (op.byteBlocks + LongBytes * op.byteValues)
    IN  CASE fit = 0 -> 1
          [] fit > 0 /\ n # -1 /\ (fit - 1) * op.byteValues >= n -> Ceil(n, op.byteValues)
          [] OTHER -> fit

\* Values into longs, most significant bits first.
PutLong(bpv, s, v) ==
    LET left == s.left - bpv
    IN  CASE left > 0 -> [s EXCEPT !.next = @ + Shl(v, left), !.left = left]
          [] left = 0 -> [next |-> 0, left |-> LongBits, out |-> Append(s.out, s.next + v)]
          [] left < 0 -> [next |-> Shl(Low(v, -left), LongBits + left), left |-> LongBits + left,
                          out |-> Append(s.out, s.next + Shr(v, -left))]
EncodeLongToLong(bpv, values) ==
    Fold(LAMBDA s, v : PutLong(bpv, s, v), [next |-> 0, left |-> LongBits, out |-> <<>>], values).out
EncodeIntToLong(bpv, values) == EncodeLongToLong(bpv, [i \in DOMAIN values |-> Low(values[i], LongBits \div 2)])
\* Values into bytes: a value fills the byte begun, then whole bytes, then begins one.
PutByte(bpv, s, v) ==
    IF bpv < s.left
    THEN [s EXCEPT !.next = @ + v * 2^(s.left - bpv), !.left = @ - bpv]
    ELSE LET bits  == bpv - s.left
             whole == bits \div ByteBits
             rest  == bits % ByteBits
         IN  [next |-> Low(v, rest) * 2^(ByteBits - rest), left |-> ByteBits - rest,
              out  |-> Append(s.out, s.next + Shr(v, bits))
                       \o [k \in 1..whole |-> Field(v, bits - k * ByteBits, ByteBits)]]
EncodeLongToByte(bpv, values) ==
    Fold(LAMBDA s, v : PutByte(bpv, s, v), [next |-> 0, left |-> ByteBits, out |-> <<>>], values).out
EncodeIntToByte(bpv, values) == EncodeLongToByte(bpv, [i \in DOMAIN values |-> Low(values[i], LongBits \div 2)])

TakeLong(bpv, blocks, s) ==
    LET left == s.left - bpv
    IN  IF left < 0
        THEN [at |-> s.at + 1, left |-> LongBits + left,
              out |-> Append(s.out, Low(blocks[s.at], bpv + left) * 2^(-left) + Shr(blocks[s.at + 1], LongBits + left))]
        ELSE [at |-> s.at, left |-> left, out |-> Append(s.out, Field(blocks[s.at], left, bpv))]
\* A long that is used up is left behind by the next value only: left may be 0.
DecodeLongToLong(bpv, blocks, n) ==
    Fold(LAMBDA s, k : TakeLong(bpv, blocks, s),
             [at |-> 1, left |-> LongBits, out |-> <<>>], UpTo(n)).out
DecodeLongToInt(bpv, blocks, n) ==
    LET longs == DecodeLongToLong(bpv, blocks, n)
    IN  [k \in 1..n |-> Low(longs[k], LongBits \div 2)]
TakeByte(bpv, s, b) ==
    IF s.left > ByteBits
    THEN [s EXCEPT !.left = @ - ByteBits, !.next = @ + b * 2^(s.left - ByteBits)]
    ELSE LET bits  == ByteBits - s.left
             whole == bits \div bpv
             rest  == bits % bpv
         IN  [left |-> bpv - rest, next |-> Low(b, rest) * 2^(bpv - rest),
              out  |-> Append(s.out, s.next + Shr(b, bits))
                       \o [k \in 1..whole |-> Field(b, bits - k * bpv, bpv)]]
DecodeByteToLong(bpv, bytes) ==
    Fold(LAMBDA s, b : TakeByte(bpv, s, b), [left |-> bpv, next |-> 0, out |-> <<>>], bytes).out
DecodeByteToInt(bpv, bytes) ==
    LET longs == DecodeByteToLong(bpv, bytes)
    IN  [k \in DOMAIN longs |-> Low(longs[k], LongBits \div 2)]

\* The single-block format: the first value in the least significant bits.
EncodeBlock(bpv, values) == Fold(LAMBDA s, i : s + values[i] * 2^((i - 1) * bpv), 0, [i \in DOMAIN values |-> i])
DecodeBlock(bpv, block) == [i \in 1..(LongBits \div bpv) |-> Field(block, (i - 1) * bpv, bpv)]
WriteLong(block) == [i \in 1..LongBytes |-> Field(block, LongBits - i * ByteBits, ByteBits)]
ReadLong(bytes, off) ==
    Fold(LAMBDA s, i : s * 2^ByteBits + bytes[off + i], 0, UpTo(LongBytes))
Group(values, size, k) == SubSeq(values, (k - 1) * size + 1, k * size)
EncodeBlocks(bpv, values, iterations) ==
    [k \in 1..iterations |-> EncodeBlock(bpv, Group(values, LongBits \div bpv, k))]
EncodeBlocksToBytes(bpv, values, iterations) ==
    FlattenSeq([k \in 1..iterations |-> WriteLong(EncodeBlock(bpv, Group(values, LongBits \div bpv, k)))])
DecodeBytesOfBlocks(bpv, bytes, iterations) ==
    FlattenSeq([k \in 1..iterations |-> DecodeBlock(bpv, ReadLong(bytes, (k - 1) * LongBytes))])

BulkEncode(format, bpv, values, iterations) ==
    IF format = "SingleBlock" THEN EncodeBlocks(bpv, values, iterations)
    ELSE EncodeLongToLong(bpv, SubSeq(values, 1, iterations * BulkOperation(format, bpv).longValues))
BulkDecode(format, bpv, blocks, iterations) ==
    IF format = "SingleBlock" THEN FlattenSeq([k \in 1..iterations |-> DecodeBlock(bpv, blocks[k])])
    ELSE DecodeLongToLong(bpv, blocks, iterations * BulkOperation(format, bpv).longValues)
=============================================================================
