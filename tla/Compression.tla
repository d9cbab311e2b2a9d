---------------------------- MODULE Compression ----------------------------
(***************************************************************************)
(* LZ4 as the stored fields and the term vectors use it: bytes are         *)
(* compressed from an offset on, and decompressed up to a prefix.  The     *)
(* format is scaled down: a byte holds Byte values, a token two digits     *)
(* below Digit.                                                            *)
(***************************************************************************)
EXTENDS Integers, Sequences, FiniteSetsExt

CONSTANTS Byte, Digit,      \* 2^8 and 2^4
          MinMatch,         \* MIN_MATCH
          LastLiterals,     \* LAST_LITERALS
          MaxDistance,      \* MAX_DISTANCE
          HashSize,         \* entries of the hash table
          Alphabet,         \* the bytes that are tried
          MaxLength         \* bound on their number

VARIABLE bytes

At(off) == bytes[off + 1]
ReadInt(off) == SubSeq(bytes, off + 1, off + MinMatch)
Hash(v) == FoldFunction(+, 0, v) % HashSize
(* How many bytes from o1 and from o2 on agree, below the limit.           *)
CommonBytes(o1, o2, limit) ==
    Max({n \in 0 .. limit - o2 : \A i \in 0 .. n - 1 : At(o1 + i) = At(o2 + i)})

RECURSIVE EncodeLen(_)
EncodeLen(l) == IF l >= Byte - 1 THEN <<Byte - 1>> \o EncodeLen(l - (Byte - 1)) ELSE <<l>>
EncodeLiterals(token, anchor, len) ==
    <<token>> \o (IF len >= Digit - 1 THEN EncodeLen(len - (Digit - 1)) ELSE <<>>)
              \o SubSeq(bytes, anchor + 1, anchor + len)
EncodeLastLiterals(anchor, len) ==
    EncodeLiterals(Min({len, Digit - 1}) * Digit, anchor, len)
EncodeSequence(anchor, ref, off, matchLen) ==
    EncodeLiterals(Min({off - anchor, Digit - 1}) * Digit + Min({matchLen - MinMatch, Digit - 1}),
                   anchor, off - anchor)
      \o <<(off - ref) % Byte, (off - ref) \div Byte>>
      \o (IF matchLen >= MinMatch + Digit - 1 THEN EncodeLen(matchLen - (Digit - 1) - MinMatch) ELSE <<>>)
(* The table remembers, per hash, the last place its four bytes were seen, *)
(* 0 before the first.                                                     *)
RECURSIVE Matches(_, _, _, _, _)
Matches(off, cur, anchor, end, table) ==
    LET limit == end - LastLiterals
        h == Hash(ReadInt(cur))
        ref == off + table[h]
        seen == [table EXCEPT ![h] = cur - off]
        len == MinMatch + CommonBytes(ref + MinMatch, cur + MinMatch, limit)
    IN  IF cur > limit \/ cur >= limit - MinMatch THEN EncodeLastLiterals(anchor, end - anchor)
        ELSE IF cur - ref < MaxDistance /\ ReadInt(ref) = ReadInt(cur)
             THEN EncodeSequence(anchor, ref, cur, len) \o Matches(off, cur + len, cur + len, end, seen)
             ELSE Matches(off, cur + 1, anchor, end, seen)
Compress(off, len) ==
    IF len > LastLiterals + MinMatch
    THEN Matches(off, off + 1, off, off + len, [h \in 0 .. HashSize - 1 |-> 0])
    ELSE EncodeLastLiterals(off, len)

(* A length that did not fit its digit goes on in bytes.                   *)
RECURSIVE ReadLen(_, _, _)
ReadLen(c, fp, len) ==
    IF c[fp + 1] = Byte - 1 THEN ReadLen(c, fp + 1, len + Byte - 1)
    ELSE [len |-> len + c[fp + 1], fp |-> fp + 1]
Length(c, fp, digit) == IF digit = Digit - 1 THEN ReadLen(c, fp, digit) ELSE [len |-> digit, fp |-> fp]
CopyMatch_block(dest, dec, len) ==
    dest \o [i \in 1 .. len |-> IF Len(dest) - dec + i <= Len(dest) THEN dest[Len(dest) - dec + i] ELSE 0]
(* A match may reach into what it copies: byte by byte.                    *)
RECURSIVE CopyMatch(_, _, _)
CopyMatch(dest, dec, len) ==
    IF len = 0 THEN dest ELSE CopyMatch(Append(dest, dest[Len(dest) - dec + 1]), dec, len - 1)
RECURSIVE Decompressed(_, _, _, _)
Decompressed(c, fp, wanted, dest) ==
    LET token == c[fp + 1]
        lit == Length(c, fp + 1, token \div Digit)
        got == dest \o SubSeq(c, lit.fp + 1, lit.fp + lit.len)
        at == lit.fp + lit.len
        dec == c[at + 1] + Byte * c[at + 2]
        match == Length(c, at + 2, token % Digit)
        all == CopyMatch(got, dec, match.len + MinMatch)
    IN  IF Len(got) >= wanted THEN got
        ELSE IF Len(all) >= wanted THEN all ELSE Decompressed(c, match.fp, wanted, all)
(* LZ4Decompressor.decompress: the bytes [offset, offset + length) of an   *)
(* original of the given length, or failed when too much came out.         *)
Decompress(c, original, offset, length) ==
    LET d == Decompressed(c, 0, offset + length, <<>>)
    IN  [failed |-> Len(d) > original, bytes |-> SubSeq(d, offset + 1, offset + length)]

-----------------------------------------------------------------------------
Init == bytes = <<>>
Add == Len(bytes) < MaxLength /\ \E b \in Alphabet : bytes' = Append(bytes, b)
Next == Add
Spec == Init /\ [][Next]_bytes

(* Whatever part of the input was compressed, any prefix of it that a      *)
(* reader asks for comes back as it was, and decompressing that prefix     *)
(* never runs past the original length, which the reader takes for         *)
(* corruption.                                                             *)
CompressionExact ==
    \A off \in {0, 1} \cap 0 .. Len(bytes) :
      LET len == Len(bytes) - off
          c == Compress(off, len)
      IN  \A to \in 1 .. len :
            LET from == to \div 2
                d == Decompress(c, len, from, to - from)
            IN  ~d.failed /\ d.bytes = SubSeq(bytes, off + from + 1, off + to)
=============================================================================
