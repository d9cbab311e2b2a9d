----------------------------- MODULE TermsHash -----------------------------
(***************************************************************************)
(* The in-memory store of the inverter (util/byte_block_pool.rs,           *)
(* int_block_pool.rs, byte_slice_reader.rs, bytes_ref_hash.rs and the base *)
(* of codec/postings/terms_hash_per_field.rs).  Terms and the growing      *)
(* postings of every term live in one byte pool, cut into blocks.  A       *)
(* posting stream is a chain of slices of growing size: the last byte of a *)
(* slice is a non-zero mark that carries its level, and when a writer runs *)
(* into it the slice's last four bytes become the address of the next one. *)
(* The int pool holds each stream's write position; the hash finds a       *)
(* term's id from its bytes, which it reads back from the pool.            *)
(*                                                                         *)
(* A byte is a number below Byte: its upper half carries the flag of a     *)
(* variable-length integer.  Blocks are laid end to end, so that an        *)
(* address is an index (from 0) of the pool's sequence.                    *)
(***************************************************************************)
EXTENDS Integers, Sequences

CONSTANTS Byte,        \* 256: bytes are 0 .. Byte - 1
          BlockSize,   \* BYTE_BLOCK_SIZE
          IntBlock,    \* INT_BLOCK_SIZE
          LevelSizes,  \* LEVEL_SIZE_ARRAY, a sequence
          HashSize,    \* HASH_INIT_SIZE, a power of two
          FlushBytes   \* AUTO_FLUSH_BYTES_USED

Flag == Byte \div 2
RECURSIVE Fill(_, _)
Fill(n, v) == IF n = 0 THEN <<>> ELSE Append(Fill(n - 1, v), v)
\* the sequence with `new` written over its cells from `at` (from 0) on
Put(seq, at, new) ==
    SubSeq(seq, 1, at) \o new \o SubSeq(seq, at + Len(new) + 1, Len(seq))
LessOf(a, b) == IF a < b THEN a ELSE b

(* ------------------------------ byte pool ------------------------------ *)

\* ByteBlockPool::new: no block yet, the position is past a block's end
EmptyPool == [bytes |-> <<>>, upto |-> BlockSize]

\* byte_offset: where the current block starts
ByteOffset(pool) == Len(pool.bytes) - BlockSize

\* next_buffer: a zeroed block becomes the current one
NextBuffer(pool) == [bytes |-> pool.bytes \o Fill(BlockSize, 0), upto |-> 0]

\* a block with room for n more bytes
Room(pool, n) == IF pool.upto > BlockSize - n THEN NextBuffer(pool) ELSE pool

FirstLevelSize == LevelSizes[1]
NextLevel(level) == LessOf(level + 1, Len(LevelSizes) - 1)

\* new_slice: a first-level slice, its last byte the mark of level 0
NewSlice(pool, size) ==
    LET In(p, start) == [pool  |-> [bytes |-> [p.bytes EXCEPT ![start + size] = 16],
                                    upto  |-> p.upto + size],
                         start |-> start]
        Of(p) == In(p, ByteOffset(p) + p.upto)
    IN  Of(Room(pool, size))

\* alloc_slice: the slice whose mark is at `mark` is full; its last three
\* bytes move to the head of a slice of the next level and its last four
\* bytes become that slice's address
AllocSlice(pool, mark) ==
    LET level == NextLevel(pool.bytes[mark + 1] % 16)
        size  == LevelSizes[level + 1]
        Digit(start, k) == (start \div Byte^k) % Byte
        In(p, start) ==
            [pool |-> [bytes |-> [p.bytes EXCEPT
                                    ![start + 1] = p.bytes[mark - 2], ![start + 2] = p.bytes[mark - 1],
                                    ![start + 3] = p.bytes[mark], ![start + size] = 16 + level,
                                    ![mark - 2] = Digit(start, 3), ![mark - 1] = Digit(start, 2),
                                    ![mark] = Digit(start, 1), ![mark + 1] = Digit(start, 0)],
                       upto  |-> p.upto + size],
             upto |-> start + 3]
        Of(p) == In(p, ByteOffset(p) + p.upto)
    IN  Of(Room(pool, size))

\* set_bytes_ref: a length in one byte or two, and the bytes after it
SetBytesRef(pool, start) ==
    LET head == pool.bytes[start + 1]
        long == head >= Flag
        len  == IF long THEN head - Flag + Flag * pool.bytes[start + 2] ELSE head
        from == start + (IF long THEN 2 ELSE 1)
    IN  SubSeq(pool.bytes, from + 1, from + len)

(* ------------------------------- int pool ------------------------------ *)

EmptyInts == [ints |-> <<>>, upto |-> IntBlock, need_flush |-> FALSE]

\* IntBlockPool::next_buffer
NextInts(pool) == [pool EXCEPT !.ints = @ \o Fill(IntBlock, 0), !.upto = 0]

(* ------------------------------ term hash ------------------------------ *)

\* BytesRefHash::new; a term's record holds its entry of the parallel arrays
EmptyHash == [ids |-> Fill(HashSize, -1), terms |-> <<>>]

\* do_hash: murmur3 of the bytes, here any function that makes terms collide
RECURSIVE DoHash(_)
DoHash(bytes) == IF bytes = <<>> THEN 0 ELSE Head(bytes) + DoHash(Tail(bytes))

\* equals: the id's bytes, read back from the pool
HashEquals(pool, hash, id, bytes) == SetBytesRef(pool, hash.terms[id + 1].text) = bytes

\* the first slot from `code` on, cyclically, that is in `slots`
Probe(code, size, slots) ==
    1 + ((code + (CHOOSE k \in 0 .. size - 1 :
                     /\ 1 + ((code + k) % size) \in slots
                     /\ \A j \in 0 .. k - 1 : 1 + ((code + j) % size) \notin slots)) % size)

\* find_hash
FindHash(pool, hash, bytes) ==
    Probe(DoHash(bytes), Len(hash.ids),
          {i \in DOMAIN hash.ids : \/ hash.ids[i] = -1
                                   \/ HashEquals(pool, hash, hash.ids[i], bytes)})

\* rehash: every id is put again into a table of twice the size
RECURSIVE Rehash(_, _, _, _)
Rehash(pool, hash, i, ids) ==
    IF i > Len(hash.ids) THEN [hash EXCEPT !.ids = ids]
    ELSE IF hash.ids[i] = -1 THEN Rehash(pool, hash, i + 1, ids)
    ELSE LET id   == hash.ids[i]
             code == DoHash(SetBytesRef(pool, hash.terms[id + 1].text))
             slot == Probe(code, Len(ids), {j \in DOMAIN ids : ids[j] = -1})
         IN  Rehash(pool, hash, i + 1, [ids EXCEPT ![slot] = id])

\* add, of a term that is not there: its length and bytes are appended to
\* the pool, in a block with room for both, and it gets the next id
NewEntry(pool, hash, bytes, slot) ==
    LET len  == Len(bytes)
        id   == Len(hash.terms)
        text == (IF len < Flag THEN <<len>> ELSE <<Flag + (len % Flag), len \div Flag>>) \o bytes
        Grown(stored, added) ==
            [pool |-> stored, id |-> id, new |-> TRUE,
             hash |-> IF 2 * (id + 1) = Len(hash.ids)
                      THEN Rehash(stored, added, 1, Fill(2 * Len(hash.ids), -1))
                      ELSE added]
        At(p, start) ==
            Grown([bytes |-> Put(p.bytes, start, text), upto |-> p.upto + Len(text)],
                  [ids   |-> [hash.ids EXCEPT ![slot] = id],
                   terms |-> Append(hash.terms,
                               [text |-> start, ints |-> 0, start |-> 0, freq |-> 0,
                                doc |-> 0, code |-> 0, pos |-> 0, off |-> 0])])
        In(p) == At(p, ByteOffset(p) + p.upto)
    IN  In(IF len + 2 + pool.upto > BlockSize THEN NextBuffer(pool) ELSE pool)

\* add: the id of the bytes, and whether they are new
HashAdd(pool, hash, bytes) ==
    LET At(slot) ==
            IF hash.ids[slot] = -1 THEN NewEntry(pool, hash, bytes, slot)
            ELSE [pool |-> pool, hash |-> hash, id |-> hash.ids[slot], new |-> FALSE]
    IN  At(FindHash(pool, hash, bytes))

\* compact: the ids in the order of their slots (sort orders them in place)
Compact(hash) == SelectSeq(hash.ids, LAMBDA id : id # -1)

(* -------------------------- base of a field ---------------------------- *)

RECURSIVE NewSlices(_, _, _)
NewSlices(pool, n, starts) ==
    IF n = 0 THEN [pool |-> pool, starts |-> starts]
    ELSE LET After(s) == NewSlices(s.pool, n - 1, Append(starts, s.start))
         IN  After(NewSlice(pool, FirstLevelSize))

\* add of a new id: room for twice the streams in both pools (the first
\* slices of a term must lie side by side, since init_reader finds a stream
\* by its distance from the first), whose addresses the int pool keeps
AddStreams(w, f, id, streams) ==
    LET n == 2 * streams
        Added(ints, cell, slices) ==
            [w EXCEPT !.pool = slices.pool,
                      !.ints = [ints EXCEPT !.upto = @ + streams,
                                            !.ints = Put(ints.ints, cell, slices.starts)],
                      !.fields[f].terms[id + 1].ints = cell,
                      !.fields[f].terms[id + 1].start = slices.starts[1]]
        With(ints, pool) == Added(ints, Len(ints.ints) - IntBlock + ints.upto, NewSlices(pool, streams, <<>>))
    IN  With(IF n + w.ints.upto > IntBlock THEN NextInts(w.ints) ELSE w.ints,
             IF BlockSize - w.pool.upto < n * FirstLevelSize THEN NextBuffer(w.pool) ELSE w.pool)

\* write_byte: at the stream's position, in a new slice when a mark is there
WriteByte(w, cell, stream, b) ==
    LET upto == w.ints.ints[cell + stream + 1]
        In(alloc) == [w EXCEPT !.pool = [alloc.pool EXCEPT !.bytes[alloc.upto + 1] = b],
                               !.ints.ints[cell + stream + 1] = alloc.upto + 1,
                               !.ints.need_flush = @ \/ upto > FlushBytes]
    IN  In(IF w.pool.bytes[upto + 1] # 0 THEN AllocSlice(w.pool, upto)
           ELSE [pool |-> w.pool, upto |-> upto])

RECURSIVE WriteBytes(_, _, _, _)
WriteBytes(w, cell, stream, data) ==
    IF data = <<>> THEN w
    ELSE WriteBytes(WriteByte(w, cell, stream, Head(data)), cell, stream, Tail(data))

RECURSIVE VIntBytes(_)
VIntBytes(v) == IF v < Flag THEN <<v>> ELSE <<Flag + (v % Flag)>> \o VIntBytes(v \div Flag)

\* write_vint: the low digits first, all but the last with the flag
WriteVInt(w, cell, stream, v) == WriteBytes(w, cell, stream, VIntBytes(v))

(* ---------------------------- slice reader ----------------------------- *)

\* ByteSliceReader::init: up to `end`, or up to the first slice's address
InitSlices(start, end) ==
    [upto  |-> start, level |-> 0, end |-> end,
     limit |-> IF start + FirstLevelSize >= end
               THEN (start \div BlockSize) * BlockSize + (end % BlockSize)
               ELSE start + FirstLevelSize - 4]

\* init_reader: the stream's first slice lies its number of slices after
\* the term's first; its write position is where it ends
InitReader(w, f, id, stream) ==
    LET term == w.fields[f].terms[id + 1]
    IN  InitSlices(term.start + stream * FirstLevelSize, w.ints.ints[term.ints + stream + 1])

Eof(r) == r.upto = r.end

\* next_slice: follow the address at the limit
NextSlice(pool, r) ==
    LET B(k)  == pool.bytes[r.limit + k + 1]
        next  == ((B(0) * Byte + B(1)) * Byte + B(2)) * Byte + B(3)
        level == NextLevel(r.level)
        size  == LevelSizes[level + 1]
    IN  [upto |-> next, level |-> level, end |-> r.end,
         limit |-> IF next + size >= r.end THEN r.end ELSE next + size - 4]

\* read, of one byte
RECURSIVE ReadByte(_, _)
ReadByte(pool, r) ==
    IF r.limit - r.upto < 1 THEN ReadByte(pool, NextSlice(pool, r))
    ELSE [b |-> pool.bytes[r.upto + 1], r |-> [r EXCEPT !.upto = @ + 1]]

\* read_exact
RECURSIVE ReadBytes(_, _, _, _)
ReadBytes(pool, r, n, data) ==
    IF n = 0 THEN [v |-> data, r |-> r]
    ELSE LET After(one) == ReadBytes(pool, one.r, n - 1, Append(data, one.b)) IN After(ReadByte(pool, r))

\* read_vint
RECURSIVE ReadVInt(_, _)
ReadVInt(pool, r) ==
    LET Low(one, rest) == [v |-> one.b - Flag + Flag * rest.v, r |-> rest.r]
        After(one) == IF one.b < Flag THEN [v |-> one.b, r |-> one.r] ELSE Low(one, ReadVInt(pool, one.r))
    IN  After(ReadByte(pool, r))
=============================================================================
