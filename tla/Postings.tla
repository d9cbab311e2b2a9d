------------------------------ MODULE Postings ------------------------------
(***************************************************************************)
(* The postings of a field: Lucene50PostingsWriter with its skip writer,   *)
(* and the three iterators of Lucene50PostingsReader with the skip reader. *)
(* A file is a sequence of cells; a byte, a vint and a vlong take one cell *)
(* and an encoded block as many as its number of bits, so that every file  *)
(* pointer, skip entry and child pointer of the format means something.    *)
(* The bits of a block are the business of PackedInts.                     *)
(***************************************************************************)
EXTENDS Integers, Sequences, FiniteSets, SequencesExt

CONSTANTS BlockSize,        \* BLOCK_SIZE, documents or positions in a block
          SkipMultiplier,   \* skip entries under one entry of the next level
          MaxSkipLevels,    \* MAX_SKIP_LEVELS
          PayloadBytes,     \* initial length of payload_bytes
          MaxDoc,           \* documents of the segment
          NoMoreDocs,       \* NO_MORE_DOCS
          Fields,           \* field infos: [freqs, positions, offsets, payloads]
          FirstTerms,       \* what the field's first term may be
          Terms             \* what the term that is read may be

VARIABLES field,    \* the field that is written and read
          files,    \* [doc, pos, pay]: the three files
          term,     \* the postings the writer was given for the last term
          state,    \* BlockTermState of the last term
          iter,     \* the iterator, or Nothing
          at,       \* ghost: how many postings the iterator should have passed
          used      \* ghost: how many positions of that document were read

vars == <<field, files, term, state, iter, at, used>>

Nothing == [kind |-> "none"]
Spread(f, d) == [i \in 0 .. BlockSize - 1 |-> IF i < Len(f) THEN f[i + 1] ELSE d[i]]
Empty == [i \in 0 .. BlockSize - 1 |-> 0]
Bit(b) == IF b THEN 1 ELSE 0
RECURSIVE Log(_, _)
Log(x, base) == IF x < base THEN 0 ELSE 1 + Log(x \div base, base)
RECURSIVE Bits(_)
Bits(x) == IF x = 0 THEN 0 ELSE 1 + Bits(x \div 2)

-----------------------------------------------------------------------------
(* ForUtil: a block is its number of bits and its values, or 0 and the     *)
(* value all of them have.                                                 *)

AllEqual(data) == \A i \in 2 .. BlockSize : data[i] = data[1]
BitsRequired(data) == Bits(Max(Range(data)))
WriteBlock(data) ==
    IF AllEqual(data) THEN <<0, data[1]>>
    ELSE <<BitsRequired(data), data>> \o [i \in 1 .. BitsRequired(data) - 1 |-> 0]
ReadBlock(file, fp) ==
    IF file[fp + 1] = 0 THEN [values |-> [i \in 1 .. BlockSize |-> file[fp + 2]], fp |-> fp + 2]
    ELSE [values |-> file[fp + 2], fp |-> fp + 1 + file[fp + 1]]
SkipBlock(file, fp) == IF file[fp + 1] = 0 THEN fp + 2 ELSE fp + 1 + file[fp + 1]

-----------------------------------------------------------------------------
(* Lucene50SkipWriter: one buffer per level.                               *)

WithPay(f) == f.offsets \/ f.payloads
NumberOfSkipLevels(docs) ==
    IF docs <= BlockSize THEN 1
    ELSE Min({MaxSkipLevels, 1 + Log(docs \div BlockSize, SkipMultiplier)})
SkipWriter == [initialized |-> FALSE, levels |-> NumberOfSkipLevels(MaxDoc),
               buffer |-> [l \in 1 .. NumberOfSkipLevels(MaxDoc) |-> <<>>],
               last |-> [l \in 1 .. NumberOfSkipLevels(MaxDoc) |-> [doc |-> 0]], base |-> [doc |-> 0]]
ResetSkip(s, docFp, posFp, payFp) ==
    [s EXCEPT !.initialized = FALSE, !.base = [doc |-> 0, docFp |-> docFp, posFp |-> posFp, payFp |-> payFp]]
InitSkip(s) ==
    IF s.initialized THEN s
    ELSE [s EXCEPT !.initialized = TRUE, !.buffer = [l \in 1 .. s.levels |-> <<>>],
                   !.last = [l \in 1 .. s.levels |-> s.base]]
SkipData(f, from, e) ==
    <<e.doc - from.doc, e.docFp - from.docFp>>
        \o (IF ~f.positions THEN <<>>
            ELSE <<e.posFp - from.posFp, e.posUpto>>
                   \o (IF f.payloads THEN <<e.payUpto>> ELSE <<>>)
                   \o (IF WithPay(f) THEN <<e.payFp - from.payFp>> ELSE <<>>))
RECURSIVE LevelsOf(_, _)
LevelsOf(entries, levels) ==
    IF entries % SkipMultiplier # 0 \/ levels = 1 THEN 1
    ELSE 1 + LevelsOf(entries \div SkipMultiplier, levels - 1)
(* A level's entry ends with where the level below stood when it had been  *)
(* written.                                                                *)
BufferSkip(f, s0, e, docs) ==
    LET s == InitSkip(s0)
        n == LevelsOf(docs \div BlockSize, s.levels)
        written == [l \in 1 .. n |-> s.buffer[l] \o SkipData(f, s.last[l], e)]
    IN  [s EXCEPT !.last = [l \in DOMAIN s.last |-> IF l <= n THEN e ELSE s.last[l]],
                  !.buffer = [l \in DOMAIN s.buffer |->
                                IF l > n THEN s.buffer[l]
                                ELSE IF l = 1 THEN written[l]
                                ELSE Append(written[l], Len(written[l - 1]))]]
RECURSIVE WriteSkip(_, _)
WriteSkip(s, level) ==
    IF level = 1 THEN s.buffer[1]
    ELSE (IF s.buffer[level] = <<>> THEN <<>> ELSE <<Len(s.buffer[level])>> \o s.buffer[level])
           \o WriteSkip(s, level - 1)

-----------------------------------------------------------------------------
(* Lucene50PostingsWriter.                                                 *)

Writer(out) ==
    [out |-> out, doc |-> <<>>, freq |-> <<>>, pos |-> <<>>, payLen |-> <<>>, offStart |-> <<>>,
     offLen |-> <<>>, bytes |-> <<>>, lastBlock |-> [doc |-> -1], lastDoc |-> 0, lastPos |-> 0,
     lastStart |-> 0, count |-> 0, skip |-> SkipWriter, start |-> [doc |-> 0, pos |-> 0, pay |-> 0]]
StartTerm(w) ==
    LET fps == [doc |-> Len(w.out.doc), pos |-> Len(w.out.pos), pay |-> Len(w.out.pay)]
    IN  [w EXCEPT !.start = fps, !.lastDoc = 0, !.lastBlock.doc = -1,
                  !.skip = ResetSkip(@, fps.doc, fps.pos, fps.pay)]
(* The skip entry of a block is buffered when the document after it is     *)
(* started, so that no entry points behind the last document.              *)
StartDoc(f, w0, doc, freq) ==
    LET Deltas(w) == Append(w.doc, doc - w.lastDoc)
        Freqs(w) == IF f.freqs THEN Append(w.freq, freq) ELSE <<>>
        Started(w) ==
            [w EXCEPT !.doc = Deltas(w), !.freq = Freqs(w), !.count = @ + 1,
                      !.out.doc = IF Len(Deltas(w)) < BlockSize THEN @
                                  ELSE @ \o WriteBlock(Deltas(w))
                                         \o (IF f.freqs THEN WriteBlock(Freqs(w)) ELSE <<>>),
                      !.lastDoc = doc, !.lastPos = 0, !.lastStart = 0]
    IN  Started(IF w0.lastBlock.doc # -1 /\ w0.doc = <<>>
                THEN [w0 EXCEPT !.skip =
                         BufferSkip(f, @, [w0.lastBlock EXCEPT !.docFp = Len(w0.out.doc)], w0.count)]
                ELSE w0)
AddPosition(f, w, p) ==
    LET pos == Append(w.pos, p.position - w.lastPos)
        payLen == IF f.payloads THEN Append(w.payLen, Len(p.payload)) ELSE <<>>
        bytes == IF f.payloads THEN w.bytes \o p.payload ELSE <<>>
        offStart == IF f.offsets THEN Append(w.offStart, p.start - w.lastStart) ELSE <<>>
        offLen == IF f.offsets THEN Append(w.offLen, p.end - p.start) ELSE <<>>
        full == Len(pos) = BlockSize
        Rest(s) == IF full THEN <<>> ELSE s
    IN  [w EXCEPT !.pos = Rest(pos), !.payLen = Rest(payLen), !.bytes = Rest(bytes),
                  !.offStart = Rest(offStart), !.offLen = Rest(offLen),
                  !.lastPos = p.position, !.lastStart = IF f.offsets THEN p.start ELSE @,
                  !.out.pos = IF full THEN @ \o WriteBlock(pos) ELSE @,
                  !.out.pay = IF ~full THEN @
                              ELSE @ \o (IF f.payloads
                                         THEN WriteBlock(payLen) \o <<Len(bytes)>> \o bytes ELSE <<>>)
                                     \o (IF f.offsets
                                         THEN WriteBlock(offStart) \o WriteBlock(offLen) ELSE <<>>)]
FinishDoc(w) ==
    IF Len(w.doc) < BlockSize THEN w
    ELSE [w EXCEPT !.doc = <<>>, !.freq = <<>>,
                   !.lastBlock = [doc |-> w.lastDoc, docFp |-> 0, posFp |-> Len(w.out.pos),
                                  payFp |-> Len(w.out.pay), posUpto |-> Len(w.pos),
                                  payUpto |-> Len(w.bytes)]]
(* What is left of the documents: a delta and, unless it is 1, a freq.     *)
DocTail(f, w) ==
    FlattenSeq([i \in 1 .. Len(w.doc) |->
        IF ~f.freqs THEN <<w.doc[i]>>
        ELSE IF w.freq[i] = 1 THEN <<2 * w.doc[i] + 1>> ELSE <<2 * w.doc[i], w.freq[i]>>])
(* What is left of the positions: lengths are written where they change,   *)
(* which the last bit of the delta says.                                   *)
PosTail(f, w) ==
    LET Before(i) == FoldLeft(LAMBDA a, b : a + b, 0, SubSeq(w.payLen, 1, i - 1))
        Changed(s, i) == i = 1 \/ s[i] # s[i - 1]
        Coded(s, i, delta) == <<2 * delta + Bit(Changed(s, i))>>
                                \o (IF Changed(s, i) THEN <<s[i]>> ELSE <<>>)
    IN  FlattenSeq([i \in 1 .. Len(w.pos) |->
            (IF f.payloads
             THEN Coded(w.payLen, i, w.pos[i]) \o SubSeq(w.bytes, Before(i) + 1, Before(i) + w.payLen[i])
             ELSE <<w.pos[i]>>)
              \o (IF f.offsets THEN Coded(w.offLen, i, w.offStart[i]) ELSE <<>>)])
FinishTerm(f, w, total) ==
    LET tail == IF w.count = 1 THEN <<>> ELSE DocTail(f, w)
        doc == w.out.doc \o tail
    IN  [out |-> [doc |-> IF w.count > BlockSize THEN doc \o WriteSkip(w.skip, w.skip.levels) ELSE doc,
                  pos |-> IF f.positions THEN w.out.pos \o PosTail(f, w) ELSE w.out.pos,
                  pay |-> w.out.pay],
         state |-> [docFreq |-> w.count, totalTermFreq |-> IF f.freqs THEN total ELSE -1,
                    docStartFp |-> w.start.doc, posStartFp |-> w.start.pos, payStartFp |-> w.start.pay,
                    singletonDocId |-> IF w.count = 1 THEN w.doc[1] ELSE -1,
                    skipOffset |-> IF w.count > BlockSize THEN Len(doc) - w.start.doc ELSE -1,
                    lastPosBlockOffset |-> IF f.positions /\ total > BlockSize
                                           THEN Len(w.out.pos) - w.start.pos ELSE -1]]
WriteTerm(f, out, t) ==
    LET Add(v, p) == AddPosition(f, v, p)
        Doc(w, d) == FinishDoc(FoldLeft(Add, StartDoc(f, w, d.doc, Len(d.positions)),
                                        IF f.positions THEN d.positions ELSE <<>>))
    IN  FinishTerm(f, FoldLeft(Doc, StartTerm(Writer(out)), t),
                   FoldLeft(LAMBDA n, d : n + Len(d.positions), 0, t))
(* What encode_term writes for a state and decode_term reads back, next to *)
(* the doc freq and the total term freq the term dictionary keeps.         *)
EncodeTerm(f, s, last) ==
    [longs |-> <<s.docStartFp - last.docStartFp>>
                 \o (IF f.positions THEN <<s.posStartFp - last.posStartFp>> ELSE <<>>)
                 \o (IF f.positions /\ WithPay(f) THEN <<s.payStartFp - last.payStartFp>> ELSE <<>>),
     bytes |-> (IF s.singletonDocId # -1 THEN <<s.singletonDocId>> ELSE <<>>)
                 \o (IF f.positions /\ s.lastPosBlockOffset # -1 THEN <<s.lastPosBlockOffset>> ELSE <<>>)
                 \o (IF s.skipOffset # -1 THEN <<s.skipOffset>> ELSE <<>>)]
DecodeTerm(f, e, last, docFreq, total) ==
    LET single == docFreq = 1
        blocks == f.positions /\ total > BlockSize
    IN  [docFreq |-> docFreq, totalTermFreq |-> total,
         docStartFp |-> last.docStartFp + e.longs[1],
         posStartFp |-> IF f.positions THEN last.posStartFp + e.longs[2] ELSE last.posStartFp,
         payStartFp |-> IF f.positions /\ WithPay(f) THEN last.payStartFp + e.longs[3]
                        ELSE last.payStartFp,
         singletonDocId |-> IF single THEN e.bytes[1] ELSE -1,
         lastPosBlockOffset |-> IF blocks THEN e.bytes[1 + Bit(single)] ELSE -1,
         skipOffset |-> IF docFreq > BlockSize THEN e.bytes[1 + Bit(single) + Bit(blocks)] ELSE -1]
NewTermState == [docStartFp |-> 0, posStartFp |-> 0, payStartFp |-> 0]

-----------------------------------------------------------------------------
(* Lucene50SkipReader: per level its stream's file pointer and the entry   *)
(* it last read.                                                           *)

Trim(df) == IF df % BlockSize = 0 THEN df - 1 ELSE df
Interval(level) == BlockSize * SkipMultiplier ^ level
RECURSIVE LoadSkipLevels(_, _, _)
LoadSkipLevels(sk, fp, level) ==      \* from the highest level down to 0
    IF level = 0 THEN [sk EXCEPT !.fp[0] = fp, !.start[0] = fp]
    ELSE LoadSkipLevels([sk EXCEPT !.fp[level] = fp + 1, !.start[level] = fp + 1],
                        fp + 1 + files.doc[fp + 1], level - 1)
SkipReaderInit(st, base, df) ==
    LET n == NumberOfSkipLevels(Trim(df))
        entry == [doc |-> 0, docFp |-> st.docStartFp, posFp |-> base.pos, payFp |-> base.pay,
                  posUpto |-> 0, payUpto |-> 0, child |-> 0]
        sk == [levels |-> n, count |-> Trim(df), last |-> entry,
               entry |-> [l \in 0 .. n - 1 |-> entry], skipped |-> [l \in 0 .. n - 1 |-> 0],
               fp |-> [l \in 0 .. n - 1 |-> 0], start |-> [l \in 0 .. n - 1 |-> 0]]
    IN  LoadSkipLevels(sk, st.docStartFp + st.skipOffset, n - 1)
ReadSkipData(f, sk, level) ==
    LET e == sk.entry[level]
        D(i) == files.doc[sk.fp[level] + i]
        payAt == 5 + Bit(f.payloads)
        n == IF f.positions THEN 4 + Bit(f.payloads) + Bit(WithPay(f)) ELSE 2
    IN  [sk EXCEPT !.fp[level] = @ + n,
                   !.entry[level] =
                      IF f.positions
                      THEN [e EXCEPT !.doc = @ + D(1), !.docFp = @ + D(2), !.posFp = @ + D(3),
                                     !.posUpto = D(4), !.payUpto = IF f.payloads THEN D(5) ELSE @,
                                     !.payFp = IF WithPay(f) THEN @ + D(payAt) ELSE @]
                      ELSE [e EXCEPT !.doc = @ + D(1), !.docFp = @ + D(2)]]
ReadChild(sk, level) ==
    IF level = 0 THEN sk
    ELSE [sk EXCEPT !.fp[level] = @ + 1,
                    !.entry[level].child = files.doc[sk.fp[level] + 1] + sk.start[level - 1]]
SetLastSkipData(sk, level) == [sk EXCEPT !.last = sk.entry[level]]
SeekChild(sk, level) ==
    ReadChild([sk EXCEPT !.fp[level] = sk.last.child,
                         !.skipped[level] = sk.skipped[level + 1] - Interval(level + 1),
                         !.entry[level] = [sk.last EXCEPT !.child = sk.entry[level].child]], level)
(* TRUE in "more" when the level had another entry.                        *)
LoadNextSkip(f, sk0, level) ==
    LET sk == [SetLastSkipData(sk0, level) EXCEPT !.skipped[level] = @ + Interval(level)]
    IN  IF sk.skipped[level] > sk.count
        THEN [sk |-> [sk EXCEPT !.entry[level].doc = NoMoreDocs, !.levels = Min({@, level})],
              more |-> FALSE]
        ELSE [sk |-> ReadChild(ReadSkipData(f, sk, level), level), more |-> TRUE]
RECURSIVE SkipDown(_, _, _, _)
SkipDown(f, sk, level, target) ==
    IF level < 0 THEN sk
    ELSE IF target > sk.entry[level].doc
         THEN SkipDown(f, LoadNextSkip(f, sk, level).sk, level, target)
         ELSE SkipDown(f, IF level > 0 /\ sk.last.child > sk.fp[level - 1]
                          THEN SeekChild(sk, level - 1) ELSE sk, level - 1, target)
SkipTo(f, sk, target) ==
    LET Above(l) == \A k \in 1 .. l : k <= sk.levels - 1 /\ target > sk.entry[k].doc
    IN  SkipDown(f, sk, Max({l \in 0 .. Max({sk.levels - 1, 0}) : Above(l)}), target)
SkippedDocs(sk) == sk.skipped[0] - Interval(0)

-----------------------------------------------------------------------------
(* The iterators.  BlockDocIterator, BlockPostingIterator and              *)
(* EverythingIterator share the record; "kind" says which code moves it.   *)

Has(flags, feature) == feature \in flags
Postings(f, flags) ==
    IF ~f.positions \/ ~Has(flags, "positions") THEN "doc"
    ELSE IF (~f.offsets \/ ~Has(flags, "offsets")) /\ (~f.payloads \/ ~Has(flags, "payloads"))
         THEN "posting" ELSE "everything"
NewIterator(kind, st, flags, nextSkip) ==
    [kind |-> kind, flags |-> flags, docFp |-> st.docStartFp, deltas |-> Empty,
     freqs |-> [i \in 0 .. BlockSize - 1 |-> 1], upto |-> BlockSize, skipper |-> Nothing,
     nextSkip |-> nextSkip, docUpto |-> 0, doc |-> -1, accum |-> 0, freq |-> 0, position |-> 0,
     pending |-> 0, posFp |-> 0, posPending |-> st.posStartFp, payFp |-> 0, payPending |-> st.payStartFp,
     lastPosBlock |-> 0, posBuf |-> Empty, posUpto |-> 0, payLenBuf |-> Empty, offStartBuf |-> Empty,
     offLenBuf |-> Empty, bytes |-> [i \in 1 .. PayloadBytes |-> 0], payUpto |-> 0, payLength |-> 0,
     lastStart |-> 0, start |-> 0, end |-> 0, panicked |-> FALSE]
LastPosBlockFp(st) ==
    IF st.totalTermFreq < BlockSize THEN st.posStartFp
    ELSE IF st.totalTermFreq = BlockSize THEN -1 ELSE st.posStartFp + st.lastPosBlockOffset
DocReset(st, flags) == NewIterator("doc", st, flags, BlockSize - 1)
PostingReset(st, flags) ==
    [NewIterator("posting", st, flags, IF st.docFreq > BlockSize THEN BlockSize - 1 ELSE NoMoreDocs)
        EXCEPT !.lastPosBlock = LastPosBlockFp(st)]
EverythingReset(f, st, flags) ==
    [NewIterator("everything", st, flags, IF st.docFreq > BlockSize THEN BlockSize - 1 ELSE NoMoreDocs)
        EXCEPT !.lastPosBlock = LastPosBlockFp(st),
               !.start = IF f.offsets THEN 0 ELSE -1, !.end = IF f.offsets THEN 0 ELSE -1]

RECURSIVE ReadVIntBlock(_, _, _)
ReadVIntBlock(fp, n, hasFreq) ==
    IF n = 0 THEN [deltas |-> <<>>, freqs |-> <<>>]
    ELSE LET code == files.doc[fp + 1]
             one == ~hasFreq \/ code % 2 = 1
             rest == ReadVIntBlock(fp + (IF one THEN 1 ELSE 2), n - 1, hasFreq)
         IN  [deltas |-> <<IF hasFreq THEN code \div 2 ELSE code>> \o rest.deltas,
              freqs |-> IF ~hasFreq THEN <<>>
                        ELSE <<IF one THEN 1 ELSE files.doc[fp + 2]>> \o rest.freqs]
Singleton(f, it, st) ==
    [it EXCEPT !.deltas[0] = st.singletonDocId, !.upto = 0,
               !.freqs[0] = IF f.freqs THEN st.totalTermFreq ELSE st.docFreq]
VIntDocs(it, left, hasFreq) ==
    LET r == ReadVIntBlock(it.docFp, left, hasFreq)
    IN  [it EXCEPT !.deltas = Spread(r.deltas, @), !.freqs = Spread(r.freqs, @), !.upto = 0]
DocRefillDocs(f, it, st) ==
    LET left == st.docFreq - it.docUpto
        deltas == ReadBlock(files.doc, it.docFp)
        freqs == ReadBlock(files.doc, deltas.fp)
        filled == [it EXCEPT !.deltas = Spread(deltas.values, @), !.upto = 0]
    IN  IF left >= BlockSize
        THEN IF ~f.freqs THEN [filled EXCEPT !.docFp = deltas.fp]
             ELSE IF Has(it.flags, "freqs")
                  THEN [filled EXCEPT !.docFp = freqs.fp, !.freqs = Spread(freqs.values, @)]
                  ELSE [filled EXCEPT !.docFp = SkipBlock(files.doc, deltas.fp)]
        ELSE IF st.docFreq = 1 THEN Singleton(f, it, st) ELSE VIntDocs(it, left, f.freqs)
PostingRefillDocs(f, it, st) ==
    LET left == st.docFreq - it.docUpto
        deltas == ReadBlock(files.doc, it.docFp)
        freqs == ReadBlock(files.doc, deltas.fp)
    IN  IF left >= BlockSize
        THEN [it EXCEPT !.deltas = Spread(deltas.values, @), !.freqs = Spread(freqs.values, @),
                        !.docFp = freqs.fp, !.upto = 0]
        ELSE IF st.docFreq = 1 THEN Singleton(f, it, st) ELSE VIntDocs(it, left, TRUE)
EverythingRefillDocs(f, it, st) == PostingRefillDocs(f, it, st)
RefillDocs(f, it, st) ==
    IF it.upto # BlockSize THEN it
    ELSE IF it.kind = "doc" THEN DocRefillDocs(f, it, st)
    ELSE IF it.kind = "posting" THEN PostingRefillDocs(f, it, st)
    ELSE EverythingRefillDocs(f, it, st)

(* One document further in the buffer.                                     *)
Taken(it) ==
    [it EXCEPT !.accum = @ + it.deltas[it.upto], !.freq = it.freqs[it.upto],
               !.pending = @ + it.freqs[it.upto], !.upto = @ + 1, !.docUpto = @ + 1]
Landed_kept(it) == [it EXCEPT !.doc = it.accum, !.lastStart = 0]
Landed(it) == [it EXCEPT !.doc = it.accum, !.position = 0, !.lastStart = 0]
DocNext(f, it, st) ==
    IF it.docUpto = st.docFreq THEN [it EXCEPT !.doc = NoMoreDocs]
    ELSE Landed(Taken(RefillDocs(f, it, st)))
PostingNext(f, it, st) == DocNext(f, it, st)
EverythingNext(f, it, st) == DocNext(f, it, st)
RECURSIVE Scan(_, _, _)
Scan(it0, st, target) ==
    LET it == Taken(it0)
    IN  IF it.accum >= target THEN Landed(it)
        ELSE IF it.docUpto = st.docFreq THEN [it EXCEPT !.doc = NoMoreDocs]
        ELSE Scan(it, st, target)
Skipped(f, it, st, base, target) ==
    LET Moved(sk) == [it EXCEPT !.skipper = sk, !.nextSkip = sk.entry[0].doc]
        Landing(sk) ==
            IF SkippedDocs(sk) <= it.docUpto THEN Moved(sk)
            ELSE [Moved(sk) EXCEPT !.docUpto = SkippedDocs(sk), !.upto = BlockSize, !.accum = sk.last.doc,
                                   !.docFp = sk.last.docFp, !.posPending = sk.last.posFp,
                                   !.payPending = sk.last.payFp, !.pending = sk.last.posUpto,
                                   !.lastStart = 0, !.payUpto = sk.last.payUpto]
    IN  Landing(SkipTo(f, IF it.skipper = Nothing THEN SkipReaderInit(st, base, st.docFreq) ELSE it.skipper,
                       target))
Found(f, it, st, target) ==
    IF it.docUpto = st.docFreq THEN [it EXCEPT !.doc = NoMoreDocs]
    ELSE Scan(RefillDocs(f, it, st), st, target)
DocAdvance(f, it, st, target) ==
    Found(f, IF st.docFreq > BlockSize /\ target > it.nextSkip
             THEN Skipped(f, it, st, [pos |-> 0, pay |-> 0], target) ELSE it, st, target)
PostingAdvance(f, it, st, target) ==
    Found(f, IF target > it.nextSkip
             THEN Skipped(f, it, st, [pos |-> st.posStartFp, pay |-> st.payStartFp], target)
             ELSE it, st, target)
EverythingAdvance(f, it, st, target) ==
    Found(f, IF target > it.nextSkip
             THEN Skipped(f, it, st, [pos |-> st.posStartFp, pay |-> st.payStartFp], target)
             ELSE it, st, target)

-----------------------------------------------------------------------------
(* Positions.                                                              *)

(* One position of the tail: a record of what it holds, and the pointer    *)
(* after it.                                                               *)
TailEntry(f, fp, payLen, offLen) ==
    LET P(i) == files.pos[fp + i]
        newPay == f.payloads /\ P(1) % 2 = 1
        len == IF newPay THEN P(2) ELSE payLen
        o == 1 + Bit(newPay) + len
        newOff == f.offsets /\ P(o + 1) % 2 = 1
    IN  [delta |-> IF f.payloads THEN P(1) \div 2 ELSE P(1), payLen |-> len,
         bytes |-> [i \in 1 .. len |-> P(1 + Bit(newPay) + i)],
         offStart |-> IF f.offsets THEN P(o + 1) \div 2 ELSE 0,
         offLen |-> IF newOff THEN P(o + 2) ELSE offLen,
         fp |-> fp + o + Bit(f.offsets) + Bit(newOff)]
RECURSIVE Tail_(_, _, _, _, _)
Tail_(f, fp, n, payLen, offLen) ==
    IF n = 0 THEN <<>>
    ELSE LET From(e) == <<e>> \o Tail_(f, e.fp, n - 1, e.payLen, e.offLen)
         IN  From(TailEntry(f, fp, payLen, offLen))
Each(es, F(_)) == [i \in 1 .. Len(es) |-> F(es[i])]
LastFp(es, fp) == IF es = <<>> THEN fp ELSE es[Len(es)].fp
PostingRefillPositions(f, it, st) ==
    LET es == Tail_(f, it.posFp, st.totalTermFreq % BlockSize, 0, 0)
        block == ReadBlock(files.pos, it.posFp)
    IN  IF it.posFp = it.lastPosBlock
        THEN [it EXCEPT !.posBuf = Spread(Each(es, LAMBDA e : e.delta), @), !.posFp = LastFp(es, @)]
        ELSE [it EXCEPT !.posBuf = Spread(block.values, @), !.posFp = block.fp]
(* payload_bytes is resized by a local counter that stays 0, and filled    *)
(* from where the field's counter stands.                                  *)
RECURSIVE TakeBytes(_, _)
TakeBytes(it, es) ==
    IF es = <<>> THEN [it EXCEPT !.payUpto = 0]
    ELSE LET len == es[1].payLen
             room == IF it.payUpto + len > Len(it.bytes) THEN len ELSE Len(it.bytes)
         IN  IF len = 0 THEN TakeBytes(it, Tail(es))
             ELSE IF it.payUpto + len > room THEN [it EXCEPT !.panicked = TRUE]
             ELSE TakeBytes([it EXCEPT
                     !.bytes = [i \in 1 .. room |->
                                  IF i > it.payUpto /\ i <= it.payUpto + len
                                  THEN es[1].bytes[i - it.payUpto]
                                  ELSE IF i <= Len(it.bytes) THEN it.bytes[i] ELSE 0],
                     !.payUpto = @ + len], Tail(es))
TailPositions(f, it, st) ==
    LET Filled(es) == [it EXCEPT !.posBuf = Spread(Each(es, LAMBDA e : e.delta), @),
                                 !.payLenBuf = Spread(Each(es, LAMBDA e : e.payLen), @),
                                 !.offStartBuf = Spread(Each(es, LAMBDA e : e.offStart), @),
                                 !.offLenBuf = Spread(Each(es, LAMBDA e : e.offLen), @),
                                 !.posFp = LastFp(es, @)]
        Taken_(es) == IF f.payloads THEN TakeBytes(Filled(es), es) ELSE [Filled(es) EXCEPT !.payUpto = 0]
    IN  Taken_(Tail_(f, it.posFp, st.totalTermFreq % BlockSize, 0, 0))
BlockPayloads(f, it) ==
    LET lens == ReadBlock(files.pay, it.payFp)
        after == SkipBlock(files.pay, it.payFp)
        num == files.pay[after + 1]
        read == [i \in 1 .. Max({num, Len(it.bytes)}) |->
                   IF i <= num THEN files.pay[after + 1 + i] ELSE it.bytes[i]]
    IN  IF ~f.payloads THEN it
        ELSE IF Has(it.flags, "payloads")
             THEN [it EXCEPT !.payLenBuf = Spread(lens.values, @), !.bytes = read,
                             !.payFp = after + 1 + num, !.payUpto = 0]
             ELSE [it EXCEPT !.payFp = after + 1 + num, !.payUpto = 0]
BlockOffsets(f, it) ==
    LET starts == ReadBlock(files.pay, it.payFp)
        lens == ReadBlock(files.pay, starts.fp)
    IN  IF ~f.offsets THEN it
        ELSE IF Has(it.flags, "offsets")
             THEN [it EXCEPT !.offStartBuf = Spread(starts.values, @),
                             !.offLenBuf = Spread(lens.values, @), !.payFp = lens.fp]
             ELSE [it EXCEPT !.payFp = SkipBlock(files.pay, SkipBlock(files.pay, it.payFp))]
EverythingRefillPositions(f, it, st) ==
    LET block == ReadBlock(files.pos, it.posFp)
    IN  IF it.posFp = it.lastPosBlock THEN TailPositions(f, it, st)
        ELSE BlockOffsets(f, BlockPayloads(f, [it EXCEPT !.posBuf = Spread(block.values, @),
                                                         !.posFp = block.fp]))
RECURSIVE SkipPosBlocks(_, _)
SkipPosBlocks(fp, n) == IF n = 0 THEN fp ELSE SkipPosBlocks(SkipBlock(files.pos, fp), n - 1)
PostingSkipPositions(f, it, st) ==
    LET toSkip == it.pending - it.freq
        left == BlockSize - it.posUpto
        past == toSkip - left
        there == [it EXCEPT !.posFp = SkipPosBlocks(@, past \div BlockSize)]
    IN  IF toSkip < left THEN [it EXCEPT !.posUpto = @ + toSkip, !.position = 0]
        ELSE [PostingRefillPositions(f, there, st) EXCEPT !.posUpto = past % BlockSize, !.position = 0]
RECURSIVE SkipPayBlocks(_, _, _)
SkipPayBlocks(f, fp, n) ==
    IF n = 0 THEN fp
    ELSE LET lens == SkipBlock(files.pay, fp)
             pay == IF f.payloads THEN lens + 1 + files.pay[lens + 1] ELSE fp
             off == IF f.offsets THEN SkipBlock(files.pay, SkipBlock(files.pay, pay)) ELSE pay
         IN  SkipPayBlocks(f, off, n - 1)
RECURSIVE Passed(_, _, _)
Passed(f, it, n) ==
    IF n = 0 THEN [it EXCEPT !.position = 0, !.lastStart = 0]
    ELSE Passed(f, [it EXCEPT !.posUpto = @ + 1,
                              !.payUpto = IF f.payloads THEN @ + it.payLenBuf[it.posUpto] ELSE @], n - 1)
EverythingSkipPositions(f, it, st) ==
    LET toSkip == it.pending - it.freq
        left == BlockSize - it.posUpto
        past == toSkip - left
        there == [it EXCEPT !.posFp = SkipPosBlocks(@, past \div BlockSize),
                            !.payFp = SkipPayBlocks(f, @, past \div BlockSize)]
    IN  IF toSkip < left THEN Passed(f, it, toSkip)
        ELSE Passed(f, [EverythingRefillPositions(f, there, st) EXCEPT !.payUpto = 0, !.posUpto = 0],
                    past % BlockSize)
(* next_position: the pointers of the term or the skip entry are taken,    *)
(* the positions of the documents passed over are skipped, an exhausted    *)
(* buffer is filled, and one position is read.                             *)
PostingNextPosition(f, it0, st) ==
    LET Sought(it) == IF it.posPending = -1 THEN it
                      ELSE [it EXCEPT !.posFp = it.posPending, !.posPending = -1, !.posUpto = BlockSize]
        CaughtUp(it) == IF it.pending <= it.freq THEN it
                        ELSE [PostingSkipPositions(f, it, st) EXCEPT !.pending = it.freq]
        Filled(it) == IF it.posUpto # BlockSize THEN it
                      ELSE [PostingRefillPositions(f, it, st) EXCEPT !.posUpto = 0]
        Read(it) == [it EXCEPT !.position = @ + it.posBuf[it.posUpto], !.posUpto = @ + 1, !.pending = @ - 1]
    IN  Read(Filled(CaughtUp(Sought(it0))))
EverythingNextPosition(f, it0, st) ==
    LET Sought(it) == IF it.posPending = -1 THEN it
                      ELSE [it EXCEPT !.posFp = it.posPending, !.posPending = -1, !.posUpto = BlockSize,
                                      !.payFp = IF it.payPending = -1 THEN @ ELSE it.payPending,
                                      !.payPending = -1]
        CaughtUp(it) == IF it.pending <= it.freq THEN it
                        ELSE [EverythingSkipPositions(f, it, st) EXCEPT !.pending = it.freq]
        Filled(it) == IF it.posUpto # BlockSize THEN it
                      ELSE [EverythingRefillPositions(f, it, st) EXCEPT !.posUpto = 0]
        Start(it) == it.lastStart + it.offStartBuf[it.posUpto]
        Read(it) ==
            [it EXCEPT !.position = @ + it.posBuf[it.posUpto], !.posUpto = @ + 1, !.pending = @ - 1,
                       !.payLength = IF f.payloads THEN it.payLenBuf[it.posUpto] ELSE @,
                       !.payUpto = IF f.payloads THEN @ + it.payLenBuf[it.posUpto] ELSE @,
                       !.start = IF f.offsets THEN Start(it) ELSE @,
                       !.lastStart = IF f.offsets THEN Start(it) ELSE @,
                       !.end = IF f.offsets THEN Start(it) + it.offLenBuf[it.posUpto] ELSE @]
    IN  Read(Filled(CaughtUp(Sought(it0))))
Payload(it) == [i \in 1 .. it.payLength |->
                  IF it.payUpto + i <= Len(it.bytes) THEN it.bytes[it.payUpto + i] ELSE -1]

-----------------------------------------------------------------------------
Init ==
    /\ field \in Fields
    /\ files = [doc |-> <<>>, pos |-> <<>>, pay |-> <<>>]
    /\ term = <<>> /\ state = NewTermState
    /\ iter = Nothing /\ at = 0 /\ used = 0

(* A term is written, its state encoded after the term before it, and      *)
(* decoded again.                                                          *)
Write(t) ==
    /\ term = <<>>
    /\ \E w \in {WriteTerm(field, files, t)} :
           /\ files' = w.out
           /\ state' = DecodeTerm(field, EncodeTerm(field, w.state, state), state,
                                  w.state.docFreq, w.state.totalTermFreq)
WriteFirst == /\ files.doc = <<>> /\ state = NewTermState
              /\ \E t \in FirstTerms : Write(t)
              /\ UNCHANGED <<field, term, iter, at, used>>
WriteTermRead == /\ state # NewTermState
                 /\ \E t \in Terms : Write(t) /\ term' = t
                 /\ UNCHANGED <<field, iter, at, used>>
Open ==
    /\ term # <<>> /\ iter = Nothing
    /\ \E flags \in {{}, {"freqs"}, {"freqs", "positions"}, {"freqs", "positions", "offsets"},
                     {"freqs", "positions", "payloads"}, {"freqs", "positions", "offsets", "payloads"}} :
         LET kind == Postings(field, flags)
         IN  iter' = CASE kind = "doc" -> DocReset(state, flags)
                       [] kind = "posting" -> PostingReset(state, flags)
                       [] OTHER -> EverythingReset(field, state, flags)
    /\ UNCHANGED <<field, files, term, state, at, used>>
Opened == iter # Nothing /\ iter.doc # NoMoreDocs /\ ~iter.panicked
NextDoc ==
    /\ Opened
    /\ iter' = CASE iter.kind = "doc" -> DocNext(field, iter, state)
                 [] iter.kind = "posting" -> PostingNext(field, iter, state)
                 [] OTHER -> EverythingNext(field, iter, state)
    /\ at' = at + 1 /\ used' = 0
    /\ UNCHANGED <<field, files, term, state>>
Reached(target) == Cardinality({i \in DOMAIN term : term[i].doc < target}) + 1
AdvanceDoc ==
    /\ Opened
    /\ \E target \in iter.doc + 1 .. MaxDoc :
         /\ iter' = CASE iter.kind = "doc" -> DocAdvance(field, iter, state, target)
                      [] iter.kind = "posting" -> PostingAdvance(field, iter, state, target)
                      [] OTHER -> EverythingAdvance(field, iter, state, target)
         /\ at' = Reached(target)
    /\ used' = 0
    /\ UNCHANGED <<field, files, term, state>>
NextPosition ==
    /\ Opened /\ at > 0 /\ iter.kind # "doc" /\ used < Len(term[at].positions)
    /\ iter' = IF iter.kind = "posting" THEN PostingNextPosition(field, iter, state)
               ELSE EverythingNextPosition(field, iter, state)
    /\ used' = used + 1
    /\ UNCHANGED <<field, files, term, state, at>>

Next == WriteFirst \/ WriteTermRead \/ Open \/ NextDoc \/ AdvanceDoc \/ NextPosition
Spec == Init /\ [][Next]_vars

-----------------------------------------------------------------------------
(* Whatever calls of next, advance and next_position led to it, in         *)
(* whatever iterator the flags chose, the iterator stands on the document  *)
(* those calls should have reached, with the frequency, the position and   *)
(* the offsets that were written: the skip lists, the pending positions    *)
(* and the two encodings of a block and of a tail agree.                   *)
DocExact ==
    IF at > Len(term) THEN iter.doc = NoMoreDocs
    ELSE at > 0 =>
         /\ iter.doc = term[at].doc
         /\ field.freqs /\ Has(iter.flags, "freqs") => iter.freq = Len(term[at].positions)
PositionExact ==
    used > 0 =>
      LET p == term[at].positions[used]
      IN  /\ iter.position = p.position
          /\ iter.kind = "everything" /\ field.offsets /\ Has(iter.flags, "offsets")
               => iter.start = p.start /\ iter.end = p.end
PostingsExact == iter # Nothing /\ ~iter.panicked => DocExact /\ PositionExact
(* payload() returns the payload that was written with the position.       *)
PayloadsExact ==
    Opened /\ used > 0 /\ iter.kind = "everything" /\ field.payloads /\ Has(iter.flags, "payloads")
      => Payload(iter) = term[at].positions[used].payload
(* Reading a position that was written never fails.                        *)
PositionsReadable == iter # Nothing => ~iter.panicked
=============================================================================
