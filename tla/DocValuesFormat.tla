-------------------------- MODULE DocValuesFormat --------------------------
(* What Lucene54DocValuesConsumer writes for a field and what               *)
(* Lucene54DocValuesProducer reads back.  A numeric value is <<>> (null) or *)
(* <<v>>; a byte string is a sequence of bytes.  The packed and monotonic   *)
(* arrays hold exact sequences (PackedStreams checks them).                 *)
EXTENDS Integers, Sequences, FiniteSets, FiniteSetsExt, SequencesExt, Functions, TLC
CONSTANTS LongBits,        \* 64
          Widths,          \* the bit widths DirectWriter supports
          TableMax,        \* 256 distinct values in a table
          DictMax,         \* 256 values in a dictionary
          SparseMin,       \* 1024 documents
          SparsePercent,   \* 99
          IntervalShift,   \* INTERVAL_SHIFT: 4
          ReverseShift,    \* REVERSE_INTERVAL_SHIFT: 10
          ByteMax          \* 255
Abs(x) == IF x < 0 THEN -x ELSE x
LongMax == 2 ^ (LongBits - 1) - 1
LongMin == -(2 ^ (LongBits - 1))
Wrap(x) == ((x - LongMin) % 2 ^ LongBits) + LongMin
\* Rust's division rounds to zero.
Quot(a, b) == IF (a < 0) = (b < 0) THEN Abs(a) \div Abs(b) ELSE -(Abs(a) \div Abs(b))
UnsignedBitsRequired(x) == Min({w \in Widths : x % 2 ^ LongBits < 2 ^ w})
RECURSIVE Gcd(_, _)
Gcd(a, b) == IF b = 0 THEN Abs(a) ELSE Gcd(b, Abs(a) % Abs(b))

(***************************************************************************)
(* add_numeric.                                                            *)
(***************************************************************************)
Null == <<>>
Val(v) == IF v = Null THEN 0 ELSE v[1]
Stat(s, v) ==
    [gcd |-> IF s.gcd = 1 \/ v < Quot(LongMin, 2) \/ v > Quot(LongMax, 2) THEN 1
             ELSE IF s.count # 0 THEN Gcd(s.gcd, Wrap(v - s.min)) ELSE s.gcd,
     min |-> Min({v, s.min}), max |-> Max({v, s.max}), count |-> s.count + 1]
Stats(values) ==
    FoldLeft(LAMBDA s, v : Stat(s, Val(v)), [gcd |-> 0, min |-> LongMax, max |-> LongMin, count |-> 0], values)
\* The values that are missing: null ones, and -1 among ordinals.
IsMissing(v, ordinal) == IF ordinal THEN v = <<-1>> ELSE v = Null
Present(values, ordinal) == SelectSeq(values, LAMBDA v : ~IsMissing(v, ordinal))
Unique(values, ordinal) == IF ordinal THEN {} ELSE {Val(values[d]) : d \in DOMAIN values}
NumericFormat(values, ordinal) ==
    LET unique == Unique(values, ordinal)
        tabled == ~ordinal /\ Cardinality(unique) <= TableMax
        missing == Len(values) - Len(Present(values, ordinal))
        nulls == IF ordinal THEN 0 ELSE missing
        zeros == Len(SelectSeq(values, LAMBDA v : Val(v) = 0))
        constant == Cardinality(unique) = 1 \/ (Cardinality(unique) = 2 /\ nulls > 0 /\ zeros = nulls)
        Choice(s, delta, bits) ==
            IF tabled /\ constant THEN "const"
            ELSE IF missing * 100 >= SparsePercent * s.count /\ s.count >= SparseMin THEN "sparse"
            ELSE IF tabled /\ UnsignedBitsRequired(Cardinality(unique) - 1) < bits THEN "table"
            ELSE IF ~ordinal /\ s.gcd \notin {0, 1} /\ UnsignedBitsRequired(Quot(delta, s.gcd)) < bits THEN "gcd"
            ELSE "delta"
        Delta(s) == Wrap(s.max - s.min)
        Sized(s, delta) == Choice(s, delta, UnsignedBitsRequired(delta))
        Measured(s) == Sized(s, Delta(s))
    IN  Measured(Stats(values))
\* The offset of the missing bits: ALL_LIVE, ALL_MISSING or the bits.
MissingBits(values, none) ==
    LET bits == [d \in DOMAIN values |-> values[d] # none]
    IN  IF FALSE \notin Range(bits) THEN [all |-> "live", bits |-> <<>>]
        ELSE IF TRUE \notin Range(bits) THEN [all |-> "missing", bits |-> <<>>]
        ELSE [all |-> "some", bits |-> bits]
\* The doc ids of write_sparse_missing_bitset.
SparseDocs(values, ordinal) ==
    SelectSeq([d \in DOMAIN values |-> d - 1], LAMBDA d : ~IsMissing(values[d + 1], ordinal))
\* Mutant: the constant is always the greater of the two values.
ConstValue_max(unique) == Max(unique)
ConstValue(unique) == IF Min(unique) < 0 THEN Min(unique) ELSE Max(unique)
RECURSIVE AddNumeric(_, _)
AddNumeric(values, ordinal) ==
    LET unique == Unique(values, ordinal)
        Each(F(_)) == [d \in DOMAIN values |-> F(Val(values[d]))]
        Delta(base) == [min |-> base, data |-> Each(LAMBDA v : Wrap(v - base))]
        Table(table) == [table |-> table, data |-> Each(LAMBDA v : CHOOSE k \in DOMAIN table : table[k] = v)]
        Body(s, format) ==
            CASE format = "const" -> [min |-> ConstValue(unique)]
              [] format = "gcd" -> [min |-> s.min, gcd |-> s.gcd, data |-> Each(LAMBDA v : Quot(Wrap(v - s.min), s.gcd))]
              [] format = "delta" -> Delta(IF Wrap(s.max - s.min) < 0 THEN 0 ELSE s.min)
              [] format = "table" -> Table(SortSeq(SetToSeq(unique), <))
              [] format = "sparse" -> [docs |-> SparseDocs(values, ordinal), sub |-> AddNumeric(Present(values, ordinal), ordinal)]
        Entry(s, format) == [format |-> format, ordinal |-> ordinal, count |-> s.count, missing |-> MissingBits(values, Null)]
                            @@ Body(s, format)
    IN  Entry(Stats(values), NumericFormat(values, ordinal))

(***************************************************************************)
(* The readers of a numeric entry.                                         *)
(***************************************************************************)
LiveBit(missing, doc) ==
    CASE missing.all = "live" -> TRUE
      [] missing.all = "missing" -> FALSE
      [] missing.all = "some" -> missing.bits[doc + 1]
SparseIndex(docs, doc) == SelectInSeq(docs, LAMBDA d : d = doc)
RECURSIVE GetNumeric(_, _)
LiveValue(e, doc) == IF LiveBit(e.missing, doc) THEN e.min ELSE 0
DeltaValue(e, doc) == Wrap(e.min + e.data[doc + 1])
GcdValue(e, doc) == Wrap(e.min + e.gcd * e.data[doc + 1])
TableValue(e, doc) == e.table[e.data[doc + 1]]
SparseValue(e, doc) ==
    LET k == SparseIndex(e.docs, doc)
    IN  IF k # 0 THEN GetNumeric(e.sub, k - 1) ELSE IF e.ordinal THEN -1 ELSE 0
GetNumeric(e, doc) ==
    CASE e.format = "const" -> LiveValue(e, doc)
      [] e.format = "delta" -> DeltaValue(e, doc)
      [] e.format = "gcd" -> GcdValue(e, doc)
      [] e.format = "table" -> TableValue(e, doc)
      [] e.format = "sparse" -> SparseValue(e, doc)
DocsWithNumeric(e, doc) == IF e.format = "sparse" THEN SparseIndex(e.docs, doc) # 0 ELSE LiveBit(e.missing, doc)

(***************************************************************************)
(* Binary fields: the bytes back to back, with addresses when their        *)
(* lengths differ.  The empty string is missing.                           *)
(***************************************************************************)
Lengths(values) == {Len(values[k]) : k \in DOMAIN values}
Addresses(values) == [k \in 1..Len(values) + 1 |-> FoldLeft(LAMBDA n, v : n + Len(v), 0, SubSeq(values, 1, k - 1))]
AddBinary(values) ==
    [format |-> IF Cardinality(Lengths(values)) = 1 THEN "fixed" ELSE "variable",
     missing |-> MissingBits(values, <<>>), count |-> Len(values),
     maxLength |-> Max({0} \cup Lengths(values)), data |-> FlattenSeq(values),
     addresses |-> IF Cardinality(Lengths(values)) = 1 THEN <<>> ELSE Addresses(values)]
FixedBinary(e, id) == SubSeq(e.data, id * e.maxLength + 1, (id + 1) * e.maxLength)
VariableBinary(e, id) == SubSeq(e.data, e.addresses[id + 1] + 1, e.addresses[id + 2])

(***************************************************************************)
(* The terms dictionary.  Blocks of 2^IntervalShift terms: the first in    *)
(* full, then the suffix lengths, then each other term as the length of    *)
(* the prefix it shares with the first and its suffix.                     *)
(***************************************************************************)
IntervalCount == 2 ^ IntervalShift
ReverseCount == 2 ^ ReverseShift
BlockShift == ReverseShift - IntervalShift
BytesDifference(a, b) ==
    LET n == Min({Len(a), Len(b)})
    IN  Min({n} \cup {i \in 0..n - 1 : a[i + 1] # b[i + 1]})
SortKeyLength(prior, current) ==
    LET n == Min({Len(prior), Len(current)})
    IN  Min({Min({Len(current), 1 + Len(prior)})} \cup {i + 1 : i \in {i \in 0..n - 1 : prior[i + 1] # current[i + 1]}})
FirstOf(ord) == ord - (ord % IntervalCount)        \* the first ord of its block
PrefixSum(terms) ==
    FoldLeft(LAMBDA n, k : n + (IF k % IntervalCount = 0 THEN 0 ELSE BytesDifference(terms[FirstOf(k) + 1], terms[k + 1])),
             0, [k \in DOMAIN terms |-> k - 1])
Compressed(terms) ==
    /\ ~(Cardinality(Lengths(terms)) = 1 /\ PrefixSum(terms) <= 3 * (Len(terms) \div IntervalCount))
    /\ Len(terms) >= ReverseCount
Shared(first, term) == Min({ByteMax, BytesDifference(first, term)})
\* flush_terms_dict_block: the lengths take two bytes each if one is over the limit.
Short(x) == <<x \div (ByteMax + 1), x % (ByteMax + 1)>>
BlockHeader(first, deltas) ==
    <<Len(first)>> \o first \o
    (IF \E k \in DOMAIN deltas : deltas[k] > ByteMax - 1
     THEN <<ByteMax>> \o FlattenSeq([k \in DOMAIN deltas |-> Short(deltas[k])]) ELSE deltas)
TermsBlock(block) ==
    LET first == Head(block)
        Suffix(k) == SubSeq(block[k], Shared(first, block[k]) + 1, Len(block[k]))
        deltas == [k \in 1..IntervalCount - 1 |-> IF k + 1 > Len(block) THEN 0 ELSE Len(Suffix(k + 1)) - 1]
    IN  BlockHeader(first, deltas) \o FlattenSeq([k \in 1..Len(block) - 1 |-> <<Shared(first, block[k + 1])>> \o Suffix(k + 1)])
TermsBlocks(terms) ==
    [b \in 1..(Len(terms) + IntervalCount - 1) \div IntervalCount |->
         TermsBlock(SubSeq(terms, (b - 1) * IntervalCount + 1, Min({Len(terms), b * IntervalCount})))]
ReverseIndex(terms) ==
    [r \in 1..(Len(terms) + ReverseCount - 1) \div ReverseCount |->
         LET current == terms[(r - 1) * ReverseCount + 1]
             prior == IF r = 1 THEN <<>> ELSE terms[(r - 1) * ReverseCount]
         IN  SubSeq(current, 1, SortKeyLength(prior, current))]
AddTermsDict(terms) ==
    IF ~Compressed(terms) THEN AddBinary(terms)
    ELSE [format |-> "prefix", count |-> Len(terms), data |-> FlattenSeq(TermsBlocks(terms)),
          addresses |-> Addresses(TermsBlocks(terms)), reverse |-> ReverseIndex(terms)]

(***************************************************************************)
(* CompressedBinaryTermIterator: [ord, pos, start, offsets, first, term].  *)
(***************************************************************************)
Iterator == [ord |-> -1, pos |-> 0, start |-> 0, offsets |-> [k \in 1..IntervalCount |-> 0], first |-> <<>>, term |-> <<>>]
Bytes(e, pos, n) == SubSeq(e.data, pos + 1, pos + n)
Offsets(deltas) == [k \in 1..IntervalCount |-> FoldLeft(LAMBDA n, d : n + 2 + d, 0, SubSeq(deltas, 1, k - 1))]
ShortDeltas(bytes) == [k \in 1..IntervalCount - 1 |-> bytes[2 * k - 1] * (ByteMax + 1) + bytes[2 * k]]
ReadHeader(e, it) ==
    LET len == e.data[it.pos + 1]
        at == it.pos + 1 + len
        short == e.data[at + 1] = ByteMax
    IN  [it EXCEPT !.first = Bytes(e, it.pos + 1, len),
                   !.offsets = Offsets(IF short THEN ShortDeltas(Bytes(e, at + 1, 2 * (IntervalCount - 1)))
                                       ELSE Bytes(e, at, IntervalCount - 1)),
                   !.pos = at + (IF short THEN 2 * IntervalCount - 1 ELSE IntervalCount - 1),
                   !.start = at + (IF short THEN 2 * IntervalCount - 1 ELSE IntervalCount - 1)]
ReadTerm(e, it, offset) ==
    LET shared == e.data[it.pos + 1]
        suffix == it.offsets[offset + 1] - it.offsets[offset] - 1
    IN  [it EXCEPT !.term = SubSeq(it.first, 1, shared) \o Bytes(e, it.pos + 1, suffix), !.pos = @ + 1 + suffix]
ReadFirstTerm(it) == [it EXCEPT !.term = it.first]
IterNext(e, it) ==
    LET next == [it EXCEPT !.ord = @ + 1]
        offset == next.ord % IntervalCount
    IN  CASE next.ord >= e.count -> next
          [] next.ord < e.count /\ offset = 0 -> ReadFirstTerm(ReadHeader(e, next))
          [] OTHER -> ReadTerm(e, next, offset)
Less(a, b) == \E n \in 1..Len(b) : /\ \A k \in 1..n - 1 : k <= Len(a) /\ a[k] = b[k]
                                   /\ (Len(a) = n - 1 \/ (Len(a) >= n /\ a[n] < b[n]))
\* The loop of binary_search_index ends at low = high.
RECURSIVE SearchIndex(_, _, _, _), SearchBlock(_, _, _, _), SeekFrom(_, _, _)
SearchIndex(e, text, low, high) ==
    LET mid == low + (high - low) \div 2
    IN  IF low >= high THEN high
        ELSE IF Less(e.reverse[mid + 1], text) THEN SearchIndex(e, text, mid + 1, high)
        ELSE IF Less(text, e.reverse[mid + 1]) THEN SearchIndex(e, text, low, mid - 1) ELSE mid
FirstTerm(e, block) == Bytes(e, e.addresses[block + 1] + 1, e.data[e.addresses[block + 1] + 1])
SearchBlock(e, text, low, high) ==
    LET mid == low + (high - low) \div 2
    IN  IF low > high THEN high
        ELSE IF Less(FirstTerm(e, mid), text) THEN SearchBlock(e, text, mid + 1, high)
        ELSE IF Less(text, FirstTerm(e, mid)) THEN SearchBlock(e, text, low, mid - 1) ELSE mid
SeekFrom(e, it, text) ==
    LET next == IterNext(e, it)
    IN  CASE next.ord >= e.count -> [it |-> next, status |-> "end"]
          [] next.ord < e.count /\ next.term = text -> [it |-> next, status |-> "found"]
          [] next.ord < e.count /\ Less(text, next.term) -> [it |-> next, status |-> "notfound"]
          [] OTHER -> SeekFrom(e, next, text)
SeekCeil(e, it, text) ==
    LET index == SearchIndex(e, text, 0, Len(e.reverse) - 1)
        low == index * 2 ^ BlockShift
        high == Min({Len(e.addresses) - 2, low + 2 ^ BlockShift - 1})
        block == IF index < 0 THEN 0 ELSE Max({low, SearchBlock(e, text, low, high)})
    IN  SeekFrom(e, [it EXCEPT !.pos = e.addresses[block + 1], !.ord = block * IntervalCount - 1], text)
SeekExactOrd(e, it, ord) ==
    LET block == ord \div IntervalCount
        loaded == IF it.ord >= 0 /\ block = it.ord \div IntervalCount THEN it
                  ELSE ReadHeader(e, [it EXCEPT !.pos = e.addresses[block + 1]])
        at == [loaded EXCEPT !.ord = ord]
        offset == ord % IntervalCount
    IN  IF offset = 0 THEN ReadFirstTerm(at)
        ELSE ReadTerm(e, [at EXCEPT !.pos = at.start + at.offsets[offset]], offset)

(***************************************************************************)
(* get_binary and the lookups of a sorted field.                           *)
(***************************************************************************)
GetBinary(e, id) ==
    CASE e.format = "fixed" -> FixedBinary(e, id)
      [] e.format = "variable" -> VariableBinary(e, id)
      [] e.format = "prefix" -> SeekExactOrd(e, Iterator, id).term
RECURSIVE LookupBinary(_, _, _, _)
LookupBinary(e, key, low, high) ==
    LET mid == low + (high - low) \div 2
    IN  IF low > high THEN -(low + 1)
        ELSE IF Less(GetBinary(e, mid), key) THEN LookupBinary(e, key, mid + 1, high)
        ELSE IF Less(key, GetBinary(e, mid)) THEN LookupBinary(e, key, low, mid - 1) ELSE mid
LookupCompressed(e, key) ==
    LET r == SeekCeil(e, Iterator, key)
    IN  CASE r.status = "found" -> r.it.ord
          [] r.status = "notfound" -> -r.it.ord - 1
          [] r.status = "end" -> -e.count - 1
LookupTerm(e, key) == IF e.format = "prefix" THEN LookupCompressed(e, key) ELSE LookupBinary(e, key, 0, e.count - 1)

(***************************************************************************)
(* Sorted, sorted numeric and sorted set fields.  lists holds the values   *)
(* or the ordinals of each document.                                       *)
(***************************************************************************)
SingleValued(lists) == \A d \in DOMAIN lists : Len(lists[d]) <= 1
SingletonView(lists, missing) == [d \in DOMAIN lists |-> IF lists[d] = <<>> THEN missing ELSE lists[d]]
\* unique_value_sets: <<>> unless the dictionary is small enough.
ValueSets(lists) == Range(lists)
SmallDictionary(lists) == MapThenSumSet(Len, ValueSets(lists)) <= DictMax
SetsInOrder(lists) == SortSeq(SetToSeq(ValueSets(lists)), Less)
Options(ints) == [k \in DOMAIN ints |-> <<ints[k]>>]
SetIds(lists) == LET sets == SetsInOrder(lists) IN [d \in DOMAIN lists |-> (CHOOSE k \in DOMAIN sets : sets[k] = lists[d]) - 1]
AddSorted(terms, ords) == [terms |-> AddTermsDict(terms), ords |-> AddNumeric(Options(ords), TRUE)]
WriteDictionary(lists) ==
    [format |-> "table", table |-> FlattenSeq(SetsInOrder(lists)), offsets |-> Addresses(SetsInOrder(lists)),
     values |-> AddNumeric(Options(SetIds(lists)), TRUE)]
WithAddresses(lists, ordinal) ==
    [format |-> "addresses", values |-> AddNumeric(Options(FlattenSeq(lists)), ordinal), index |-> Addresses(lists)]
AddSortedNumeric(lists) ==
    IF SingleValued(lists) THEN [format |-> "single", values |-> AddNumeric(SingletonView(lists, Null), FALSE)]
    ELSE IF SmallDictionary(lists) THEN WriteDictionary(lists) ELSE WithAddresses(lists, FALSE)
AddSortedSet(terms, lists) ==
    [terms |-> AddTermsDict(terms),
     lists |-> IF SingleValued(lists) THEN [format |-> "single", values |-> AddNumeric(SingletonView(lists, <<-1>>), TRUE)]
               ELSE IF SmallDictionary(lists) THEN WriteDictionary(lists) ELSE WithAddresses(lists, TRUE)]
\* The singleton of a sorted numeric field: a zero may be a missing value.
SingletonNumeric(e, doc) ==
    LET v == GetNumeric(e.values, doc) IN IF v # 0 \/ DocsWithNumeric(e.values, doc) THEN <<v>> ELSE <<>>
SingletonOrd(e, doc) == LET ord == GetNumeric(e.values, doc) IN IF ord < 0 THEN <<>> ELSE <<ord>>
TabledList(e, doc) == LET set == GetNumeric(e.values, doc) IN SubSeq(e.table, e.offsets[set + 1] + 1, e.offsets[set + 2])
AddressedList(e, doc) ==
    [k \in 1..e.index[doc + 2] - e.index[doc + 1] |-> GetNumeric(e.values, e.index[doc + 1] + k - 1)]
GetSortedNumeric(e, doc) == IF e.format = "single" THEN SingletonNumeric(e, doc) ELSE TabledList(e, doc)
GetSortedSet(e, doc) ==
    CASE e.format = "single" -> SingletonOrd(e, doc)
      [] e.format = "table" -> TabledList(e, doc)
      [] e.format = "addresses" -> AddressedList(e, doc)
\* read_fields puts the values of an addressed sorted numeric field among the
\* ordinals, where get_sorted_numeric does not look.
Readable(e) == e.format # "addresses"
============================================================================
