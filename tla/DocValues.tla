----------------------------- MODULE DocValues -----------------------------
(* The doc values of one field: the writer that buffers them while a        *)
(* segment is built, the flush into a DocValuesFormat entry, deletions, and *)
(* the merge that reads the entries of several segments and writes one.     *)
EXTENDS DocValuesFormat
CONSTANTS Kinds,           \* the types of the field
          Numbers, Strings,
          ListNumbers,     \* the values of a sorted numeric field
          MaxDocs,         \* documents of all segments
          MaxSegments,
          MaxValues,       \* values of a document
          WordBits         \* the bits of a word of docs_with_field: 64
VARIABLES kind, sort,
          writer,          \* the DocValuesWriter of the segment being built
          docs,            \* the values its documents were given
          segments         \* [truth, given, entry, live] of each flushed segment
vars == <<kind, sort, writer, docs, segments>>
Multi == kind \in {"sortednumeric", "sortedset"}
Textual == kind \in {"binary", "sorted", "sortedset"}
Values == IF Textual THEN Strings ELSE IF Multi THEN ListNumbers ELSE Numbers

Sum(lens) == FoldLeft(LAMBDA n, c : n + c, 0, lens)

(***************************************************************************)
(* The writers.  hash holds the distinct strings in the order they came;   *)
(* pending the values, or the ids of their strings; with the documents     *)
(* that have one, in a set of as many bits as bits says.                   *)
(***************************************************************************)
NewWriter == [pending |-> <<>>, with |-> {}, bits |-> WordBits, hash |-> <<>>, counts |-> <<>>, current |-> <<>>, doc |-> 0]
\* A set too small for doc grows to the word after it, not to the segment.
EnsureCapacity(bits, doc) == IF doc < bits THEN bits ELSE ((doc - 1) \div WordBits + 2) * WordBits
SetWith(w, doc) == [w EXCEPT !.with = @ \cup {doc}, !.bits = EnsureCapacity(@, doc)]
HashAdd(hash, v) == IF v \in Range(hash) THEN hash ELSE Append(hash, v)
TermId(hash, v) == (CHOOSE k \in DOMAIN hash : hash[k] = v) - 1
AddNumericValue(w, doc, v) == [SetWith(w, doc) EXCEPT !.pending = Append(@, v)]
AddSortedValue(w, doc, v) ==
    LET hash == HashAdd(w.hash, v)
    IN  [SetWith(w, doc) EXCEPT !.hash = hash, !.pending = Append(@, TermId(hash, v))]
\* The documents without a value get a length of 0.
AddBinaryValue(w, doc, v) ==
    [SetWith(w, doc) EXCEPT !.counts = @ \o [k \in 1..doc - Len(@) |-> 0] \o <<Len(v)>>, !.pending = @ \o v]
Sorted(seq) == SortSeq(seq, <)
Dedup(seq) == SelectSeq([k \in DOMAIN seq |-> k], LAMBDA k : k = 1 \/ seq[k] # seq[k - 1])
CurrentValues(w) ==
    LET sorted == Sorted(w.current)
    IN  IF kind = "sortedset" THEN [k \in DOMAIN Dedup(sorted) |-> sorted[Dedup(sorted)[k]]] ELSE sorted
FinishCurrentDoc(w) ==
    [w EXCEPT !.pending = @ \o CurrentValues(w), !.counts = Append(@, Len(CurrentValues(w))), !.current = <<>>, !.doc = @ + 1]
Padded(w, doc) == IF w.doc < doc THEN [w EXCEPT !.counts = @ \o [k \in 1..doc - w.doc |-> 0], !.doc = doc] ELSE w
AtDoc(w, doc) == Padded(IF doc # w.doc THEN FinishCurrentDoc(w) ELSE w, doc)
AddSortedNumericValue(w, doc, v) == [AtDoc(w, doc) EXCEPT !.current = Append(@, v)]
AddSortedSetValue(w, doc, v) ==
    LET hash == HashAdd(w.hash, v) IN [AtDoc(w, doc) EXCEPT !.hash = hash, !.current = Append(@, TermId(hash, v))]
AddValue(w, doc, v) ==
    CASE kind = "numeric" -> AddNumericValue(w, doc, v)
      [] kind = "binary" -> AddBinaryValue(w, doc, v)
      [] kind = "sorted" -> AddSortedValue(w, doc, v)
      [] kind = "sortednumeric" -> AddSortedNumericValue(w, doc, v)
      [] kind = "sortedset" -> AddSortedSetValue(w, doc, v)
\* Only one value per document: what the writer knows of the documents before
\* is how many values it holds.
Rejects(w, doc) ==
    CASE kind = "binary" -> doc < Len(w.counts)
      [] kind \in {"numeric", "sorted"} -> doc < Len(w.pending)
      [] OTHER -> FALSE
Finish(w, maxDoc) ==
    IF kind = "sortednumeric" /\ w.doc >= maxDoc THEN w ELSE IF Multi THEN Padded(FinishCurrentDoc(w), maxDoc) ELSE w

(***************************************************************************)
(* The iterators of the flush.  order is <<>> or new_to_old.               *)
(***************************************************************************)
Terms(w) == SortSeq(w.hash, Less)
OrdMap(w) == [k \in DOMAIN w.hash |-> (CHOOSE n \in DOMAIN Terms(w) : Terms(w)[n] = w.hash[k]) - 1]
Rank(w, doc) == Cardinality({d \in w.with : d <= doc})
\* The documents whose bit is read although the set does not hold it: those
\* after the last with a value.  Whatever is in that memory counts as a bit;
\* one that is set wants a value of the iterator, which may have none left.
Unheld(w, maxDoc, order) ==
    CASE kind = "numeric" /\ order = <<>> -> w.bits..maxDoc - 1
      [] kind = "sorted" -> w.bits..maxDoc
      [] OTHER -> {}
Readings(w, maxDoc, order) == {[w EXCEPT !.with = @ \cup stray] : stray \in SUBSET Unheld(w, maxDoc, order)}
RunsDry(w) ==
    kind \in {"numeric", "sorted"} /\ Cardinality(IF kind = "sorted" THEN w.with \ {0} ELSE w.with) > Len(w.pending)
NumericValues(w, maxDoc) == [d \in 1..maxDoc |-> IF d - 1 \in w.with THEN <<w.pending[Rank(w, d - 1)]>> ELSE Null]
\* SortedOrdsIterator moves to the next document before it looks.
SortedOrds(w, maxDoc) ==
    LET Seen(d) == Cardinality({x \in w.with : 1 <= x /\ x <= d})
    IN  [d \in 1..maxDoc |-> IF d \in w.with THEN OrdMap(w)[w.pending[Seen(d)] + 1] ELSE -1]
BinaryValues(w, maxDoc) ==
    LET ends == [k \in 0..Len(w.counts) |-> Sum(SubSeq(w.counts, 1, k))]
    IN  [d \in 1..maxDoc |-> IF d <= Len(w.counts) THEN SubSeq(w.pending, ends[d - 1] + 1, ends[d]) ELSE <<>>]
Lists(w, maxDoc) ==
    LET ends == [k \in 0..maxDoc |-> Sum(SubSeq(w.counts, 1, k))]
    IN  [d \in 1..maxDoc |-> SubSeq(w.pending, ends[d - 1] + 1, ends[d])]
SetOrds(w, maxDoc) ==
    LET ids == Lists(w, maxDoc)
    IN  [d \in 1..maxDoc |-> Sorted([k \in DOMAIN ids[d] |-> OrdMap(w)[ids[d][k] + 1]])]
\* The index sort moves each document's values; a numeric one that has none
\* is handed over as 0.
Reordered(values, order) == [n \in DOMAIN order |-> values[order[n] + 1]]
SortedNumerics(values, order) == [n \in DOMAIN order |-> <<Val(values[order[n] + 1])>>]
Given(w, maxDoc, order) ==
    CASE kind = "numeric" ->
             LET v == NumericValues(w, maxDoc) IN IF order = <<>> THEN v ELSE SortedNumerics(v, order)
      [] kind = "binary" -> LET v == BinaryValues(w, maxDoc) IN IF order = <<>> THEN v ELSE Reordered(v, order)
      [] kind = "sorted" -> SortedOrds(w, maxDoc)
      [] kind = "sortednumeric" -> LET v == Lists(w, maxDoc) IN IF order = <<>> THEN v ELSE Reordered(v, order)
      [] kind = "sortedset" -> SetOrds(w, maxDoc)

(***************************************************************************)
(* An entry, and reading a document's values from it.                      *)
(***************************************************************************)
AddField(given, terms) ==
    CASE kind = "numeric" -> AddNumeric(given, FALSE)
      [] kind = "binary" -> AddBinary(given)
      [] kind = "sorted" -> AddSorted(terms, given)
      [] kind = "sortednumeric" -> AddSortedNumeric(given)
      [] kind = "sortedset" -> AddSortedSet(terms, given)
ReadOrds(e, doc) ==
    IF kind = "sorted" THEN LET ord == GetNumeric(e.ords, doc) IN IF ord < 0 THEN <<>> ELSE <<ord>>
    ELSE GetSortedSet(e.lists, doc)
Read(e, doc) ==
    CASE kind = "numeric" -> IF GetNumeric(e, doc) # 0 \/ DocsWithNumeric(e, doc) THEN <<GetNumeric(e, doc)>> ELSE Null
      [] kind = "binary" -> IF LiveBit(e.missing, doc) THEN <<GetBinary(e, doc)>> ELSE <<>>
      [] kind = "sortednumeric" -> IF Readable(e) THEN GetSortedNumeric(e, doc) ELSE <<>>
      [] OTHER -> [k \in DOMAIN ReadOrds(e, doc) |-> GetBinary(e.terms, ReadOrds(e, doc)[k])]

(***************************************************************************)
(* Merging: the live documents in order.  Ordinals go through a map from   *)
(* the segments' to the merged terms that live documents still use.  (The  *)
(* shortcut for live_docs.len() = 0 is never taken: the live docs of a     *)
(* segment without deletions are MatchAllBits of its max_doc.)             *)
(***************************************************************************)
MergedDocs(segs) ==
    FlattenSeq([k \in DOMAIN segs |-> SelectSeq([d \in DOMAIN segs[k].truth |-> [seg |-> k, doc |-> d - 1]],
                                                LAMBDA x : x.doc \in segs[k].live)])
LiveOrds(s) == UNION {Range(ReadOrds(s.entry, d)) : d \in s.live}
LiveTerms(s) == {GetBinary(s.entry.terms, ord) : ord \in LiveOrds(s)}
GlobalTerms(segs) == SortSeq(SetToSeq(UNION {LiveTerms(segs[k]) : k \in DOMAIN segs}), Less)
\* OrdinalMap: the delta of an ordinal is that of the first live one after it.
GlobalOrd(segs, k, ord) ==
    LET next == Min({o \in LiveOrds(segs[k]) : o >= ord})
        terms == GlobalTerms(segs)
    IN  ord + (CHOOSE n \in DOMAIN terms : terms[n] = GetBinary(segs[k].entry.terms, next)) - 1 - next
MergedOrds(segs, x) ==
    LET ords == ReadOrds(segs[x.seg].entry, x.doc) IN [n \in DOMAIN ords |-> GlobalOrd(segs, x.seg, ords[n])]
Old(segs, x) == Read(segs[x.seg].entry, x.doc)
MergeNumeric(segs, order) == [n \in DOMAIN order |-> Old(segs, order[n])]
MergeBinary(segs, order) == [n \in DOMAIN order |-> LET v == Old(segs, order[n]) IN IF v = <<>> THEN <<>> ELSE v[1]]
MergeSorted(segs, order) == [n \in DOMAIN order |-> LET o == MergedOrds(segs, order[n]) IN IF o = <<>> THEN -1 ELSE o[1]]
MergeSortedSet(segs, order) == [n \in DOMAIN order |-> MergedOrds(segs, order[n])]
MergeSortedNumeric(segs, order) == [n \in DOMAIN order |-> Old(segs, order[n])]
MergedGiven(segs) ==
    LET order == MergedDocs(segs)
    IN  CASE kind = "numeric" -> MergeNumeric(segs, order)
          [] kind = "binary" -> MergeBinary(segs, order)
          [] kind = "sorted" -> MergeSorted(segs, order)
          [] kind = "sortedset" -> MergeSortedSet(segs, order)
          [] kind = "sortednumeric" -> MergeSortedNumeric(segs, order)

(***************************************************************************)
(* The machine.                                                            *)
(***************************************************************************)
Init == /\ kind \in Kinds /\ sort \in (IF kind \in {"sorted", "sortedset"} THEN {FALSE} ELSE BOOLEAN)
        /\ writer = NewWriter /\ docs = <<>> /\ segments = <<>>
\* A document with the values vs.
AddDocument ==
    /\ Len(docs) + Sum([k \in DOMAIN segments |-> Len(segments[k].truth)]) < MaxDocs
    /\ \E n \in 0..(IF Multi THEN MaxValues ELSE 1) : \E vs \in [1..n -> Values] :
           /\ (vs # <<>> => ~Rejects(writer, Len(docs)))
           /\ writer' = FoldLeft(LAMBDA w, v : AddValue(w, Len(docs), v), writer, vs)
           /\ docs' = Append(docs, vs)
    /\ UNCHANGED <<kind, sort, segments>>
\* No map is made for documents that are in order already.
Orders ==
    {<<>>} \cup IF sort THEN {o \in [DOMAIN docs -> 0..Len(docs) - 1] : IsInjective(o) /\ \E d \in DOMAIN o : o[d] # d - 1}
               ELSE {}
Canonical(vs) == IF kind = "sortedset" THEN SortSeq(SetToSeq(Range(vs)), Less)
                 ELSE IF kind = "sortednumeric" THEN Sorted(vs) ELSE vs
Flush ==
    /\ Len(segments) < MaxSegments /\ \E d \in DOMAIN docs : docs[d] # <<>>
    /\ \E order \in Orders, truth \in {[d \in DOMAIN docs |-> Canonical(docs[d])]} :
       \E w \in Readings(Finish(writer, Len(docs)), Len(docs), order) :
           /\ ~RunsDry(w)
           /\ \E given \in {Given(w, Len(docs), order)} :
              segments' = Append(segments, [truth |-> IF order = <<>> THEN truth ELSE Reordered(truth, order), given |-> given,
                                            entry |-> AddField(given, Terms(w)), live |-> 0..Len(docs) - 1])
    /\ writer' = NewWriter /\ docs' = <<>>
    /\ UNCHANGED <<kind, sort>>
\* A bit past the set ends the flush, by its assertion in a debug build, by a
\* value that is not there in any other, and the segment is lost.
FlushPanics ==
    /\ Len(segments) < MaxSegments /\ \E d \in DOMAIN docs : docs[d] # <<>>
    /\ \E order \in Orders : Unheld(writer, Len(docs), order) # {}
    /\ writer' = NewWriter /\ docs' = <<>>
    /\ UNCHANGED <<kind, sort, segments>>
Delete == /\ docs = <<>>
          /\ \E k \in DOMAIN segments : \E d \in segments[k].live :
                 segments' = [segments EXCEPT ![k].live = @ \ {d}]
          /\ UNCHANGED <<kind, sort, writer, docs>>
\* A merge fails on a field that cannot be read.
Addressed(s) == kind = "sortednumeric" /\ ~Readable(s.entry)
Merge ==
    /\ docs = <<>> /\ segments # <<>> /\ MergedDocs(segments) # <<>>
    /\ \A k \in DOMAIN segments : ~Addressed(segments[k])
    /\ \E given \in {MergedGiven(segments)}, order \in {MergedDocs(segments)} :
           segments' = <<[truth |-> [n \in DOMAIN order |-> segments[order[n].seg].truth[order[n].doc + 1]],
                          given |-> given, live |-> 0..Len(order) - 1,
                          entry |-> AddField(given, IF kind \in {"sorted", "sortedset"} THEN GlobalTerms(segments) ELSE <<>>)]>>
    /\ UNCHANGED <<kind, sort, writer, docs>>
Next == AddDocument \/ Flush \/ FlushPanics \/ Delete \/ Merge
Spec == Init /\ [][Next]_vars

(***************************************************************************)
(* Properties.                                                             *)
(***************************************************************************)
\* The index sort hands a numeric document that has no value over as 0.
Expected(vs) == {vs} \cup IF vs = <<>> /\ kind = "numeric" /\ sort THEN {<<0>>} ELSE {}
ValuesKept ==
    \A k \in DOMAIN segments : \A d \in DOMAIN segments[k].truth :
        ~Addressed(segments[k]) /\ kind # "sorted" =>
            Read(segments[k].entry, d - 1) \in Expected(segments[k].truth[d])
TermsFound ==
    \A k \in DOMAIN segments :
        kind \in {"sorted", "sortedset"} =>
            LET e == segments[k].entry.terms
                terms == [n \in 1..e.count |-> GetBinary(e, n - 1)]
            IN  \A v \in Strings :
                    LookupTerm(e, v) = IF v \in Range(terms) THEN TermId(terms, v)
                                       ELSE -(Cardinality({n \in DOMAIN terms : Less(terms[n], v)}) + 1)
\* A document's values come back from every flushed and merged segment as
\* they were added: the writer's iterators, the choice of the format, the
\* readers of each format and the remapping of ordinals by the merge have to
\* agree.  (Not for sorted fields, whose iterator is off by one, nor for
\* sorted numeric fields stored with addresses, which cannot be read.)  And a
\* term is found under its ordinal, any other string with the place it would
\* have.
DocValuesExact == ValuesKept /\ TermsFound
\* The parts DocValuesExact leaves out.
SortedExact ==
    \A k \in DOMAIN segments : \A d \in DOMAIN segments[k].truth :
        kind = "sorted" => Read(segments[k].entry, d - 1) = segments[k].truth[d]
ListsReadable == \A k \in DOMAIN segments : kind = "sortednumeric" => Readable(segments[k].entry)
MissingKept == \A k \in DOMAIN segments : \A d \in DOMAIN segments[k].truth :
                   kind = "numeric" => Read(segments[k].entry, d - 1) = segments[k].truth[d]
BitsHeld == \A order \in Orders : Unheld(writer, Len(docs), order) = {}
============================================================================
