----------------------------- MODULE Inversion -----------------------------
(***************************************************************************)
(* Inverting documents into one segment: doc_consumer.rs (process_document,*)
(* process_field, PerField::invert and finish) drives the frequency and    *)
(* proximity writer of codec/postings/terms_hash_per_field.rs, and         *)
(* FreqProxTermsWriter::flush (terms_hash.rs) sorts the terms, applies the *)
(* buffered term deletes and hands the terms and their postings to the     *)
(* postings format through iterators that read the byte pool back.         *)
(*                                                                         *)
(* A document is a sequence of field values, a value the tokens its        *)
(* analyzer gives.  Documents fail (process_document returns an error) in  *)
(* the middle: what they had added stays in the pool and the document is   *)
(* marked as deleted.                                                      *)
(***************************************************************************)
EXTENDS TermsHash, FiniteSets

CONSTANTS Options,      \* per field: 1 docs, 2 freqs, 3 positions, 4 offsets
          Documents,    \* the documents that may be added
          DeletedTerms, \* the <<field, term>> that may be deleted
          MaxPosition,  \* INDEX_MAX_POSITION
          MaxDocs,      \* documents per segment
          MaxDeletes,   \* deletes that come on their own
          NoMoreDocs    \* NO_MORE_DOCS

VARIABLES writer,   \* the pools and, per field, its hash and arrays
          pending,  \* BufferedUpdates: the ids and terms to delete
          slice,    \* terms deleted since the slice was last applied
          numDocs,  \* num_docs_in_ram
          segment,  \* what the flush wrote, <<>> before
          given     \* history: per document, what was given and whether it lives

vars == <<writer, pending, slice, numDocs, segment, given>>

Fields == DOMAIN Options
HasFreq(f) == Options[f] >= 2
HasProx(f) == Options[f] >= 3
HasOffsets(f) == Options[f] >= 4

\* FreqProxTermsWriterPerField::new
StreamCount(f) == IF HasProx(f) THEN 2 ELSE 1

(* ------------------------ one token of a field ------------------------- *)

Term(w, f, id) == w.fields[f].terms[id + 1]

\* write_prox: the position's code with the payload's presence in its low bit
WriteProx(w, f, id, code, st, token) ==
    LET cell == Term(w, f, id).ints
        coded == IF token.payload # <<>>
                 THEN WriteBytes(WriteVInt(WriteVInt(w, cell, 1, 2 * code + 1),
                                           cell, 1, Len(token.payload)),
                                 cell, 1, token.payload)
                 ELSE WriteVInt(w, cell, 1, 2 * code)
    IN  [coded EXCEPT !.fields[f].terms[id + 1].pos = st.position]

\* write_offsets: the start against the last start, then the length
WriteOffsets(w, f, id, st, token) ==
    LET t == Term(w, f, id)
        start == st.offset + token.start
    IN  [WriteVInt(WriteVInt(w, t.ints, 1, start - t.off), t.ints, 1, token.end - token.start)
            EXCEPT !.fields[f].terms[id + 1].off = start]

ProxAndOffsets(w, f, id, code, st, token) ==
    LET After(prox) == IF HasOffsets(f) THEN WriteOffsets(prox, f, id, st, token) ELSE prox
    IN  IF ~HasProx(f) THEN w ELSE After(WriteProx(w, f, id, code, st, token))

\* new_term
NewTerm(w, f, id, st, token, doc) ==
    LET seen == [w EXCEPT !.fields[f].terms[id + 1] =
                    [@ EXCEPT !.doc = doc, !.code = IF HasFreq(f) THEN 2 * doc ELSE doc,
                              !.freq = IF HasFreq(f) THEN 1 ELSE 0]]
    IN  ProxAndOffsets(seen, f, id, st.position, st, token)

\* add_term, of a term the document does not have yet: the code and the
\* frequency of the term's last document are written now
WriteLastDoc(w, f, id) ==
    LET t == Term(w, f, id)
    IN  IF ~HasFreq(f) THEN WriteVInt(w, t.ints, 0, t.code)
        ELSE IF t.freq = 1 THEN WriteVInt(w, t.ints, 0, t.code + 1)
        ELSE WriteVInt(WriteVInt(w, t.ints, 0, t.code), t.ints, 0, t.freq)

\* a bug: the offsets of a document start from those of the one before
AddTermNextDoc_off(w, f, id, st, token, doc) ==
    LET t == Term(w, f, id)
        gap == doc - t.doc
        next == [WriteLastDoc(w, f, id) EXCEPT !.fields[f].terms[id + 1] =
                    [@ EXCEPT !.doc = doc, !.code = IF HasFreq(f) THEN 2 * gap ELSE gap,
                              !.freq = IF HasFreq(f) THEN 1 ELSE 0]]
    IN  ProxAndOffsets(next, f, id, st.position, st, token)

AddTermNextDoc(w, f, id, st, token, doc) ==
    LET t == Term(w, f, id)
        gap == doc - t.doc
        next == [WriteLastDoc(w, f, id) EXCEPT !.fields[f].terms[id + 1] =
                    [@ EXCEPT !.doc = doc, !.code = IF HasFreq(f) THEN 2 * gap ELSE gap,
                              !.freq = IF HasFreq(f) THEN 1 ELSE 0, !.off = 0]]
    IN  ProxAndOffsets(next, f, id, st.position, st, token)

\* add_term: once more in the same document, or in a later one
AddTerm(w, f, id, st, token, doc) ==
    LET t == Term(w, f, id)
    IN  IF doc # t.doc THEN AddTermNextDoc(w, f, id, st, token, doc)
        ELSE IF ~HasFreq(f) THEN w
        ELSE ProxAndOffsets([w EXCEPT !.fields[f].terms[id + 1].freq = @ + 1],
                            f, id, st.position - t.pos, st, token)

\* TermsHashPerField::add: the hash, the streams of a new term, the posting
AddToken(w, f, st, token, doc) ==
    LET Held(e) == [w EXCEPT !.pool = e.pool, !.fields[f] = e.hash]
        At(e) == IF e.new THEN NewTerm(AddStreams(Held(e), f, e.id, StreamCount(f)), f, e.id, st, token, doc)
                 ELSE AddTerm(Held(e), f, e.id, st, token, doc)
    IN  At(HashAdd(w.pool, w.fields[f], token.term))

(* --------------------------- one field value --------------------------- *)

\* FieldInvertState::reset
FreshState == [position |-> -1, last |-> 0, offset |-> 0, lastStart |-> 0]

\* the checks of invert on a token, after its increment was added
Rejected(f, st, token) ==
    LET position == st.position + token.inc
        start    == st.offset + token.start
    IN  \/ position < st.last
        \/ position > MaxPosition
        \/ Options[f] = 4 /\ (start < st.lastStart \/ token.end < token.start)

\* invert: token by token, until one is rejected; [w, st, ok]
RECURSIVE InvertTokens(_, _, _, _, _)
InvertTokens(w, f, st, tokens, doc) ==
    IF tokens = <<>> THEN [w |-> w, st |-> st, ok |-> TRUE]
    ELSE IF Rejected(f, st, Head(tokens)) THEN [w |-> w, st |-> st, ok |-> FALSE]
    ELSE LET token == Head(tokens)
             position == st.position + token.inc
             moved == [st EXCEPT !.position = position, !.last = position,
                                 !.lastStart = IF Options[f] = 4 THEN st.offset + token.start
                                               ELSE @]
         IN  InvertTokens(AddToken(w, f, moved, token, doc), f, moved, Tail(tokens), doc)

\* the end of a value: the stream's last increment and offset are added
EndValue(st, value) ==
    [st EXCEPT !.position = @ + value.gap, !.offset = @ + value.final]

\* process_document: the values in order; the first of a field starts afresh
RECURSIVE ProcessFields(_, _, _, _)
ProcessFields(w, values, states, doc) ==
    IF values = <<>> THEN [w |-> w, ok |-> TRUE]
    ELSE LET v == Head(values)
             Inverted(r) ==
                 IF ~r.ok THEN [w |-> r.w, ok |-> FALSE]
                 ELSE ProcessFields(r.w, Tail(values),
                                    [states EXCEPT ![v.field] = EndValue(r.st, v)], doc)
         IN  Inverted(InvertTokens(w, v.field, states[v.field], v.tokens, doc))

ProcessDocument(w, document, doc) ==
    ProcessFields(w, document, Fill(Len(Options), FreshState), doc)

(* --------------------- the writer of one segment ----------------------- *)

\* add_term of the buffered updates: the greatest bound of a term counts
Bounded(terms, buffered, upto) ==
    [t \in DOMAIN terms \cup buffered |->
        IF t \notin buffered THEN terms[t]
        ELSE IF t \in DOMAIN terms /\ terms[t] >= upto THEN terms[t] ELSE upto]

\* delete_slice.apply, of the terms deleted so far and of this one's own
ApplySlice(buffered, upto) == [pending EXCEPT !.terms = Bounded(@, buffered, upto)]

Tokens(document, f, term) ==
    {<<v, i>> \in (DOMAIN document) \X (1 .. 9) :
        /\ document[v].field = f
        /\ i \in DOMAIN document[v].tokens
        /\ document[v].tokens[i].term = term}

\* history: the living documents that hold one of the terms die
Without(hist, terms) ==
    [d \in DOMAIN hist |->
        [hist[d] EXCEPT !.alive = @ /\ \A t \in terms : Tokens(hist[d].document, t[1], t[2]) = {}]]

Init ==
    /\ writer = [pool |-> EmptyPool, ints |-> EmptyInts, fields |-> Fill(Len(Options), EmptyHash)]
    /\ pending = [ids |-> {}, terms |-> <<>>]
    /\ slice = {}
    /\ numDocs = 0
    /\ segment = <<>>
    /\ given = <<>>

Open == segment = <<>>

\* update_document: an error marks the document as deleted; otherwise
\* finish_document adds the delete term and applies the slice
UpdateDocument(document, del) ==
    /\ Open
    /\ numDocs < MaxDocs
    /\ \E r \in {ProcessDocument(writer, document, numDocs)} :
           /\ writer' = r.w
           /\ pending' = IF r.ok THEN ApplySlice(slice \cup del, numDocs)
                         ELSE [pending EXCEPT !.ids = @ \cup {numDocs}]
           /\ slice' = IF r.ok THEN {} ELSE slice
           /\ given' = Append(IF r.ok THEN Without(given, del) ELSE given,
                              [document |-> document, alive |-> r.ok])
    /\ numDocs' = numDocs + 1
    /\ UNCHANGED segment

\* do_update_documents: one document after the other, until one fails
RECURSIVE ProcessBlock(_, _, _, _)
ProcessBlock(w, docs, doc, n) ==
    IF docs = <<>> THEN [w |-> w, ok |-> TRUE, n |-> n]
    ELSE LET After(r) == IF r.ok THEN ProcessBlock(r.w, Tail(docs), doc, n + 1)
                         ELSE [w |-> r.w, ok |-> FALSE, n |-> n + 1]
         IN  After(ProcessDocument(w, Head(docs), doc + n))

\* update_documents: the block lives or dies as a whole; its delete term
\* is applied to the documents before the block
UpdateDocuments(docs, del) ==
    /\ Open
    /\ numDocs + Len(docs) <= MaxDocs
    /\ \E r \in {ProcessBlock(writer, docs, numDocs, 0)} :
           /\ writer' = r.w
           /\ pending' = IF r.ok THEN ApplySlice(slice \cup del, numDocs)
                         ELSE [pending EXCEPT !.ids = @ \cup numDocs .. numDocs + r.n - 1]
           /\ slice' = IF r.ok THEN {} ELSE slice
           /\ given' = (IF r.ok THEN Without(given, del) ELSE given)
                           \o [i \in 1 .. r.n |-> [document |-> docs[i], alive |-> r.ok]]
           /\ numDocs' = numDocs + r.n
    /\ UNCHANGED segment

\* a delete that reaches the queue: this writer's slice will hold it
DeleteTerm(t) ==
    /\ Open
    /\ Cardinality(slice) < MaxDeletes
    /\ slice' = slice \cup {t}
    /\ given' = Without(given, {t})
    /\ UNCHANGED <<writer, pending, numDocs, segment>>

(* ------------------- reading the postings back ------------------------- *)

\* FreqProxDocsIterator::reset
DocsIter(w, f, id) ==
    [id |-> id, reader |-> InitReader(w, f, id, 0), doc |-> -1, freq |-> 0, ended |-> FALSE]

\* FreqProxDocsIterator::next: the last document is not in the pool yet
NextDoc(w, f, it) ==
    LET t    == Term(w, f, it.id)
        from == IF it.doc = -1 THEN 0 ELSE it.doc
        To(gap, freq, r) == [it EXCEPT !.doc = from + gap, !.freq = freq, !.reader = r]
        Counted(code, freq) == To(code.v \div 2, freq.v, freq.r)
        Coded(code) == IF ~HasFreq(f) THEN To(code.v, it.freq, code.r)
                       ELSE IF code.v % 2 = 1 THEN To(code.v \div 2, 1, code.r)
                       ELSE Counted(code, ReadVInt(w.pool, code.r))
    IN  IF Eof(it.reader)
        THEN IF it.ended THEN [it EXCEPT !.doc = NoMoreDocs]
             ELSE [it EXCEPT !.ended = TRUE, !.doc = t.doc, !.freq = t.freq]
        ELSE Coded(ReadVInt(w.pool, it.reader))

\* FreqProxPostingsIterator::reset
PostingsIter(w, f, id) ==
    [docs |-> DocsIter(w, f, id), reader |-> InitReader(w, f, id, 1), left |-> 0,
     pos |-> 0, start |-> 0, end |-> 0, payload |-> <<>>, hasPayload |-> FALSE]

\* next_position
NextPosition(w, f, it) ==
    LET Payload(len) == ReadBytes(w.pool, len.r, len.v, <<>>)
        Read(code, body) == [it EXCEPT !.left = @ - 1, !.pos = @ + code.v \div 2,
                                       !.hasPayload = code.v % 2 = 1, !.payload = body.v, !.reader = body.r]
        Coded(code) == Read(code, IF code.v % 2 = 1 THEN Payload(ReadVInt(w.pool, code.r))
                                  ELSE [v |-> it.payload, r |-> code.r])
        Spanned(p, off, long) == [p EXCEPT !.start = @ + off.v, !.end = it.start + off.v + long.v,
                                           !.reader = long.r]
        Ended(p, off) == Spanned(p, off, ReadVInt(w.pool, off.r))
        Offsets(p) == IF HasOffsets(f) THEN Ended(p, ReadVInt(w.pool, p.reader)) ELSE p
    IN  Offsets(Coded(ReadVInt(w.pool, it.reader)))

\* the positions that were not read are skipped
RECURSIVE SkipPositions(_, _, _)
SkipPositions(w, f, it) ==
    IF it.left = 0 THEN it ELSE SkipPositions(w, f, NextPosition(w, f, it))

\* FreqProxPostingsIterator::next
NextPosting(w, f, it) ==
    LET At(skipped, docs) ==
            IF docs.doc = NoMoreDocs THEN [skipped EXCEPT !.docs = docs]
            ELSE [skipped EXCEPT !.docs = docs, !.left = docs.freq, !.pos = 0, !.start = 0]
    IN  At(SkipPositions(w, f, it), NextDoc(w, f, it.docs))

\* every document of a term, with what an iterator without positions says
RECURSIVE AllDocs(_, _, _)
AllDocs(w, f, it) ==
    LET From(next) == IF next.doc = NoMoreDocs THEN <<>>
                      ELSE <<[doc |-> next.doc, freq |-> next.freq]>> \o AllDocs(w, f, next)
    IN  From(NextDoc(w, f, it))

\* up to `take` positions of the current document
RECURSIVE SomePositions(_, _, _, _, _)
SomePositions(w, f, it, take, read) ==
    IF take = 0 \/ it.left = 0 THEN [it |-> it, read |-> read]
    ELSE LET After(p) == SomePositions(w, f, p, take - 1,
                             Append(read, [pos |-> p.pos, start |-> p.start, end |-> p.end,
                                           payload |-> p.payload]))
         IN  After(NextPosition(w, f, it))

RECURSIVE AllPostings(_, _, _, _)
AllPostings(w, f, it, take) ==
    LET Posting(docs, some) ==
            <<[doc |-> docs.doc, freq |-> docs.freq, positions |-> some.read]>> \o AllPostings(w, f, some.it, take)
        From(next) == IF next.docs.doc = NoMoreDocs THEN <<>>
                      ELSE Posting(next.docs, SomePositions(w, f, next, take, <<>>))
    IN  From(NextPosting(w, f, it))

(* -------------------------------- flush -------------------------------- *)

RECURSIVE Before(_, _)
Before(a, b) ==
    \/ a = <<>> /\ b # <<>>
    \/ /\ a # <<>> /\ b # <<>>
       /\ \/ Head(a) < Head(b)
          \/ Head(a) = Head(b) /\ Before(Tail(a), Tail(b))

\* sort_postings: the ids by their bytes
RECURSIVE SortIds(_, _, _, _)
SortIds(w, f, ids, sorted) ==
    IF ids = <<>> THEN sorted
    ELSE LET Text(id) == SetBytesRef(w.pool, Term(w, f, id).text)
             n == Cardinality({j \in DOMAIN sorted : Before(Text(sorted[j]), Text(Head(ids)))})
         IN  SortIds(w, f, Tail(ids),
                     SubSeq(sorted, 1, n) \o <<Head(ids)>> \o SubSeq(sorted, n + 1, Len(sorted)))

SortPostings(w, f) == SortIds(w, f, Compact(w.fields[f]), <<>>)

\* FreqProxTermsIterator: set_bytes, of the i-th sorted id
SetBytes(w, f, sorted, i) == SetBytesRef(w.pool, Term(w, f, sorted[i]).text)

\* seek_ceil: bisection over the sorted ids; the ord where it stops, or 0
RECURSIVE Bisect(_, _, _, _, _, _)
Bisect(w, f, sorted, text, lo, hi) ==
    LET mid == (lo + hi) \div 2
        Turn(at) == IF at = text THEN mid
                    ELSE IF Before(at, text) THEN Bisect(w, f, sorted, text, mid + 1, hi)
                    ELSE Bisect(w, f, sorted, text, lo, mid - 1)
    IN  IF hi < lo THEN 0 ELSE Turn(SetBytes(w, f, sorted, mid))

SeekExact(w, f, sorted, text) == Bisect(w, f, sorted, text, 1, Len(sorted))

\* apply_deletes: the documents of a deleted term below its bound die
ApplyDeletes(w, sorted, terms, live) ==
    live \ UNION {
        LET f == t[1]
            Below(docs) == {d \in {docs[i].doc : i \in DOMAIN docs} : d < terms[t]}
            At(ord) == IF ord = 0 THEN {} ELSE Below(AllDocs(w, f, DocsIter(w, f, sorted[f][ord])))
        IN  At(SeekExact(w, f, sorted[f], t[2])) :
        t \in DOMAIN terms}

\* prepare_flush applies the slice to every document; flush takes the ids
\* out of the live documents, sorts each field and applies the term deletes
Flush ==
    LET all == ApplySlice(slice, numDocs)
        Written(sorted) == [sorted |-> sorted,
                            live |-> ApplyDeletes(writer, sorted, all.terms, (0 .. numDocs - 1) \ all.ids)]
    IN  /\ Open
        /\ numDocs > 0
        /\ pending' = [ids |-> {}, terms |-> <<>>]
        /\ slice' = {}
        /\ segment' = Written([f \in Fields |-> SortPostings(writer, f)])
        /\ UNCHANGED <<writer, numDocs, given>>

Next ==
    \/ \E document \in Documents, del \in {{}} \cup {{t} : t \in DeletedTerms} :
          UpdateDocument(document, del)
    \/ \E one, two \in Documents, del \in {{}} \cup {{t} : t \in DeletedTerms} :
          UpdateDocuments(<<one, two>>, del)
    \/ \E t \in DeletedTerms : DeleteTerm(t)
    \/ Flush

Spec == Init /\ [][Next]_vars
-----------------------------------------------------------------------------
(* What was given, read from the documents alone.                          *)

RECURSIVE SumSeq(_)
SumSeq(s) == IF s = <<>> THEN 0 ELSE Head(s) + SumSeq(Tail(s))

Incs(value, n) == SumSeq([i \in 1 .. n |-> value.tokens[i].inc])

\* the values of field f before the v-th value of the document
Earlier(document, v, f) ==
    SelectSeq(SubSeq(document, 1, v - 1), LAMBDA value : value.field = f)

\* where a token stands in its field: all increments before it, minus one
PositionOf(document, v, i) ==
    LET prior == Earlier(document, v, document[v].field)
    IN  Incs(document[v], i) - 1
          + SumSeq([k \in DOMAIN prior |-> Incs(prior[k], Len(prior[k].tokens)) + prior[k].gap])

OffsetOf(document, v) ==
    LET prior == Earlier(document, v, document[v].field)
    IN  SumSeq([k \in DOMAIN prior |-> prior[k].final])

\* the tokens of a term in a document, in their order
Occurrences(document, f, term) ==
    LET at == Tokens(document, f, term)
        Rank(o) == Cardinality({p \in at : \/ p[1] < o[1]
                                           \/ p[1] = o[1] /\ p[2] < o[2]})
    IN  [n \in 1 .. Cardinality(at) |->
            LET o == CHOOSE p \in at : Rank(p) = n - 1
                token == document[o[1]].tokens[o[2]]
                base == OffsetOf(document, o[1])
            IN  [pos |-> PositionOf(document, o[1], o[2]), start |-> base + token.start,
                 end |-> base + token.end, payload |-> token.payload]]

Living == {d \in 0 .. numDocs - 1 : given[d + 1].alive}

\* a posting of a living document, against what the document was given
DocRight(f, term, p) ==
    LET occ == Occurrences(given[p.doc + 1].document, f, term)
    IN  /\ occ # <<>>
        /\ HasFreq(f) => p.freq = Len(occ)

PositionsRight(f, term, p, take) ==
    LET occ == Occurrences(given[p.doc + 1].document, f, term)
    IN  /\ Len(p.positions) = LessOf(take, Len(occ))
        /\ \A i \in DOMAIN p.positions :
              /\ p.positions[i].pos = occ[i].pos
              /\ HasOffsets(f) => /\ p.positions[i].start = occ[i].start
                                  /\ p.positions[i].end = occ[i].end
              /\ occ[i].payload # <<>> => p.positions[i].payload = occ[i].payload

\* the documents of a list, ascending, and among them the living ones with the term
DocsRight(f, term, list) ==
    /\ \A i \in 1 .. Len(list) - 1 : list[i].doc < list[i + 1].doc
    /\ {list[i].doc : i \in DOMAIN list} \cap Living
          = {d \in Living : Tokens(given[d + 1].document, f, term) # {}}
    /\ \A i \in DOMAIN list : list[i].doc \in Living => DocRight(f, term, list[i])

PostingsRight(f, term, take, list) ==
    /\ DocsRight(f, term, list)
    /\ \A k \in DOMAIN list : list[k].doc \in Living => PositionsRight(f, term, list[k], take)

\* What a flush hands to the postings format is what the documents said: the
\* terms ascend, each living document is found under exactly its terms, with
\* its frequency, positions, offsets and payloads, whatever part of the
\* positions a reader takes, however the postings of many terms and fields
\* are interleaved in slices over the blocks of one pool, and whichever
\* documents failed half-way; and the living documents are exactly those
\* that were neither rejected nor deleted by a later delete
InversionExact ==
    segment # <<>> =>
        /\ segment.live = Living
        /\ \A f \in Fields :
             LET sorted == segment.sorted[f]
                 Text(i) == SetBytes(writer, f, sorted, i)
             IN  /\ \A i \in 1 .. Len(sorted) - 1 : Before(Text(i), Text(i + 1))
                 /\ \A d \in Living : \A v \in DOMAIN given[d + 1].document :
                      given[d + 1].document[v].field = f =>
                        \A n \in DOMAIN given[d + 1].document[v].tokens :
                           \E i \in DOMAIN sorted :
                              Text(i) = given[d + 1].document[v].tokens[n].term
                 /\ \A i \in DOMAIN sorted :
                      /\ DocsRight(f, Text(i), AllDocs(writer, f, DocsIter(writer, f, sorted[i])))
                      /\ HasProx(f) => \A take \in {0, 1, 9} :
                           PostingsRight(f, Text(i), take,
                               AllPostings(writer, f, PostingsIter(writer, f, sorted[i]), take))

PayloadsRight(f, term, list) ==
    \A k \in DOMAIN list : list[k].doc \in Living =>
        \A n \in DOMAIN list[k].positions :
            list[k].positions[n].payload = Occurrences(given[list[k].doc + 1].document, f, term)[n].payload

\* The comment of FreqProxPostingsIterator::payload: "if self.has_payload is
\* false, just return empty Vec<u8>".  A token without a payload is handed
\* the payload of the token before it
PayloadsExact ==
    segment # <<>> =>
        \A f \in Fields : HasProx(f) =>
            \A i \in DOMAIN segment.sorted[f] :
                PayloadsRight(f, SetBytes(writer, f, segment.sorted[f], i),
                    AllPostings(writer, f, PostingsIter(writer, f, segment.sorted[f][i]), 9))
=============================================================================
