------------------------------- MODULE Spans -------------------------------
(***************************************************************************)
(* Span queries: the places in a document where a term stands, where one   *)
(* of several spans does, and where several spans stand near one another,  *)
(* in order (with gaps) or in any order.  A near query walks the documents *)
(* its clauses share and then the clauses' positions; SpanScorer reads all *)
(* the spans of the document it scores.                                    *)
(*                                                                         *)
(* A spans object is a record with a kind: a term, a gap, an ordered or    *)
(* unordered near or an or.  An operation returns the object it leaves;    *)
(* what the code's method returns is then its Start or its Doc.            *)
(***************************************************************************)
EXTENDS Integers, Sequences, FiniteSets, TLC

CONSTANTS Segments,   \* the segments to search, each a sequence of documents
          Queries,    \* [kind, term], [kind, width], [kind, subs], [kind, ordered, slop, subs], [kind, sub]
          MaxLength,  \* bound on a document's length
          NoMore      \* NO_MORE_DOCS and NO_MORE_POSITIONS

VARIABLES docs,    \* the segment: a sequence of documents, each a sequence of terms
          query,
          spans,   \* the scorer's spans, or <<>>: the weight made no scorer
          scored,  \* last_scored_doc and the spans read for it
          last     \* the last call and what it returned

vars == <<docs, query, spans, scored, last>>

Doc0(d) == docs[d + 1]
HasTerm(t) == {d \in 0 .. Len(docs) - 1 : \E i \in DOMAIN Doc0(d) : Doc0(d)[i] = t}
Positions(t, d) == SelectSeq([i \in 1 .. Len(Doc0(d)) |-> i - 1], LAMBDA p : Doc0(d)[p + 1] = t)
Least(S) == CHOOSE x \in S : \A y \in S : x <= y
Swap(h, i, j) == [h EXCEPT ![i] = h[j], ![j] = h[i]]

-----------------------------------------------------------------------------
(* Terms and gaps.                                                         *)

TermSpans(t) == [kind |-> "term", term |-> t, doc |-> -1, count |-> 0, position |-> -1]
SetDoc(s, d) == [s EXCEPT !.doc = d, !.count = IF d = NoMore THEN @ ELSE 0, !.position = -1]
TermNext(s) == SetDoc(s, Least({NoMore} \cup {d \in HasTerm(s.term) : d > s.doc}))
TermAdvance(s, target) == SetDoc(s, Least({NoMore} \cup {d \in HasTerm(s.term) : d >= target}))
TermNextStart(s) ==
    IF s.count = Len(Positions(s.term, s.doc)) THEN [s EXCEPT !.position = NoMore]
    ELSE [s EXCEPT !.position = Positions(s.term, s.doc)[s.count + 1], !.count = @ + 1]
TermEnd(s) == IF s.position \in {-1, NoMore} THEN s.position ELSE s.position + 1

GapSpans(w) == [kind |-> "gap", doc |-> -1, pos |-> -1, width |-> w]
SkipToPosition(s, position) == [s EXCEPT !.pos = position]
GapNextStart(s) == [s EXCEPT !.pos = @ + 1]
GapNext(s) == [s EXCEPT !.pos = -1, !.doc = @ + 1]
GapAdvance(s, target) == [s EXCEPT !.pos = -1, !.doc = target]

-----------------------------------------------------------------------------
(* What a spans object shows.  An or shows the top of its queue of         *)
(* positions, an unordered near its least cell and the cell that ends last.*)
RECURSIVE Doc(_), Start(_), End(_), Width(_)
DocOfConjunction(s) == Doc(s.subs[s.order[1]])
Doc(s) == CASE s.kind \in {"term", "gap"} -> s.doc
            [] s.kind \in {"ordered", "unordered"} -> DocOfConjunction(s)
            [] s.kind = "or" -> Doc(s.subs[s.heap[1]])
MinCell(s) == s.subs[s.queue[1]]
OrderedStart(s) == IF s.first THEN -1 ELSE s.start
OrderedEnd(s) == IF s.first THEN -1 ELSE s.end
UnorderedStart(s) == IF s.first THEN -1 ELSE IF s.exhausted THEN NoMore ELSE Start(MinCell(s))
UnorderedEnd(s) == IF s.first THEN -1 ELSE IF s.exhausted THEN NoMore ELSE End(s.subs[s.max])
UnorderedWidth(s) == Start(s.subs[s.max]) - Start(MinCell(s))
OrStart(s) == IF s.valid THEN Start(s.subs[s.queue[1]]) ELSE -1
OrEnd(s) == IF s.valid THEN End(s.subs[s.queue[1]]) ELSE -1
OrWidth(s) == Width(s.subs[s.queue[1]])
Start(s) == CASE s.kind = "term" -> s.position
              [] s.kind = "gap" -> s.pos
              [] s.kind = "ordered" -> OrderedStart(s)
              [] s.kind = "unordered" -> UnorderedStart(s)
              [] s.kind = "or" -> OrStart(s)
End(s) == CASE s.kind = "term" -> TermEnd(s)
            [] s.kind = "gap" -> s.pos + s.width
            [] s.kind = "ordered" -> OrderedEnd(s)
            [] s.kind = "unordered" -> UnorderedEnd(s)
            [] s.kind = "or" -> OrEnd(s)
Width(s) == CASE s.kind = "term" -> 0
              [] s.kind \in {"gap", "ordered"} -> s.width
              [] s.kind = "unordered" -> UnorderedWidth(s)
              [] s.kind = "or" -> OrWidth(s)

-----------------------------------------------------------------------------
(* std's BinaryHeap of clause indices; key[i] is <<a, b>>, the least first.*)
(* SpansCellElement compares start and end, SpansElement the document, on  *)
(* which all of a queue's elements stand.                                  *)
CellKey(s) == [i \in DOMAIN s.subs |-> <<Start(s.subs[i]), End(s.subs[i])>>]
ElementKey(s) == [i \in DOMAIN s.subs |-> <<Doc(s.subs[i]), 0>>]
Before(key, i, j) == key[i][1] < key[j][1] \/ (key[i][1] = key[j][1] /\ key[i][2] < key[j][2])
RECURSIVE SiftUp(_, _, _), SiftDown(_, _, _)
SiftUp(key, h, k) ==
    IF k = 1 \/ ~Before(key, h[k], h[k \div 2]) THEN h ELSE SiftUp(key, Swap(h, k, k \div 2), k \div 2)
SiftDown(key, h, k) ==
    LET l == 2 * k
        c == IF l + 1 <= Len(h) /\ ~Before(key, h[l], h[l + 1]) THEN l + 1 ELSE l
    IN  IF l > Len(h) \/ ~Before(key, h[c], h[k]) THEN h ELSE SiftDown(key, Swap(h, k, c), c)
Pushed(key, h, i) == SiftUp(key, Append(h, i), Len(h) + 1)

(* DisiPriorityQueue of clause indices, the least document first.          *)
RECURSIVE UpHeap(_, _, _), DownHeap(_, _, _), PushAll(_, _, _), TopListTo(_, _, _)
UpHeap(subs, h, k) ==
    IF k = 1 \/ Doc(subs[h[k]]) >= Doc(subs[h[k \div 2]]) THEN h
    ELSE UpHeap(subs, Swap(h, k, k \div 2), k \div 2)
PushAll(subs, h, i) == IF i > Len(subs) THEN h ELSE PushAll(subs, UpHeap(subs, Append(h, i), i), i + 1)
DownHeap(subs, h, k) ==
    LET l == 2 * k
        c == IF l + 1 <= Len(h) /\ Doc(subs[h[l + 1]]) < Doc(subs[h[l]]) THEN l + 1 ELSE l
    IN  IF l > Len(h) \/ Doc(subs[h[c]]) >= Doc(subs[h[k]]) THEN h ELSE DownHeap(subs, Swap(h, k, c), c)
(* The clauses on the top's document, the ones found last first.           *)
TopListTo(s, list, k) ==
    IF k > Len(s.heap) \/ Doc(s.subs[s.heap[k]]) # Doc(s) THEN list
    ELSE TopListTo(s, TopListTo(s, <<s.heap[k]>> \o list, 2 * k), 2 * k + 1)
TopList(s) == TopListTo(s, TopListTo(s, <<s.heap[1]>>, 2), 3)

-----------------------------------------------------------------------------
(* Positions.                                                              *)
RECURSIVE NextStart(_), AdvancePosition(_, _), StretchToOrder(_, _), OrderedScan(_)
RECURSIVE CellsToQueue(_, _), UnorderedScan(_), UnpositionedCells(_), FillPositionQueue(_, _)

(* Every clause of an ordered near goes to where the one before it ends.   *)
StretchToOrder(s, i) ==
    LET prevEnd == End(s.subs[i - 1])
        Placed(t, start) ==
            IF start = NoMore THEN [s |-> [t EXCEPT !.exhausted = TRUE], ok |-> FALSE]
            ELSE StretchToOrder([t EXCEPT !.width = @ + start - prevEnd], i + 1)
        After(x) == Placed([s EXCEPT !.subs[i] = x], Start(x))
    IN  IF i > Len(s.subs) THEN [s |-> [s EXCEPT !.end = prevEnd], ok |-> TRUE]
        ELSE After(AdvancePosition(s.subs[i], prevEnd))
OrderedScan(s) ==
    LET Close(r) == IF r.ok /\ r.s.width <= s.slop THEN r ELSE OrderedScan(r.s)
        From(x) ==
            IF Start(x) = NoMore \/ s.exhausted THEN [s |-> [s EXCEPT !.subs[1] = x], ok |-> FALSE]
            ELSE Close(StretchToOrder([s EXCEPT !.subs[1] = x, !.start = Start(x), !.width = 0], 2))
    IN  From(NextStart(s.subs[1]))
OrderedNextStart(s) ==
    LET Found(r) == IF r.ok THEN r.s ELSE [r.s EXCEPT !.start = NoMore, !.end = NoMore]
    IN  IF s.first THEN [s EXCEPT !.first = FALSE] ELSE Found(OrderedScan([s EXCEPT !.exhausted = FALSE]))

(* A cell of an unordered near, after its spans moved to x.                *)
AdjustLength(s, i, x) ==
    LET length == End(x) - Start(x)
    IN  [s EXCEPT !.total = @ + length - (IF s.lengths[i] = -1 THEN 0 ELSE s.lengths[i]), !.lengths[i] = length]
(* Mutant: the cell that ends last is not noted.                           *)
AdjustMax_later(s, i) == s
AdjustMax(s, i) == IF End(s.subs[i]) > End(s.subs[s.max]) THEN [s EXCEPT !.max = i] ELSE s
CellNextStart(s, i) ==
    LET Set(t, x) == AdjustMax([t EXCEPT !.subs[i] = x], i)
        Moved(x) == Set(IF Start(x) = NoMore THEN s ELSE AdjustLength(s, i, x), x)
    IN  Moved(NextStart(s.subs[i]))
(* peek_mut(): the top cell moves, and the heap is put right after it.     *)
TopCellNextStart(s) ==
    LET Sifted(t) == [t EXCEPT !.queue = SiftDown(CellKey(t), @, 1)]
    IN  Sifted(CellNextStart(s, s.queue[1]))
CellsToQueue(s, i) ==
    LET Queued(t) == CellsToQueue([t EXCEPT !.queue = Pushed(CellKey(t), @, i)], i + 1)
    IN  IF i > Len(s.subs) THEN s ELSE Queued(CellNextStart(s, i))
AtMatch(s) == End(s.subs[s.max]) - Start(MinCell(s)) - s.total <= s.slop
UnpositionedCells(s) == IF Start(MinCell(s)) = -1 THEN UnpositionedCells(TopCellNextStart(s)) ELSE s
UnorderedScan(s) ==
    LET Tried(t) ==
            IF Start(t.subs[s.queue[1]]) = NoMore THEN [t EXCEPT !.exhausted = TRUE]
            ELSE IF AtMatch(t) THEN t ELSE UnorderedScan(t)
    IN  Tried(TopCellNextStart(s))
UnorderedNextStart(s) == IF s.first THEN [s EXCEPT !.first = FALSE] ELSE UnorderedScan(UnpositionedCells(s))

(* No clause of an or has two phases (a near clause has no positions_cost),*)
(* so that every clause on the document is taken.                          *)
FillPositionQueue(s, list) ==
    LET Queued(t) == FillPositionQueue([t EXCEPT !.queue = Pushed(ElementKey(t), @, list[1])], Tail(list))
    IN  IF list = <<>> THEN s ELSE Queued([s EXCEPT !.subs[list[1]] = NextStart(@)])
OrNextStart(s) ==
    LET Sifted(t) == [t EXCEPT !.queue = SiftDown(ElementKey(t), @, 1)]
    IN  IF s.valid THEN Sifted([s EXCEPT !.subs[s.queue[1]] = NextStart(@)])
        ELSE [FillPositionQueue([s EXCEPT !.queue = <<>>], TopList(s)) EXCEPT !.valid = TRUE]

NextStart(s) == CASE s.kind = "term" -> TermNextStart(s)
                  [] s.kind = "gap" -> GapNextStart(s)
                  [] s.kind = "ordered" -> OrderedNextStart(s)
                  [] s.kind = "unordered" -> UnorderedNextStart(s)
                  [] s.kind = "or" -> OrNextStart(s)
AdvancePosition(s, position) ==
    IF s.kind = "gap" THEN SkipToPosition(s, position)
    ELSE IF Start(s) < position THEN AdvancePosition(NextStart(s), position) ELSE s

-----------------------------------------------------------------------------
(* Documents.                                                              *)
RECURSIVE ApproximateNext(_), ApproximateAdvance(_, _), NextDoc(_), AdvanceDoc(_, _)
RECURSIVE SkipToApprox(_, _), SkipOthers(_, _, _), NextToMatchDoc(_), OrNext(_, _), OrAdvance(_, _), FromLead(_)

OrderedMatches(s) ==
    LET Found(r) == [r EXCEPT !.s.first = @ \/ r.ok]
    IN  Found(OrderedScan([s EXCEPT !.exhausted = FALSE]))
UnorderedMatches(s) ==
    LET Match(t) == [s |-> [t EXCEPT !.first = TRUE, !.exhausted = FALSE], ok |-> TRUE]
        Scanned(t) == IF t.exhausted THEN [s |-> [t EXCEPT !.exhausted = s.exhausted], ok |-> FALSE] ELSE Match(t)
        Queued(q) == IF AtMatch(q) THEN Match(q) ELSE Scanned(UnorderedScan(q))
    IN  Queued(CellsToQueue([s EXCEPT !.queue = <<>>], 1))
NearMatches(s) == IF s.kind = "ordered" THEN OrderedMatches(s) ELSE UnorderedMatches(s)

Sub(s, k) == s.subs[s.order[k]]
SubAdvanced(s, k, target) == [s EXCEPT !.subs[s.order[k]] = ApproximateAdvance(@, target)]
SkipOthers(s, k, d) ==
    LET Asked(t) == IF Doc(Sub(t, k)) > d THEN FromLead(SubAdvanced(t, 1, Doc(Sub(t, k))))
                    ELSE SkipOthers(t, k + 1, d)
    IN  IF k > Len(s.subs) THEN s
        ELSE IF Doc(Sub(s, k)) >= d THEN SkipOthers(s, k + 1, d)
        ELSE Asked(SubAdvanced(s, k, d))
SkipToApprox(s, d) ==
    LET Compared(s1, next2) ==
            IF next2 # Doc(s1) THEN FromLead(s1)
            ELSE IF next2 = NoMore THEN s1
            ELSE SkipOthers(s1, 3, next2)
        Led(s2, next2) == Compared(IF next2 = d THEN s2 ELSE SubAdvanced(s2, 1, next2), next2)
        Asked(s2) == Led(s2, Doc(Sub(s2, 2)))
    IN  Asked(SubAdvanced(s, 2, d))
FromLead(s) == SkipToApprox(s, Doc(s))
ConjunctionNext(s) == FromLead([s EXCEPT !.subs[s.order[1]] = ApproximateNext(@)])
ConjunctionAdvance(s, target) == FromLead(SubAdvanced(s, 1, target))
NextToMatchDoc(s) ==
    LET Tried(r) == IF r.ok THEN r.s ELSE NextToMatchDoc(ConjunctionNext(r.s))
    IN  IF Doc(s) = NoMore THEN s ELSE Tried(NearMatches([s EXCEPT !.exhausted = FALSE]))

OrMoved(s, x) == LET subs == [s.subs EXCEPT ![s.heap[1]] = x]
                 IN  [s EXCEPT !.subs = subs, !.heap = DownHeap(subs, @, 1), !.valid = FALSE]
OrNext(s, current) ==
    LET Moved(t) == IF Doc(t) = current THEN OrNext(t, current) ELSE t
    IN  Moved(OrMoved(s, NextDoc(s.subs[s.heap[1]])))
OrAdvance(s, target) ==
    LET Moved(t) == IF Doc(t) < target THEN OrAdvance(t, target) ELSE t
    IN  Moved(OrMoved(s, AdvanceDoc(s.subs[s.heap[1]], target)))

SupportTwoPhase(s) == s.kind \in {"ordered", "unordered"}
ApproximateNext(s) == IF SupportTwoPhase(s) THEN ConjunctionNext(s) ELSE NextDoc(s)
ApproximateAdvance(s, target) == IF SupportTwoPhase(s) THEN ConjunctionAdvance(s, target) ELSE AdvanceDoc(s, target)
NextDoc(s) == CASE s.kind = "term" -> TermNext(s)
                [] s.kind = "gap" -> GapNext(s)
                [] s.kind = "or" -> OrNext(s, Doc(s))
                [] OTHER -> NextToMatchDoc(ConjunctionNext(s))
AdvanceDoc(s, target) == CASE s.kind = "term" -> TermAdvance(s, target)
                           [] s.kind = "gap" -> GapAdvance(s, target)
                           [] s.kind = "or" -> OrAdvance(s, target)
                           [] OTHER -> NextToMatchDoc(ConjunctionAdvance(s, target))

-----------------------------------------------------------------------------
(* Weights: the spans of a query in the segment, <<>> for none.            *)
RECURSIVE GetSpans(_), ExtractTermContexts(_), Cost(_), SumCosts(_), SubSpans(_)
SumCosts(subs) == IF subs = <<>> THEN 0 ELSE Cost(subs[1]) + SumCosts(Tail(subs))
Cost(s) == CASE s.kind = "term" -> Cardinality(HasTerm(s.term))
             [] s.kind = "gap" -> 0
             [] s.kind = "or" -> SumCosts(s.subs)
             [] OTHER -> Cost(Sub(s, 1))
(* ConjunctionScorer::new: the clauses in the order of their costs.        *)
ByCost(subs) == LET Lower(i, j) == Cost(subs[i]) < Cost(subs[j]) \/ (Cost(subs[i]) = Cost(subs[j]) /\ i < j)
                IN  [k \in DOMAIN subs |->
                       CHOOSE i \in DOMAIN subs : Cardinality({j \in DOMAIN subs : Lower(j, i)}) = k - 1]
ConjunctionSpanBase(kind, slop, subs) ==
    [kind |-> kind, slop |-> slop, subs |-> subs, order |-> ByCost(subs), first |-> TRUE, exhausted |-> FALSE]
NearSpansOrdered(slop, subs) == ConjunctionSpanBase("ordered", slop, subs)
                                @@ [start |-> -1, end |-> -1, width |-> -1]
NearSpansUnordered(slop, subs) ==
    ConjunctionSpanBase("unordered", slop, subs)
    @@ [lengths |-> [i \in DOMAIN subs |-> -1], total |-> 0, max |-> 1, queue |-> <<1>>]
SpanOrSpans(subs) == [kind |-> "or", subs |-> subs, heap |-> PushAll(subs, <<>>, 1), queue |-> <<>>, valid |-> FALSE]
SubSpans(qs) == IF qs = <<>> THEN <<>> ELSE GetSpans(qs[1]) \o SubSpans(Tail(qs))
TermGetSpans(q) == IF HasTerm(q.term) = {} THEN <<>> ELSE <<TermSpans(q.term)>>
NearGetSpans(q) ==
    LET subs == SubSpans(q.subs)
    IN  IF Len(subs) < Len(q.subs) THEN <<>>
        ELSE <<IF q.ordered THEN NearSpansOrdered(q.slop, subs) ELSE NearSpansUnordered(q.slop, subs)>>
OrGetSpans(q) == LET subs == SubSpans(q.subs) IN IF Len(subs) <= 1 THEN subs ELSE <<SpanOrSpans(subs)>>
GetSpans(q) == CASE q.kind = "term" -> TermGetSpans(q)
                 [] q.kind = "gap" -> <<GapSpans(q.width)>>
                 [] q.kind = "near" -> NearGetSpans(q)
                 [] q.kind = "or" -> OrGetSpans(q)
                 [] q.kind = "boost" -> GetSpans(q.sub)
ExtractTermContexts(q) == CASE q.kind = "term" -> {q.term}
                            [] q.kind = "gap" -> {}
                            [] q.kind \in {"near", "or"} -> UNION {ExtractTermContexts(q.subs[i]) : i \in DOMAIN q.subs}
                            [] q.kind = "boost" -> ExtractTermContexts(q.sub)
(* build_sim_weight makes none for a query without terms.                  *)
HasSimWeight(q) == ExtractTermContexts(q) # {}

-----------------------------------------------------------------------------
(* SpanScorer.                                                             *)
RECURSIVE SetFreqCurrentDoc(_, _)
SetFreqCurrentDoc(s, read) ==
    LET Read(t) ==
            IF Start(t) = NoMore THEN [s |-> t, read |-> read]
            ELSE SetFreqCurrentDoc(t, Append(read, [start |-> Start(t), end |-> End(t), width |-> Width(t)]))
    IN  Read(NextStart(s))

Init ==
    /\ docs \in Segments
    /\ query \in Queries
    /\ spans = GetSpans(query)
    /\ scored = [doc |-> -1, read |-> <<>>]
    /\ last = [call |-> "create", from |-> -1, doc |-> IF spans = <<>> THEN NoMore ELSE -1, read |-> <<>>]

Arrive(call, from, s) == /\ spans' = <<s>>
                         /\ last' = [call |-> call, from |-> from, doc |-> Doc(s), read |-> <<>>]
                         /\ UNCHANGED <<docs, query, scored>>
CallNext ==
    /\ spans # <<>> /\ Doc(spans[1]) # NoMore
    /\ Arrive("next", Doc(spans[1]) + 1, NextDoc(spans[1]))
CallAdvance(target) ==
    /\ spans # <<>> /\ Doc(spans[1]) < target
    /\ Arrive("advance", target, AdvanceDoc(spans[1], target))
(* ensure_freq and then the score, once more of what was read if the       *)
(* document was scored before.                                             *)
CallScore ==
    LET s == spans[1]
    IN  /\ spans # <<>> /\ HasSimWeight(query) /\ Doc(s) \in 0 .. NoMore - 1
        /\ IF scored.doc = Doc(s) THEN UNCHANGED <<spans, scored>>
           ELSE \E r \in {SetFreqCurrentDoc(s, <<>>)} :
                    spans' = <<r.s>> /\ scored' = [doc |-> Doc(s), read |-> r.read]
        /\ last' = [call |-> "score", from |-> Doc(s), doc |-> Doc(s), read |-> scored'.read]
        /\ UNCHANGED <<docs, query>>
(* explain_span, with spans of its own: what the scorer did does not show. *)
CallExplain(d) ==
    /\ last.call = "create" /\ spans # <<>> /\ HasSimWeight(query)
    /\ \E s \in {AdvanceDoc(GetSpans(query)[1], d)} :
           last' = [call |-> "explain", from |-> d, doc |-> Doc(s),
                    read |-> IF Doc(s) = d THEN SetFreqCurrentDoc(s, <<>>).read ELSE <<>>]
    /\ UNCHANGED <<docs, query, spans, scored>>

Next == \/ CallNext
        \/ \E d \in 0 .. Len(docs) : CallAdvance(d)
        \/ CallScore
        \/ \E d \in 0 .. Len(docs) - 1 : CallExplain(d)
Spec == Init /\ [][Next]_vars

-----------------------------------------------------------------------------
(* What the queries mean.  SpansOf(q, d): the spans of q in d, [start, end]*)
(* each; a near has one for every choice of a span of each clause that is  *)
(* close enough.                                                           *)
RECURSIVE SpansOf(_, _)
Span(a, b) == [start |-> a, end |-> b]
Ordered(q, c) == \A i \in 2 .. Len(q.subs) : c[i].start >= c[i - 1].end
MinStart(c) == Least({c[i].start : i \in DOMAIN c})
MaxEnd(c) == -Least({-c[i].end : i \in DOMAIN c})
RECURSIVE Lengths(_)
Lengths(c) == IF c = <<>> THEN 0 ELSE Head(c).end - Head(c).start + Lengths(Tail(c))
Stretch(c) == MaxEnd(c) - MinStart(c) - Lengths(c)
RECURSIVE Tuples(_, _)
Tuples(qs, d) == IF qs = <<>> THEN {<<>>}
                 ELSE {<<x>> \o c : x \in SpansOf(qs[1], d), c \in Tuples(Tail(qs), d)}
Placements(q, d) == {c \in Tuples(q.subs, d) : (q.ordered => Ordered(q, c)) /\ Stretch(c) <= q.slop}
SpansOf(q, d) ==
    CASE q.kind = "term" -> {Span(p - 1, p) : p \in {p \in DOMAIN Doc0(d) : Doc0(d)[p] = q.term}}
      [] q.kind = "gap" -> {Span(p, p + q.width) : p \in 0 .. MaxLength}
      [] q.kind = "or" -> UNION {SpansOf(q.subs[i], d) : i \in DOMAIN q.subs}
      [] q.kind = "near" -> {Span(MinStart(c), MaxEnd(c)) : c \in Placements(q, d)}
      [] q.kind = "boost" -> SpansOf(q.sub, d)
Matching(q) == {d \in 0 .. Len(docs) - 1 : SpansOf(q, d) # {}}
Starts(S) == {x.start : x \in S}
RECURSIVE HasOr(_)
HasOr(q) == \/ q.kind = "or"
            \/ q.kind = "near" /\ \E i \in DOMAIN q.subs : HasOr(q.subs[i])
            \/ q.kind = "boost" /\ HasOr(q.sub)
FirstFrom(q, d) == Least({NoMore} \cup {e \in Matching(q) : e >= d})
Ran(f) == {f[i] : i \in DOMAIN f}
Sound(r) == Span(r.start, r.end) \in SpansOf(query, last.doc)
Ascending(read) == \A i \in 2 .. Len(read) : read[i - 1].start <= read[i].start

(* next and advance find the first document from there on that has a span  *)
(* of the query, and a scorer or an explanation reads spans of it only, in *)
(* order and at least one, and one at every place where a span of the      *)
(* query starts.  With an or under a near, only that what is found is      *)
(* right (see OrComplete); the document alone is exact for an or itself.   *)
DocExact == last.call \in {"next", "advance", "explain"} =>
    IF HasOr(query) /\ query.kind = "near"
    THEN last.doc = NoMore \/ last.doc \in Matching(query)
    ELSE last.doc = FirstFrom(query, last.from)
ReadExact == last.call = "score" \/ (last.call = "explain" /\ last.doc = last.from) =>
    /\ last.read # <<>> /\ Ascending(last.read)
    /\ \A i \in DOMAIN last.read : Sound(last.read[i])
    /\ ~HasOr(query) => Starts(Ran(last.read)) = Starts(SpansOf(query, last.doc))
SpansExact == DocExact /\ ReadExact

(* An or reads the spans of every clause.  Not so: its queue of positions  *)
(* compares documents, so that only the first clause's spans are read.     *)
OrComplete == last.call = "score" => Starts(Ran(last.read)) = Starts(SpansOf(query, last.doc))
=============================================================================
