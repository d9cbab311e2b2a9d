------------------------------ MODULE Phrases ------------------------------
(***************************************************************************)
(* Phrase queries within a document: the exact scorer, which counts the    *)
(* places where every term stands at its offset, and the sloppy scorer,    *)
(* which moves the terms' positions past one another in a heap and keeps   *)
(* the repetitions of a term apart.  The documents the scorers look at are *)
(* the ones that have every term, in the order the conjunction of Scorers  *)
(* finds them; the sloppy scorer keeps the groups of repetitions it made   *)
(* for the first of them.                                                  *)
(*                                                                         *)
(* Both scorers read positions through pointers into the vector they then  *)
(* hand to ConjunctionScorer::new, which sorts it by cost, moves its       *)
(* elements out and frees it.  What such a read yields is undefined: here, *)
(* the postings that the sort put in the slot, its own or another's        *)
(* (reads).                                                                *)
(***************************************************************************)
EXTENDS Integers, Sequences, SequencesExt

CONSTANTS Places,     \* the sets of terms that stand at one position of a document
          Phrases,    \* queries: sequences of [term, offset], offsets from 0 and not decreasing
          Slop,       \* of the sloppy scorer
          MaxLength,  \* bound on a document's positions
          MaxDocs     \* bound on the documents

VARIABLES query,    \* the phrase
          doc,      \* the document: the set of terms at each position
          groups,   \* rpt_group of the sloppy scorer, <<>> before the first document
          checked,  \* checked_rpts
          docs,     \* documents of the leaf so far
          reads     \* the slot whose postings each slot's pointer reads

vars == <<query, doc, groups, checked, docs, reads>>

(* A posting's positions in the document, in the order of next_position.   *)
Positions(t) == SelectSeq([i \in 1 .. Len(doc) |-> i - 1], LAMBDA p : t \in doc[p + 1])
Slots == 1 .. Len(query)
(* What the conjunction looks for, and what a slot's pointer reads.        *)
HasAll == \A k \in Slots : Positions(query[k].term) # <<>>
Postings(k) == Positions(query[reads[k]].term)
Least(S) == CHOOSE x \in S : \A y \in S : x <= y
Most(S) == CHOOSE x \in S : \A y \in S : x >= y

-----------------------------------------------------------------------------
(* ExactPhraseScorer.  A posting is [pos, upto] over its positions; the    *)
(* result of advancing is ok or not.                                       *)

(* PostingsAndFreq are sorted by offset, then by term.                     *)
Posting(k) == [k |-> k, pos |-> Postings(k)[1], upto |-> 1]
RECURSIVE AdvancePosition(_, _)
AdvancePosition(p, target) ==
    IF p.pos >= target THEN [ok |-> TRUE, p |-> p]
    ELSE IF p.upto = Len(Postings(p.k)) THEN [ok |-> FALSE, p |-> p]
    ELSE AdvancePosition([p EXCEPT !.pos = Postings(p.k)[p.upto + 1], !.upto = @ + 1], target)
(* The postings after the lead, from j on, against the lead's position:    *)
(* all expected, one behind (then the lead is to go to target) or ended.   *)
RECURSIVE CheckOthers(_, _, _)
CheckOthers(ps, j, phrasePos) ==
    IF j > Len(ps) THEN [found |-> "all", ps |-> ps, target |-> 0]
    ELSE LET expected == phrasePos + query[ps[j].k].offset
             a == AdvancePosition(ps[j], expected)
             qs == [ps EXCEPT ![j] = a.p]
         IN  IF ~a.ok THEN [found |-> "ended", ps |-> qs, target |-> 0]
             ELSE IF a.p.pos # expected
                  THEN [found |-> "beyond", ps |-> qs,
                        target |-> a.p.pos - query[ps[j].k].offset + query[ps[1].k].offset]
                  ELSE CheckOthers(qs, j + 1, phrasePos)
RECURSIVE AdvanceHead(_, _, _)
AdvanceHead(ps, freq, needsScores) ==
    LET lead == ps[1]
        c == CheckOthers(ps, 2, lead.pos - query[lead.k].offset)
        moved == AdvancePosition(lead, c.target)
    IN  IF c.found = "ended" THEN freq
        ELSE IF c.found = "beyond"
             THEN IF moved.ok THEN AdvanceHead([c.ps EXCEPT ![1] = moved.p], freq, needsScores) ELSE freq
        ELSE IF ~needsScores \/ lead.upto = Len(Postings(lead.k)) THEN freq + 1
        ELSE AdvanceHead([c.ps EXCEPT ![1] = [lead EXCEPT !.pos = Postings(lead.k)[lead.upto + 1],
                                                          !.upto = @ + 1]],
                         freq + 1, needsScores)
PhraseFreq(needsScores) == AdvanceHead([k \in Slots |-> Posting(k)], 0, needsScores)
(* Whether a search for the phrase collects the document.  The scorer does *)
(* not support_two_phase, so that BulkScorer takes the document where      *)
(* approximate_next first stands as it is, and calls next for the others.  *)
ExactCollected(needsScores) == docs = 1 \/ PhraseFreq(needsScores) > 0

-----------------------------------------------------------------------------
(* SloppyPhraseScorer.  pp[k] is [position, count]: the position minus the *)
(* offset, and how many positions are left.                                *)

Offset(k) == query[k].offset
NextPosition(pp, k) ==
    [pp EXCEPT ![k] = [position |-> Postings(k)[Len(Postings(k)) - @.count + 1] - Offset(k),
                       count |-> @.count - 1]]
FirstPositions == [k \in Slots |-> [position |-> Postings(k)[1] - Offset(k), count |-> Len(Postings(k)) - 1]]
TpPos(pp, k) == pp[k].position + Offset(k)

(* The heap of phrase positions: the least position, then offset, then ord *)
(* on top.  Elements are pointers, so a key may change while it is in.     *)
Before(pp, j, k) ==
    \/ pp[j].position < pp[k].position
    \/ pp[j].position = pp[k].position /\ (Offset(j) < Offset(k) \/ (Offset(j) = Offset(k) /\ j < k))
RECURSIVE SiftUp(_, _, _)
SiftUp(pp, h, i) ==
    IF i = 1 \/ ~Before(pp, h[i], h[i \div 2]) THEN h
    ELSE SiftUp(pp, [h EXCEPT ![i] = h[i \div 2], ![i \div 2] = h[i]], i \div 2)
Push(pp, h, k) == SiftUp(pp, Append(h, k), Len(h) + 1)
RECURSIVE SiftDownToBottom(_, _, _)
SiftDownToBottom(pp, h, i) ==
    LET l == 2 * i
        c == IF l + 1 <= Len(h) /\ ~Before(pp, h[l], h[l + 1]) THEN l + 1 ELSE l
    IN  IF l > Len(h) THEN SiftUp(pp, h, i)
        ELSE SiftDownToBottom(pp, [h EXCEPT ![i] = h[c], ![c] = h[i]], c)
Pop(pp, h) ==
    [top |-> h[1], h |-> IF Len(h) = 1 THEN <<>>
                         ELSE SiftDownToBottom(pp, <<h[Len(h)]>> \o SubSeq(h, 2, Len(h) - 1), 1)]
RECURSIVE PushAll(_, _, _)
PushAll(pp, h, ks) == IF ks = <<>> THEN h ELSE PushAll(pp, Push(pp, h, ks[1]), Tail(ks))

(* Repetitions: the slots of a repeating term, grouped by where they stand *)
(* in the first document.  Terms are single, so groups are too.            *)
RepeatingPps == SelectSeq([k \in Slots |-> k],
                          LAMBDA k : \E j \in Slots : j # k /\ query[j].term = query[k].term)
RECURSIVE GatherRptGroups(_, _, _)
GatherRptGroups(pp, rpp, gs) ==
    IF rpp = <<>> THEN gs
    ELSE LET k == rpp[1]
             marked == \E g \in DOMAIN gs : \E i \in DOMAIN gs[g] : gs[g][i] = k
             same == SelectSeq(Tail(rpp), LAMBDA j :
                       /\ ~\E g \in DOMAIN gs : \E i \in DOMAIN gs[g] : gs[g][i] = j
                       /\ Offset(j) # Offset(k) /\ TpPos(pp, j) = TpPos(pp, k))
         IN  GatherRptGroups(pp, Tail(rpp), IF marked \/ same = <<>> THEN gs ELSE Append(gs, <<k>> \o same))
SortRptGroups(gs) == [g \in DOMAIN gs |-> SortSeq(gs[g], LAMBDA j, k : Offset(j) < Offset(k))]

GroupOf(gs, k) == {g \in DOMAIN gs : \E i \in DOMAIN gs[g] : gs[g][i] = k}
RptInd(gs, k) == LET g == CHOOSE g \in GroupOf(gs, k) : TRUE IN CHOOSE i \in DOMAIN gs[g] : gs[g][i] = k
(* The first other slot of the group at the same place, 0 for none.        *)
Collide(pp, gs, k) ==
    LET g == gs[CHOOSE g \in GroupOf(gs, k) : TRUE]
        S == {i \in DOMAIN g : g[i] # k /\ TpPos(pp, g[i]) = TpPos(pp, k)}
    IN  IF S = {} THEN 0 ELSE Least(S)
Lesser(pp, j, k) == IF pp[j].position < pp[k].position
                       \/ (pp[j].position = pp[k].position /\ Offset(j) < Offset(k)) THEN j ELSE k

(* The scorer at work: [pp, h, end, ok].                                   *)
AdvancePp_end(s, k) == IF s.pp[k].count = 0 THEN [s EXCEPT !.ok = FALSE]
                       ELSE [s EXCEPT !.pp = NextPosition(@, k)]
AdvancePp(s, k) ==
    IF s.pp[k].count = 0 THEN [s EXCEPT !.ok = FALSE]
    ELSE LET pp == NextPosition(s.pp, k)
         IN  [s EXCEPT !.pp = pp, !.end = IF pp[k].position > @ THEN pp[k].position ELSE @]
(* Move the colliding repetitions apart, and note which were moved.        *)
RECURSIVE Separate(_, _, _, _, _)
Separate(s, gs, k, cur, moved) ==
    LET c == Collide(s.pp, gs, cur)
        g == gs[CHOOSE g \in GroupOf(gs, k) : TRUE]
        next == Lesser(s.pp, cur, g[c])
        t == AdvancePp(s, next)
    IN  IF c = 0 THEN [s |-> s, moved |-> moved]
        ELSE IF ~t.ok THEN [s |-> t, moved |-> moved]
        ELSE Separate(t, gs, k, next, IF c = RptInd(gs, k) THEN moved ELSE moved \cup {c})
(* Take the moved ones out of the heap, and put them and whatever came     *)
(* with them back.                                                         *)
RECURSIVE Reinsert(_, _, _, _)
Reinsert(s, gs, moved, stack) ==
    IF moved = {} THEN [s EXCEPT !.h = PushAll(s.pp, @, stack)]
    ELSE LET p == Pop(s.pp, s.h)
         IN  Reinsert([s EXCEPT !.h = p.h], gs,
                      IF GroupOf(gs, p.top) # {} THEN moved \ {RptInd(gs, p.top)} ELSE moved,
                      <<p.top>> \o stack)
AdvanceRpts(s, gs, k) ==
    IF GroupOf(gs, k) = {} THEN s
    ELSE LET r == Separate(s, gs, k, k, {})
         IN  IF r.s.ok THEN Reinsert(r.s, gs, r.moved, <<>>) ELSE r.s
(* At the start the j-th repetition takes the j-th position.               *)
RECURSIVE NextPositions(_, _, _)
NextPositions(s, k, n) ==
    IF n = 0 \/ ~s.ok THEN s
    ELSE IF s.pp[k].count = 0 THEN [s EXCEPT !.ok = FALSE]
    ELSE NextPositions([s EXCEPT !.pp = NextPosition(@, k)], k, n - 1)
AdvanceRepeatGroups(s, gs) ==
    FoldLeft(LAMBDA a, g : FoldLeft(LAMBDA b, j : NextPositions(b, g[j], j - 1), a, [j \in 1 .. Len(g) |-> j]),
             s, gs)
FillQueue(s) ==
    [s EXCEPT !.h = PushAll(s.pp, <<>>, [k \in Slots |-> k]),
              !.end = Most({s.pp[k].position : k \in Slots} \cup {@})]
Start == [pp |-> FirstPositions, h |-> <<>>, end |-> -1000, ok |-> TRUE]
(* init_first_time, init_simple and init_complex.                          *)
RptGroups == IF checked THEN groups ELSE SortRptGroups(GatherRptGroups(FirstPositions, RepeatingPps, <<>>))
InitPhrasePositions ==
    IF RepeatingPps = <<>> THEN FillQueue(Start)
    ELSE LET s == AdvanceRepeatGroups(Start, RptGroups) IN IF s.ok THEN FillQueue(s) ELSE s
(* The loop of phrase_freq: the least position moves on until it passes    *)
(* the next; the shortest stretch on the way is a match if within slop.    *)
Within(len) == IF len <= Slop THEN 1 ELSE 0
RECURSIVE MoveLeast(_, _)
MoveLeast(w, needsScores) ==
    LET next == w.s.pp[w.s.h[1]].position
        a == AdvancePp(w.s, w.k)
        s == IF a.ok /\ RepeatingPps # <<>> THEN AdvanceRpts(a, RptGroups, w.k) ELSE a
        len2 == s.end - s.pp[w.k].position
        found == w.freq + Within(w.len)
        p == Pop(s.pp, Push(s.pp, s.h, w.k))
    IN  IF ~s.ok THEN found
        ELSE IF s.pp[w.k].position > next
             THEN IF found > w.freq /\ ~needsScores THEN found
                  ELSE MoveLeast([s |-> [s EXCEPT !.h = p.h], k |-> p.top, freq |-> found,
                                  len |-> s.end - s.pp[p.top].position], needsScores)
             ELSE MoveLeast([w EXCEPT !.s = s, !.len = IF len2 < @ THEN len2 ELSE @], needsScores)
SloppyFreq(needsScores) ==
    LET s == InitPhrasePositions
        p == Pop(s.pp, s.h)
    IN  IF ~s.ok THEN 0
        ELSE MoveLeast([s |-> [s EXCEPT !.h = p.h], k |-> p.top, freq |-> 0,
                        len |-> s.end - s.pp[p.top].position], needsScores)

-----------------------------------------------------------------------------
Init ==
    /\ query \in Phrases
    /\ reads \in {f \in [Slots -> Slots] : \A j, k \in Slots : f[j] = f[k] => j = k}
    /\ doc = <<>> /\ groups = <<>> /\ checked = FALSE /\ docs = 1
AddPosition ==
    /\ Len(doc) < MaxLength
    /\ \E S \in Places : doc' = Append(doc, S)
    /\ UNCHANGED <<query, groups, checked, docs, reads>>
(* The scorer goes to the next document that has all the terms.            *)
NextDoc ==
    /\ HasAll /\ docs < MaxDocs
    /\ groups' = RptGroups
    /\ checked' = TRUE /\ doc' = <<>> /\ docs' = docs + 1
    /\ UNCHANGED <<query, reads>>
Next == AddPosition \/ NextDoc
Spec == Init /\ [][Next]_vars

-----------------------------------------------------------------------------
(* A choice of one position per slot; the slots of one term differ.        *)
Placements == {f \in [Slots -> 0 .. Len(doc) - 1] :
              /\ \A k \in Slots : query[k].term \in doc[f[k] + 1]
              /\ \A j, k \in Slots :
                   query[j].term = query[k].term /\ Offset(j) # Offset(k) => f[j] # f[k]}
Stretch(f) == Most({f[k] - Offset(k) : k \in Slots}) - Least({f[k] - Offset(k) : k \in Slots})
PhraseCount == Len(SelectSeq([i \in 1 .. Len(doc) |-> i - 1],
                             LAMBDA p : \A k \in Slots : /\ p + Offset(k) < Len(doc)
                                                         /\ query[k].term \in doc[p + Offset(k) + 1]))
(* The exact scorer counts every place of the phrase, and without scores   *)
(* it stops at the first; a search collects the documents that have one,   *)
(* from the second document of a leaf on.                                  *)
ExactPhrase ==
    HasAll => /\ PhraseFreq(TRUE) = PhraseCount
              /\ PhraseFreq(FALSE) = IF PhraseCount > 0 THEN 1 ELSE 0
              /\ docs > 1 => \A needsScores \in BOOLEAN : ExactCollected(needsScores) = (PhraseCount > 0)
(* A sloppy phrase matches exactly the documents where its terms stand     *)
(* within the slop, repetitions apart, whatever document the groups of     *)
(* repetitions were made for; with scores and without.                     *)
SloppyPhrase ==
    HasAll => LET matches == \E f \in Placements : Stretch(f) <= Slop
              IN  /\ (SloppyFreq(TRUE) > 0) = matches
                  /\ (SloppyFreq(FALSE) > 0) = matches
(* When every pointer still reads the postings of its own term, the        *)
(* phrases are exact.                                                      *)
PhrasesExact == (\A k \in Slots : reads[k] = k) => ExactPhrase /\ SloppyPhrase

(* What the code does not keep: the same whatever the freed vector holds,  *)
(* and for the first document of a leaf.  See the README.                  *)
PhrasesExactAnyRead == ExactPhrase
FirstCollected ==
    HasAll /\ (\A k \in Slots : reads[k] = k) => ExactCollected(TRUE) = (PhraseCount > 0)
=============================================================================
