------------------------------ MODULE Scorers ------------------------------
(* The scorer trees that boolean, dismax, constant-score and filter queries *)
(* build for one leaf, the iteration over them, and the bulk scorer.  A     *)
(* call answers [s, doc], [s, ok] or [s, score]: the scorer after the call  *)
(* and its result.  Scores are integers.                                    *)
EXTENDS Integers, Sequences, FiniteSets, FiniteSetsExt, SequencesExt
CONSTANTS MaxDoc, NoMoreDocs,
          Queries,        \* the queries to run
          OptThreshold,   \* OPT_SCORE_THRESHOLD: 100
          NextLimit       \* next_limit: 500000
VARIABLES query, scorer, target, returned,
          scored,         \* how many docs were scored, and the last score
          bulk            \* what the bulk scorer collected
vars == <<query, scorer, target, returned, scored, bulk>>
Docs == 0..MaxDoc - 1

(***************************************************************************)
(* Queries.                                                                *)
(***************************************************************************)
TermQuery(docs, score) == [kind |-> "term", docs |-> docs, score |-> score]
AllQuery == [kind |-> "all"]
ConstQuery(q, boost) == [kind |-> "const", sub |-> q, boost |-> boost]
FilterQuery(q, pass) == [kind |-> "filter", sub |-> q, pass |-> pass]
BoolQuery(musts, shoulds, filters) ==
    IF Len(musts) + Len(shoulds) + Len(filters) = 1
    THEN (musts \o shoulds \o [k \in DOMAIN filters |-> ConstQuery(filters[k], 0)])[1]
    ELSE [kind |-> "bool", musts |-> musts, shoulds |-> shoulds, filters |-> filters]
MaxQuery(subs, tie) == IF Len(subs) = 1 THEN subs[1] ELSE [kind |-> "dismax", subs |-> subs, tie |-> tie]

(***************************************************************************)
(* create_scorer: empty or a scorer of the leaf.  A clause that is not     *)
(* scored gives 0.                                                         *)
(***************************************************************************)
RECURSIVE Cost(_), DocOf(_), Create(_, _)
Cost(s) ==
    CASE s.kind = "term" -> Cardinality(s.docs)
      [] s.kind = "all" -> Max({1, MaxDoc})
      [] s.kind = "conj" -> Cost(s.subs[1])
      [] s.kind \in {"disj", "max"} -> FoldLeft(LAMBDA n, sub : n + Cost(sub), 0, s.subs)
      [] OTHER -> Cost(s.sub)
DocOf(s) ==
    CASE s.kind \in {"term", "all", "disj", "max"} -> s.doc
      [] s.kind = "conj" -> DocOf(s.subs[1])
      [] OTHER -> DocOf(s.sub)
ByCost(subs) == SortSeq(subs, LAMBDA a, b : Cost(a) < Cost(b))
Conjunction(subs) == [kind |-> "conj", subs |-> ByCost(subs)]
Disjunction(kind, subs, tie) ==
    [kind |-> kind, subs |-> subs, tie |-> tie, doc |-> Min({NoMoreDocs} \cup {DocOf(subs[k]) : k \in DOMAIN subs})]
ReqOpt(req, opt) == [kind |-> "reqopt", sub |-> req, opt |-> opt, sum |-> 0, num |-> 0]
BooleanScorer(must, should, needed) ==
    LET musts == IF Len(must) > 1 THEN <<Conjunction(must)>> ELSE must
        shoulds == IF Len(should) > 1 THEN <<Disjunction("disj", should, 0)>> ELSE should
    IN  CASE Len(must) < needed -> <<>>      \* a required clause has no scorer
          [] Len(must) = needed /\ musts # <<>> /\ shoulds # <<>> -> <<ReqOpt(musts[1], shoulds[1])>>
          [] OTHER -> musts \o shoulds
Create(q, scores) ==
    LET Subs(qs, sc) == FlattenSeq([k \in DOMAIN qs |-> Create(qs[k], sc)])
        sub == Create(q.sub, IF q.kind = "const" THEN FALSE ELSE scores)
    IN  CASE q.kind = "term" ->
                 IF q.docs = {} THEN <<>>
                 ELSE <<[kind |-> "term", docs |-> q.docs, score |-> IF scores THEN q.score ELSE 0, doc |-> -1]>>
          [] q.kind = "all" -> <<[kind |-> "const", sub |-> [kind |-> "all", doc |-> -1], score |-> 0]>>
          [] q.kind = "const" ->
                 IF sub = <<>> \/ ~scores THEN sub ELSE <<[kind |-> "const", sub |-> sub[1], score |-> q.boost]>>
          [] q.kind = "filter" ->
                 IF sub = <<>> THEN sub ELSE <<[kind |-> "filter", sub |-> sub[1], pass |-> q.pass]>>
          [] q.kind = "bool" ->
                 BooleanScorer(Subs(q.musts, scores) \o Subs(q.filters, FALSE), Subs(q.shoulds, scores),
                               Len(q.musts) + Len(q.filters))
          [] q.kind = "dismax" ->
                 LET subs == Subs(q.subs, scores)
                 IN  IF Len(subs) > 1 THEN <<Disjunction("max", subs, q.tie)>> ELSE subs

(***************************************************************************)
(* Iteration.                                                              *)
(***************************************************************************)
RECURSIVE ApproximateNext(_), ApproximateAdvance(_, _), NextDoc(_), AdvanceTo(_, _), Matches(_), Score(_)
RECURSIVE SkipToApprox(_, _), SkipOthers(_, _, _), TwoPhaseNext(_)
At(s, doc) == [s |-> [s EXCEPT !.doc = doc], doc |-> doc]
InSub(s, r) == [s |-> [s EXCEPT !.sub = r.s], doc |-> r.doc]
AllAdvance(s, t) == At(s, IF t >= MaxDoc THEN NoMoreDocs ELSE t)
\* The sub-scorers, the ones that lag moved: the least doc is the new one.
MoveSubs(s, subs) ==
    At([s EXCEPT !.subs = subs], Min({NoMoreDocs} \cup {DocOf(subs[k]) : k \in DOMAIN subs}))
WithLead(s, r) == [s EXCEPT !.subs[1] = r.s]
\* Mutant: the third and later clauses are not asked.
SkipOthers_none(s, k, doc) == [s |-> s, doc |-> doc]
SkipOthers(s, k, doc) ==
    LET Restart(moved, lead) == SkipToApprox(WithLead(moved, lead), lead.doc)
        Moved(next, moved) ==
            IF next.doc = doc THEN SkipOthers(moved, k + 1, doc)
            ELSE Restart(moved, ApproximateAdvance(s.subs[1], next.doc))
        Asked(next) == Moved(next, [s EXCEPT !.subs[k] = next.s])
    IN  CASE k > Len(s.subs) -> [s |-> s, doc |-> doc]
          [] k <= Len(s.subs) /\ DocOf(s.subs[k]) >= doc -> SkipOthers(s, k + 1, doc)
          [] OTHER -> Asked(ApproximateAdvance(s.subs[k], doc))
\* The first two clauses are on doc.
Agreed(s, doc) == IF doc = NoMoreDocs THEN [s |-> s, doc |-> doc] ELSE SkipOthers(s, 3, doc)
SkipToApprox(s, doc) ==
    LET Second(next2) == [s EXCEPT !.subs[2] = next2.s]
        Led(next2, lead) ==
            IF next2.doc # lead.doc THEN SkipToApprox(WithLead(Second(next2), lead), lead.doc)
            ELSE Agreed(WithLead(Second(next2), lead), lead.doc)
        Asked(next2) ==
            IF next2.doc = doc THEN Agreed(Second(next2), doc)
            ELSE Led(next2, ApproximateAdvance(s.subs[1], next2.doc))
    IN  Asked(ApproximateAdvance(s.subs[2], doc))
FromLead(s, lead) == SkipToApprox(WithLead(s, lead), lead.doc)
ApproximateNext(s) ==
    CASE s.kind = "term" -> At(s, Min({NoMoreDocs} \cup {d \in s.docs : d > s.doc}))
      [] s.kind = "all" -> AllAdvance(s, s.doc + 1)
      [] s.kind = "conj" -> FromLead(s, ApproximateNext(s.subs[1]))
      [] s.kind \in {"disj", "max"} -> MoveSubs(s, [k \in DOMAIN s.subs |->
             IF DocOf(s.subs[k]) = s.doc THEN ApproximateNext(s.subs[k]).s ELSE s.subs[k]])
      [] OTHER -> InSub(s, ApproximateNext(s.sub))
ApproximateAdvance(s, t) ==
    CASE s.kind = "term" -> At(s, Min({NoMoreDocs} \cup {d \in s.docs : d >= t}))
      [] s.kind = "all" -> AllAdvance(s, t)
      [] s.kind = "conj" -> FromLead(s, ApproximateAdvance(s.subs[1], t))
      [] s.kind \in {"disj", "max"} -> MoveSubs(s, [k \in DOMAIN s.subs |->
             IF DocOf(s.subs[k]) < t THEN ApproximateAdvance(s.subs[k], t).s ELSE s.subs[k]])
      [] OTHER -> InSub(s, ApproximateAdvance(s.sub, t))
\* Only a filter has a second phase; const does not forward it.
Matches(s) ==
    CASE s.kind = "filter" /\ DocOf(s) \notin s.pass -> [s |-> s, ok |-> FALSE]
      [] s.kind = "reqopt" \/ (s.kind = "filter" /\ DocOf(s) \in s.pass) ->
             LET r == Matches(s.sub) IN [s |-> [s EXCEPT !.sub = r.s], ok |-> r.ok]
      [] OTHER -> [s |-> s, ok |-> TRUE]
TwoPhaseNext(s) ==
    LET Asked(m) == IF m.ok THEN [s |-> m.s, doc |-> DocOf(s)] ELSE TwoPhaseNext(ApproximateNext(m.s).s)
    IN  IF DocOf(s) = NoMoreDocs THEN [s |-> s, doc |-> NoMoreDocs] ELSE Asked(Matches(s))
NextDoc(s) ==
    CASE s.kind = "filter" -> TwoPhaseNext(ApproximateNext(s).s)
      [] s.kind \in {"const", "reqopt"} -> InSub(s, NextDoc(s.sub))
      [] OTHER -> ApproximateNext(s)
AdvanceTo(s, t) ==
    CASE s.kind = "filter" -> TwoPhaseNext(ApproximateAdvance(s, t).s)
      [] s.kind \in {"const", "reqopt"} -> InSub(s, AdvanceTo(s.sub, t))
      [] OTHER -> ApproximateAdvance(s, t)
\* The scores of the clauses on the doc.
SubScores(s) == {[k |-> k, v |-> Score(s.subs[k])] : k \in {k \in DOMAIN s.subs : DocOf(s.subs[k]) = DocOf(s)}}
Rescored(s) == [s EXCEPT !.subs = [k \in DOMAIN s.subs |->
                   IF DocOf(s.subs[k]) = DocOf(s) THEN Score(s.subs[k]).s ELSE s.subs[k]]]
SumScores(s) == MapThenSumSet(LAMBDA x : x.v.score, SubScores(s))
ReqOptScore(s) ==
    LET Add(req, opt, extra) ==
            [s |-> [s EXCEPT !.sub = req.s, !.sum = @ + req.score, !.num = @ + 1, !.opt = extra.s],
             score |-> req.score + extra.score]
        Optional(req, opt) == Add(req, opt, IF opt.doc = DocOf(s) THEN Score(opt.s) ELSE [s |-> opt.s, score |-> 0])
        Required(req) ==
            IF s.num > OptThreshold /\ req.score * s.num < s.sum
            THEN [s |-> [s EXCEPT !.sub = req.s], score |-> req.score]
            ELSE Optional(req, IF DocOf(s.opt) < DocOf(s) THEN AdvanceTo(s.opt, DocOf(s))
                               ELSE [s |-> s.opt, doc |-> DocOf(s.opt)])
    IN  Required(Score(s.sub))
Score(s) ==
    CASE s.kind \in {"term", "const"} -> [s |-> s, score |-> s.score]
      [] s.kind = "all" -> [s |-> s, score |-> 1]
      [] s.kind = "filter" -> LET r == Score(s.sub) IN [s |-> [s EXCEPT !.sub = r.s], score |-> r.score]
      [] s.kind \in {"conj", "disj"} -> [s |-> Rescored(s), score |-> SumScores(s)]
      [] s.kind = "max" ->
             LET Tied(top) == [s |-> Rescored(s), score |-> top + (SumScores(s) - top) * s.tie]
             IN  Tied(Max({x.v.score : x \in SubScores(s)}))
      [] s.kind = "reqopt" -> ReqOptScore(s)

(***************************************************************************)
(* BulkScorer, from doc 0 to the end.  r is [s, doc, hits, next].          *)
(***************************************************************************)
RECURSIVE ScoreRange(_, _)
SupportsTwoPhase(s) == s.kind = "filter"
Collect(r, s, live) ==
    LET Hit(v) == [r EXCEPT !.s = v.s, !.hits = Append(@, [doc |-> r.doc, score |-> v.score])]
    IN  IF r.doc \in live THEN Hit(Score(s)) ELSE [r EXCEPT !.s = s]
ScoreRange(r, live) ==
    LET Collected(m) == IF m.ok THEN Collect(r, m.s, live) ELSE [r EXCEPT !.s = m.s]
        Moved(c, n) == [c EXCEPT !.s = n.s, !.doc = n.doc, !.next = @ + 1]
        Step(c) == Moved(c, IF SupportsTwoPhase(r.s) THEN ApproximateNext(c.s) ELSE NextDoc(c.s))
        GoOn(t) == IF SupportsTwoPhase(r.s) /\ t.hits = <<>> /\ t.next > NextLimit THEN t ELSE ScoreRange(t, live)
    IN  IF r.doc >= NoMoreDocs THEN r
        ELSE GoOn(Step(Collected(IF SupportsTwoPhase(r.s) /\ r.doc \in live THEN Matches(r.s)
                                 ELSE [s |-> r.s, ok |-> TRUE])))
BulkScore(s, live) ==
    LET From(first) == ScoreRange([s |-> first.s, doc |-> first.doc, hits |-> <<>>, next |-> 0], live).hits
    IN  From(ApproximateNext(s))

(***************************************************************************)
(* explain, of the weight.                                                 *)
(***************************************************************************)
RECURSIVE Explain(_, _, _)
NoMatch == [ok |-> FALSE, value |-> 0]
Explain(q, d, scores) ==
    LET Of(qs, sc) == [k \in DOMAIN qs |-> Explain(qs[k], d, sc)]
        Matching(es) == SelectSeq(es, LAMBDA e : e.ok)
        Sum(es) == FoldLeft(LAMBDA n, e : n + e.value, 0, es)
        hits == Matching(Of(q.subs, scores))
        top == Max({hits[k].value : k \in DOMAIN hits})
        musts == Of(q.musts, scores) \o Of(q.filters, FALSE)
        shoulds == Matching(Of(q.shoulds, scores))
        inner == Create(q.sub, FALSE)
    IN  CASE q.kind = "term" -> IF d \in q.docs THEN [ok |-> TRUE, value |-> IF scores THEN q.score ELSE 0] ELSE NoMatch
          [] q.kind = "all" -> [ok |-> TRUE, value |-> 0]
          [] q.kind = "const" /\ ~scores -> Explain(q.sub, d, FALSE)
          [] q.kind = "const" /\ scores ->
                 IF inner # <<>> /\ AdvanceTo(inner[1], d).doc = d THEN [ok |-> TRUE, value |-> q.boost] ELSE NoMatch
          [] q.kind = "filter" -> Explain(q.sub, d, scores)
          [] q.kind = "dismax" ->
                 IF hits = <<>> THEN NoMatch ELSE [ok |-> TRUE, value |-> top + (Sum(hits) - top) * q.tie]
          [] q.kind = "bool" ->
                 IF \/ Matching(musts) # musts
                    \/ musts \o shoulds = <<>>
                    \/ musts = <<>> /\ Len(shoulds) < 1
                 THEN NoMatch ELSE [ok |-> TRUE, value |-> Sum(musts \o shoulds)]

(***************************************************************************)
(* One scorer, called as a caller may.                                     *)
(***************************************************************************)
NotScored == [n |-> 0, score |-> -1]
Init ==
    /\ query \in Queries /\ scorer = Create(query, TRUE)
    /\ target = -1 /\ returned = -1 /\ scored = NotScored /\ bulk = <<>>
Positioned == scorer # <<>> /\ returned # NoMoreDocs /\ bulk = <<>>
Move(r, t) ==
    /\ scorer' = <<r.s>> /\ returned' = r.doc /\ target' = t
    /\ scored' = [scored EXCEPT !.score = -1] /\ UNCHANGED <<query, bulk>>
CallNext == Positioned /\ Move(NextDoc(scorer[1]), returned + 1)
CallAdvance(t) == Positioned /\ t > returned /\ Move(AdvanceTo(scorer[1], t), t)
CallScore ==
    /\ Positioned /\ returned # -1 /\ scored.score = -1
    /\ \E r \in {Score(scorer[1])} :
           scorer' = <<r.s>> /\ scored' = [n |-> scored.n + 1, score |-> r.score]
    /\ UNCHANGED <<query, target, returned, bulk>>
CallBulk(live) ==
    /\ Positioned /\ returned = -1
    /\ bulk' = <<[live |-> live, hits |-> BulkScore(scorer[1], live)]>>
    /\ UNCHANGED <<query, scorer, target, returned, scored>>
Next ==
    \/ CallNext
    \/ \E t \in Docs \cup {NoMoreDocs} : CallAdvance(t)
    \/ CallScore
    \/ \E live \in SUBSET Docs : CallBulk(live)
Spec == Init /\ [][Next]_vars

(***************************************************************************)
(* Properties.                                                             *)
(***************************************************************************)
RECURSIVE Matching(_), TrueScore(_, _, _, _), HasFilter(_)
Matching(q) ==
    CASE q.kind = "term" -> q.docs
      [] q.kind = "all" -> Docs
      [] q.kind = "const" -> Matching(q.sub)
      [] q.kind = "filter" -> Matching(q.sub) \cap q.pass
      [] q.kind = "dismax" -> UNION {Matching(q.subs[k]) : k \in DOMAIN q.subs}
      [] q.kind = "bool" ->
             LET req == q.musts \o q.filters
             IN  IF req = <<>> THEN UNION {Matching(q.shoulds[k]) : k \in DOMAIN q.shoulds}
                 ELSE {d \in Docs : \A k \in DOMAIN req : d \in Matching(req[k])}
TrueScore(q, d, scores, opt) ==
    LET Sum(qs, sc) == FoldLeft(LAMBDA n, x : n + IF d \in Matching(x) THEN TrueScore(x, d, sc, opt) ELSE 0, 0, qs)
        vals == {TrueScore(q.subs[k], d, scores, opt) : k \in {k \in DOMAIN q.subs : d \in Matching(q.subs[k])}}
    IN  CASE q.kind = "term" -> IF scores THEN q.score ELSE 0
          [] q.kind = "all" -> 0
          [] q.kind = "const" -> IF scores THEN q.boost ELSE TrueScore(q.sub, d, FALSE, opt)
          [] q.kind = "filter" -> TrueScore(q.sub, d, scores, opt)
          [] q.kind = "dismax" -> Max(vals) + (Sum(q.subs, scores) - Max(vals)) * q.tie
          [] q.kind = "bool" -> Sum(q.musts, scores) + Sum(q.filters, FALSE)
                                + IF opt \/ q.musts \o q.filters = <<>> THEN Sum(q.shoulds, scores) ELSE 0
HasFilter(q) ==
    CASE q.kind \in {"term", "all"} -> FALSE
      [] q.kind = "filter" -> TRUE
      [] q.kind = "const" -> HasFilter(q.sub)
      [] q.kind = "dismax" -> \E k \in DOMAIN q.subs : HasFilter(q.subs[k])
      [] q.kind = "bool" -> \E k \in DOMAIN (q.musts \o q.shoulds \o q.filters) :
                                HasFilter((q.musts \o q.shoulds \o q.filters)[k])
\* No filter below another scorer: only there is its second phase asked.
Plain(q) == ~HasFilter(q) \/ (q.kind = "filter" /\ ~HasFilter(q.sub))
\* The score of a doc; optional clauses may be left out once many docs were scored.
ScoreOk(d, score, n) ==
    IF n <= OptThreshold + 1 THEN score = TrueScore(query, d, TRUE, TRUE)
    ELSE TrueScore(query, d, TRUE, FALSE) <= score /\ score <= TrueScore(query, d, TRUE, TRUE)
HitsOk(hits, live) ==
    /\ [k \in DOMAIN hits |-> hits[k].doc] = SelectSeq([k \in 1..MaxDoc |-> k - 1], LAMBDA d : d \in live \cap Matching(query))
    /\ \A k \in DOMAIN hits : ScoreOk(hits[k].doc, hits[k].score, k)
GaveUp(live) ==
    /\ query.kind = "filter"
    /\ Cardinality({d \in Matching(query.sub) : \A m \in Matching(query) \cap live : d < m}) > NextLimit
(* Whatever calls are made in whatever order, a scorer tree stops on       *)
(* exactly the docs its query matches, each with the sum (or the maximum)  *)
(* of the scores of its matching clauses; the bulk scorer collects exactly *)
(* the live ones, unless it gave up; explain agrees.                       *)
ScorersExact ==
    Plain(query) =>
    /\ scorer = <<>> => Matching(query) = {}
    /\ target # -1 => returned = Min({NoMoreDocs} \cup {d \in Matching(query) : d >= target})
    /\ scored.score # -1 => ScoreOk(returned, scored.score, scored.n)
    /\ bulk # <<>> => (bulk[1].hits = <<>> /\ GaveUp(bulk[1].live)) \/ HitsOk(bulk[1].hits, bulk[1].live)
    /\ target = -1 /\ ~HasFilter(query) =>
           \A d \in Docs : /\ Explain(query, d, TRUE).ok <=> d \in Matching(query)
                           /\ d \in Matching(query) => Explain(query, d, TRUE).value = TrueScore(query, d, TRUE, TRUE)
(* The same for every query: violated, a conjunction, a disjunction and a  *)
(* constant score take the approximations of a filter for its matches.     *)
FiltersApplied ==
    /\ target # -1 => returned = Min({NoMoreDocs} \cup {d \in Matching(query) : d >= target})
    /\ bulk # <<>> => (bulk[1].hits = <<>> /\ GaveUp(bulk[1].live)) \/ HitsOk(bulk[1].hits, bulk[1].live)
=============================================================================
