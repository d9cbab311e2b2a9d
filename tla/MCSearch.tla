------------------------------ MODULE MCSearch ------------------------------
(* Searching, from the iterators up: doc id sets, postings, scorers, phrases, *)
(* spans and the search of an index on a thread pool.  A behaviour exercises *)
(* one part; the variables it does not use stay at Unused.  Parts that       *)
(* declare a variable of the same name share it.                             *)
EXTENDS Integers, Sequences
CONSTANTS NumHits, PerReader, MaxDocsPerSlice, MaxSegmentsPerSlice, Workers,
          NoMoreDocs, Slop, ScoredQueries
VARIABLES part,
          query, target, returned, scored, iter, docs,
          scorer, bulk,
          kind, set, given, sparse,
          field, files, term, state, at, used,
          doc, groups, checked, reads,
          spans, last,
          leaves, chain, pc, slices, queue, worker, taskCount, channel, senders, pq, total, flags, late
Unused == "unused"
scorersOwn == <<scorer, bulk>>
setsOwn == <<kind, set, given, sparse>>
postingsOwn == <<field, files, term, state, at, used>>
phrasesOwn == <<doc, groups, checked, reads>>
spansOwn == <<spans, last>>
searchOwn == <<leaves, chain, pc, slices, queue, worker, taskCount, channel, senders, pq, total, flags, late>>

(* Scorers: conjunctions, disjunctions, filters and their nestings.          *)
Scoring == INSTANCE Scorers WITH MaxDoc <- 4, Queries <- ScoredQueries, OptThreshold <- 1, NextLimit <- 1
Build == INSTANCE Scorers WITH MaxDoc <- 4, Queries <- {}, OptThreshold <- 1, NextLimit <- 1
T0 == Build!TermQuery({}, 16)
T1 == Build!TermQuery({0, 2, 3}, 1)
T2 == Build!TermQuery({1, 2, 3}, 2)
T3 == Build!TermQuery({0, 1, 3}, 4)
T4 == Build!TermQuery({3}, 8)
Bool(musts, shoulds, filters) == Build!BoolQuery(musts, shoulds, filters)
ManyQueries ==
    {T1, Build!AllQuery, Build!ConstQuery(T2, 3), Build!FilterQuery(T1, {2, 3}),
     Bool(<<T1>>, <<T2>>, <<>>), Bool(<<T1, T2, T3>>, <<>>, <<>>), Bool(<<T3, T1>>, <<T4, T2>>, <<T2>>),
     Bool(<<>>, <<T1, T4, T0>>, <<>>), Bool(<<T0>>, <<T1>>, <<>>), Bool(<<>>, <<>>, <<T2>>),
     Bool(<<Bool(<<>>, <<T1, T4>>, <<>>)>>, <<T3>>, <<Bool(<<T2, T3, Build!AllQuery>>, <<>>, <<>>)>>),
     Build!MaxQuery(<<T1, T2, T4>>, 1),
     Build!MaxQuery(<<Bool(<<T1, T2>>, <<T3>>, <<>>), Build!ConstQuery(T3, 1)>>, 0)}

(* Doc id sets: words of two bits and blocks of five docs, the last short.   *)
Sets == INSTANCE DocIdSets WITH MaxDoc <- 6, WordBits <- 2, BlockSize <- 5, MaxArrayLength <- 2,
                                Shift <- 1, MinBuffer <- 2, MaxGrow <- 3

(* Postings: terms of 1 to 9 documents in blocks of 2, so that there are     *)
(* tails, whole blocks and up to three levels of skips.                      *)
Field(fr, po, of, pa) == [freqs |-> fr, positions |-> po, offsets |-> of, payloads |-> pa]
PostedFields == {Field(FALSE, FALSE, FALSE, FALSE), Field(TRUE, FALSE, FALSE, FALSE), Field(TRUE, TRUE, FALSE, FALSE),
                 Field(TRUE, TRUE, TRUE, FALSE), Field(TRUE, TRUE, FALSE, TRUE), Field(TRUE, TRUE, TRUE, TRUE)}
Occurrences(n, s) == [i \in 1 .. n |-> [position |-> i * s - 1, payload |-> [k \in 1 .. (i + s + 1) % 3 |-> i + k],
                                        start |-> 3 * i * s, end |-> 3 * i * s + (i % 2) + 1]]
Posting(n, freq) == [i \in 1 .. n |-> [doc |-> i - 1 + (i \div 3),
                                       positions |-> Occurrences(IF i % 2 = 0 THEN freq ELSE 1, 1 + (i % 2))]]
Lists == INSTANCE Postings WITH BlockSize <- 2, SkipMultiplier <- 2, MaxSkipLevels <- 3, PayloadBytes <- 16,
                                MaxDoc <- 13, Fields <- PostedFields, FirstTerms <- {Posting(3, 2)},
                                Terms <- {Posting(9, 3)} \cup {Posting(n, freq) : n \in {1, 2, 5}, freq \in {1, 3}}

(* Phrases, with repeated terms, gaps and two terms at one position.         *)
P(t, o) == [term |-> t, offset |-> o]
PhraseQueries == {<<P("a", 0), P("b", 1)>>, <<P("a", 0), P("b", 0)>>, <<P("a", 0), P("b", 2), P("a", 3)>>,
                  <<P("a", 0), P("a", 1)>>, <<P("a", 0), P("b", 1), P("c", 2)>>}
InOrder == INSTANCE Phrases WITH Places <- {{}, {"a"}, {"b"}, {"c"}, {"a", "b"}}, Phrases <- PhraseQueries, MaxLength <- 4, MaxDocs <- 2

(* Spans: near queries, ordered and not, with gaps, over terms and an or.    *)
SpanTerm(t) == [kind |-> "term", term |-> t]
Or(qs) == [kind |-> "or", subs |-> qs]
Near(ordered, slop, qs) == [kind |-> "near", ordered |-> ordered, slop |-> slop, subs |-> qs]
A == SpanTerm("a")
B == SpanTerm("b")
C == SpanTerm("c")
SpanQueries == {A, Near(TRUE, 0, <<A, B>>), Near(TRUE, 1, <<A, B, A>>),
                Near(TRUE, 0, <<A, [kind |-> "gap", width |-> 1], B>>), Near(FALSE, 0, <<A, B, C>>),
                Near(FALSE, 1, <<A, B>>), Or(<<A, [kind |-> "boost", sub |-> B], C>>), Near(TRUE, 0, <<A, Or(<<B, C>>)>>)}
Documents == UNION {[1 .. n -> {"a", "b", "c"}] : n \in 0 .. 3}
Others == {<<>>, <<"c">>, <<"a", "b", "c">>, <<"b", "a", "b">>}
Near1 == INSTANCE Spans WITH Segments <- {<<d, e>> : d \in Documents, e \in Others} \cup {<<e, d>> : d \in Documents, e \in Others},
                             Queries <- SpanQueries, MaxLength <- 3, NoMore <- NoMoreDocs

(* The search: two indexes, five chains of collectors, and two workers.    *)
Hit(d, s) == [doc |-> d, score |-> s]
Leaf(max, hits) == [max |-> max, hits |-> hits, bad |-> FALSE]
L1 == Leaf(2, <<Hit(0, 1), Hit(1, 2)>>)
L2 == Leaf(1, <<Hit(0, 2)>>)
L3 == Leaf(3, <<Hit(0, 3), Hit(1, 1), Hit(2, 2)>>)
L4 == Leaf(2, <<>>)
Searching == INSTANCE Search WITH
    Indexes <- {<<L1>>, <<L3, L4, L2>>},
    Chains <- {<<"top">>, <<"count">>, <<"early", "top">>, <<"top", "early">>, <<"timeout", "top">>}

NoScoring == scorer = Unused /\ bulk = Unused
NoSets == kind = Unused /\ set = Unused /\ given = Unused /\ sparse = Unused
NoLists == field = Unused /\ files = Unused /\ term = Unused /\ state = Unused /\ at = Unused /\ used = Unused
NoPhrases == doc = Unused /\ groups = Unused /\ checked = Unused /\ reads = Unused
NoSpans == spans = Unused /\ last = Unused
NoSearch == /\ leaves = Unused /\ chain = Unused /\ pc = Unused /\ slices = Unused /\ queue = <<>>
            /\ worker = [w \in Workers |-> Searching!Idle] /\ taskCount = Unused /\ channel = Unused /\ senders = Unused
            /\ pq = Unused /\ total = Unused /\ flags = Unused /\ late = Unused
Init ==
    \/ /\ part = "scorers" /\ Scoring!Init /\ iter = Unused /\ docs = Unused
       /\ NoSets /\ NoLists /\ NoPhrases /\ NoSpans /\ NoSearch
    \/ /\ part = "sets" /\ Sets!Init /\ query = Unused /\ scored = Unused /\ docs = Unused
       /\ NoScoring /\ NoLists /\ NoPhrases /\ NoSpans /\ NoSearch
    \/ /\ part = "postings" /\ Lists!Init /\ query = Unused /\ target = Unused /\ returned = Unused /\ scored = Unused
       /\ docs = Unused /\ NoScoring /\ NoSets /\ NoPhrases /\ NoSpans /\ NoSearch
    \/ /\ part = "phrases" /\ InOrder!Init /\ target = Unused /\ returned = Unused /\ scored = Unused /\ iter = Unused
       /\ NoScoring /\ NoSets /\ NoLists /\ NoSpans /\ NoSearch
    \/ /\ part = "spans" /\ Near1!Init /\ target = Unused /\ returned = Unused /\ iter = Unused
       /\ NoScoring /\ NoSets /\ NoLists /\ NoPhrases /\ NoSearch
    \/ /\ part = "search" /\ Searching!Init /\ query = Unused /\ target = Unused /\ returned = Unused /\ scored = Unused
       /\ iter = Unused /\ docs = Unused /\ NoScoring /\ NoSets /\ NoLists /\ NoPhrases /\ NoSpans
Next ==
    \/ part = "scorers" /\ Scoring!Next
       /\ UNCHANGED <<part, iter, docs, setsOwn, postingsOwn, phrasesOwn, spansOwn, searchOwn>>
    \/ part = "sets" /\ Sets!Next
       /\ UNCHANGED <<part, query, scored, docs, scorersOwn, postingsOwn, phrasesOwn, spansOwn, searchOwn>>
    \/ part = "postings" /\ Lists!Next
       /\ UNCHANGED <<part, query, target, returned, scored, docs, scorersOwn, setsOwn, phrasesOwn, spansOwn, searchOwn>>
    \/ part = "phrases" /\ InOrder!Next
       /\ UNCHANGED <<part, target, returned, scored, iter, scorersOwn, setsOwn, postingsOwn, spansOwn, searchOwn>>
    \/ part = "spans" /\ Near1!Next
       /\ UNCHANGED <<part, target, returned, iter, scorersOwn, setsOwn, postingsOwn, phrasesOwn, searchOwn>>
    \/ part = "search" /\ Searching!Next
       /\ UNCHANGED <<part, query, target, returned, scored, iter, docs, scorersOwn, setsOwn, postingsOwn, phrasesOwn, spansOwn>>
vars == <<part, query, target, returned, scored, iter, docs,
          scorersOwn, setsOwn, postingsOwn, phrasesOwn, spansOwn, searchOwn>>
Spec == Init /\ [][Next]_vars /\ Searching!Fairness

(* Whatever calls of next, advance and score are made, a scorer tree, a doc  *)
(* id set in any of its forms and a postings iterator with any flags stand   *)
(* on the document they should, with its score, frequency and positions      *)
(* (search/scorer, util/doc_id_set.rs, posting_reader.rs).                   *)
IteratorsExact ==
    /\ part = "scorers" => Scoring!ScorersExact
    /\ part = "sets" => Sets!SetsExact /\ Sets!RangesExact
    /\ part = "postings" => Lists!PostingsExact
(* A phrase, exact or sloppy, and a span query match exactly the documents   *)
(* that have their terms in place, with the frequency and the spans counted  *)
(* from the definition (phrase_query.rs, query/spans): a phrase whose reads  *)
(* reach its own lists, from the second document of a leaf on.               *)
PositionsExact ==
    /\ part = "phrases" => InOrder!PhrasesExact
    /\ part = "spans" => Near1!SpansExact
(* However the slices run on the pool and in whatever order leaf collectors  *)
(* answer, a search that returns has the best hits of all leaves, and no     *)
(* task still uses its weight (searcher.rs, thread_pool.rs, top_docs.rs).    *)
SearchExact == part = "search" => Searching!SearchExact
(* Every search returns: no worker sleeps through a task, and the collector  *)
(* is not left waiting for a sender (thread_pool.rs, finish_parallel).       *)
SearchEnds == part = "search" => Searching!SearchEnds
=============================================================================
