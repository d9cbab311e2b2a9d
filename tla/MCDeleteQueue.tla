--------------------------- MODULE MCDeleteQueue ---------------------------
(* The delete queue for TLC: two threads, and one term, or a term and a     *)
(* query, to delete by.                                                     *)
EXTENDS DeleteQueue, TLC

CONSTANTS t1, t2, term, query

two_threads == {t1, t2}
one_term == {term}
term_and_query == {term, query}
one_query == {query}

Symmetry == Permutations(Threads)
=============================================================================
