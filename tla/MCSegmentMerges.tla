-------------------------- MODULE MCSegmentMerges --------------------------
(* SegmentMerges on two segments that share a key. *)
EXTENDS SegmentMerges
TwoSegments == <<<<"a", "b">>, <<"a">>>>
SomeUpdates == {<<"a", "del">>, <<"b", "del">>, <<"a", "upd">>}
ValueUpdates == {<<"a", "del">>, <<"a", "upd">>, <<"b", "upd">>}
EachBound == [packet |-> 2, flush |-> 1, merge |-> 2, reader |-> 1, write |-> 1, stop |-> 1, fault |-> 1]
UpdateBound == [EachBound EXCEPT !["packet"] = 3]
=============================================================================
