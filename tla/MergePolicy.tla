---------------------------- MODULE MergePolicy ----------------------------
(***************************************************************************)
(* Which merges the writer registers: TieredMergePolicy (merge_policy.rs), *)
(* called by update_pending_merges after a flush, by force_merge and after *)
(* every merge (index_writer.rs).  The natural merges keep the number of   *)
(* segments within a budget and below a size; a forced merge goes on until *)
(* the segments that were there when it was called have become few.  Both  *)
(* go on at the same time, over the same segments.                         *)
(*                                                                         *)
(* The score that ranks the candidates of a natural merge is abstracted:   *)
(* any candidate may be the best.  Merges run as a whole (SegmentMerges    *)
(* has their steps), and force_merge is called while none is registered    *)
(* (there it would panic: SegmentMerges.NotPoisoned).                      *)
(***************************************************************************)
EXTENDS Integers, Sequences, FiniteSets

CONSTANTS MaxMergeAtOnce, MaxMergeAtOnceExplicit, SegsPerTier,
          MaxMergedBytes, FloorBytes, \* bytes, in small units
          BytesPerDoc,
          FlushSizes,   \* documents of the segments that are flushed
          Forced,       \* the max_num_segments that force_merge is called with
          MaxFlushes, MaxDeletes, MaxForces   \* bounds

VARIABLES infos,     \* SegmentInfos.segments
          merges,    \* the registered merges, pending or running
          toMerge,   \* segments_to_merge: the segment's name -> is_original
          maxNum,    \* merge_max_num_segments
          forcing,   \* force_merge has marked the segments and will look for merges
          flushes, deletes, forces, names

vars == <<infos, merges, toMerge, maxNum, forcing, flushes, deletes, forces, names>>

Sum(set, size(_)) ==
    LET RECURSIVE S(_)
        S(rest) == IF rest = {} THEN 0
                   ELSE LET x == CHOOSE x \in rest : TRUE IN size(x) + S(rest \ {x})
    IN  S(set)

Elements(q) == {q[i] : i \in DOMAIN q}
Most(a, b) == IF a > b THEN a ELSE b

\* MergePolicy::size: pro-rated by the share of deleted documents
SegmentSize(s) == ((s.docs * BytesPerDoc) * (s.docs - s.dels)) \div s.docs

\* SegmentByteSizeDescending::compare
RECURSIVE Sorted(_)
Sorted(set) ==
    IF set = {} THEN <<>>
    ELSE LET first == CHOOSE s \in set : \A o \in set \ {s} :
                         SegmentSize(s) > SegmentSize(o) \/ (SegmentSize(s) = SegmentSize(o) /\ s.name < o.name)
         IN  <<first>> \o Sorted(set \ {first})

Merging == UNION {m.segs : m \in merges}

(* ---------------------------- natural merges --------------------------- *)

\* find_merges: the segments of half the maximal size or more are passed over
TooBig(q) == Cardinality({i \in DOMAIN q : \A j \in 1..i : 2 * SegmentSize(q[j]) >= MaxMergedBytes})

\* find_merges: the lengths of the levels, each of sizes within a factor
\* SegsPerTier of its first; the last level is never added
RECURSIVE Levels(_, _, _)
Levels(q, first, length) ==
    IF q = <<>> THEN <<>>
    ELSE IF first >= SegmentSize(Head(q)) * SegsPerTier
    THEN (IF length > 0 THEN <<length>> ELSE <<>>) \o Levels(Tail(q), SegmentSize(Head(q)), 1)
    ELSE Levels(Tail(q), first, length + 1)

\* find_merges: as many segments as the short levels have are passed over too,
\* the largest ones first
Short(q) ==
    LET levels == Levels(q, 1000000, 0)
    IN  Sum({i \in DOMAIN levels : levels[i] < SegsPerTier}, LAMBDA i : levels[i])

\* find_merges: the budget
RECURSIVE Allowed(_, _)
Allowed(bytesLeft, level) ==
    IF bytesLeft < SegsPerTier * level THEN (bytesLeft + level - 1) \div level
    ELSE SegsPerTier + Allowed(bytesLeft - SegsPerTier * level, level * MaxMergeAtOnce)

\* find_merges: the candidate that starts at i takes what still fits
RECURSIVE Candidate(_, _, _, _)
Candidate(q, i, taken, total) ==
    IF i > Len(q) \/ Len(taken) = MaxMergeAtOnce THEN taken
    ELSE IF total + SegmentSize(q[i]) > MaxMergedBytes THEN Candidate(q, i + 1, taken, total)
    ELSE Candidate(q, i + 1, Append(taken, q[i]), total + SegmentSize(q[i]))
HitTooLarge(q, i, candidate) ==
    \E j \in i..Len(q) : /\ q[j] \notin Elements(candidate)
                         /\ Len(SelectSeq(candidate, LAMBDA s : s \in Elements(SubSeq(q, 1, j)))) < MaxMergeAtOnce

Candidates(q, maxMergeIsRunning) ==
    {Candidate(q, i, <<>>, 0) : i \in {j \in 1..(Len(q) - MaxMergeAtOnce + 1) :
        maxMergeIsRunning => ~HitTooLarge(q, j, Candidate(q, j, <<>>, 0))}}

\* find_merges: one merge after another while the segments that are left
\* exceed the budget; the possible results, each a sequence of merges
RECURSIVE Rounds(_, _, _)
Rounds(q, allowed, running) ==
    LET candidates == IF Len(q) > allowed /\ Len(q) >= MaxMergeAtOnce
                      THEN Candidates(q, running) ELSE {}
        left(c) == SelectSeq(q, LAMBDA s : s \notin Elements(c))
    IN  IF candidates = {} THEN {<<>>}
        ELSE UNION {{<<{s.name : s \in Elements(c)}>> \o r : r \in Rounds(left(c), allowed, running)} :
                       c \in candidates}

FindMerges(segs, merging) ==
    LET all == Sorted(segs)
        big == TooBig(all)
        rest == SubSeq(all, big + 1, Len(all))
        q == SubSeq(rest, Short(rest) + 1, Len(rest))
        least == SegmentSize(all[Len(all)])
        running == Sum({s \in Elements(q) : s.name \in merging}, SegmentSize) >= MaxMergedBytes
        eligible == SelectSeq(q, LAMBDA s : s.name \notin merging)
    IN  IF segs = {} THEN {<<>>}
        ELSE Rounds(eligible, Allowed(Sum(Elements(q), SegmentSize), Most(least, FloorBytes)), running)

(* ---------------------------- forced merges ---------------------------- *)

\* use_compound_file with the default ratio of a tenth, and is_merged
UseCompound(segs, s) == 10 * SegmentSize(s) <= Sum(segs, SegmentSize)
IsMerged(segs, s) == s.dels = 0 /\ UseCompound(segs, s) = s.compound

\* find_forced_merges: the last merges of the explicit size, as many as keep the
\* count above the target
RECURSIVE FullMerges(_, _)
FullMerges(q, target) ==
    IF Len(q) < MaxMergeAtOnceExplicit + target - 1 THEN <<>>
    ELSE <<{s.name : s \in Elements(SubSeq(q, Len(q) - MaxMergeAtOnceExplicit + 1, Len(q)))}>>
         \o FullMerges(SubSeq(q, 1, Len(q) - MaxMergeAtOnceExplicit), target)

\* find_forced_merges: or one merge of the smallest, when no merge is running
LastMerge(q, target) == SubSeq(q, target, Len(q))

FindForcedMerges(segs, merging, target, marked) ==
    LET all == SelectSeq(segs, LAMBDA s : s.name \in DOMAIN marked)
        chosen == SelectSeq(all, LAMBDA s : s.name \notin merging)
        original == all # <<>> /\ marked[all[Len(all)].name]
        q == Sorted(Elements(chosen))
        full == FullMerges(q, target)
    IN  IF \/ chosen = <<>>
           \/ target > 1 /\ Len(chosen) <= target
           \/ target = 1 /\ Len(chosen) = 1
              /\ (~original \/ IsMerged(Elements(segs), chosen[1]))
        THEN <<>>
        ELSE IF full = <<>> /\ Len(all) = Len(chosen) /\ LastMerge(q, target) # <<>>
        THEN <<{s.name : s \in Elements(LastMerge(q, target))}>>
        ELSE full

(* ------------------------------ the writer ----------------------------- *)

Segment(name, docs, dels, compound) ==
    [name |-> name, docs |-> docs, dels |-> dels, compound |-> compound]

Init == /\ infos = <<>> /\ merges = {} /\ toMerge = [n \in {} |-> TRUE]
        /\ maxNum = 0 /\ forcing = FALSE
        /\ flushes = 0 /\ deletes = 0 /\ forces = 0 /\ names = 0

ByName(segs, n) == CHOOSE s \in Elements(segs) : s.name = n

\* register_merge: a merge of a marked segment counts for force_merge
Counts_never(chosen, marked) == FALSE
Counts(chosen, marked) == chosen \cap DOMAIN marked # {}
Register(segs, spec, forced, marked) ==
    {[segs |-> spec[i], forced |-> forced \/ Counts(spec[i], marked), natural |-> ~forced,
      dead |-> Sum(spec[i], LAMBDA n : ByName(segs, n).dels)] : i \in DOMAIN spec}

\* a flush publishes its segment
Flush ==
    /\ flushes < MaxFlushes /\ flushes' = flushes + 1
    /\ \E docs \in FlushSizes :
          infos' = Append(infos, Segment(names, docs, 0, TRUE))
    /\ names' = names + 1
    /\ UNCHANGED <<merges, toMerge, maxNum, forcing, deletes, forces>>

\* deletes are applied to one segment
Delete ==
    /\ deletes < MaxDeletes /\ deletes' = deletes + 1
    /\ \E i \in DOMAIN infos :
          /\ infos[i].dels + 1 < infos[i].docs
          /\ infos' = [infos EXCEPT ![i].dels = @ + 1]
    /\ UNCHANGED <<merges, toMerge, maxNum, forcing, flushes, forces, names>>

\* maybe_merge after a flush: update_pending_merges without a target
MaybeMerge ==
    /\ \E spec \in FindMerges(Elements(infos), Merging) :
          spec # <<>> /\ merges' = merges \union Register(infos, spec, FALSE, toMerge)
    /\ UNCHANGED <<infos, toMerge, maxNum, forcing, flushes, deletes, forces, names>>

\* force_merge: all the segments are marked, under the lock
ForceMerge ==
    /\ forces < MaxForces /\ forces' = forces + 1
    /\ merges = {} /\ ~forcing /\ forcing' = TRUE
    /\ maxNum' \in Forced
    /\ toMerge' = [n \in {s.name : s \in Elements(infos)} |-> TRUE]
    /\ UNCHANGED <<infos, merges, flushes, deletes, names>>

\* force_merge: its maybe_merge, which takes the lock again
ForceMergeFind ==
    /\ forcing /\ forcing' = FALSE
    /\ merges' = merges \union
          Register(infos, FindForcedMerges(infos, Merging, maxNum, toMerge), TRUE, toMerge)
    /\ UNCHANGED <<infos, toMerge, maxNum, flushes, deletes, forces, names>>

\* apply_merge_changes: the merged segment takes the place of the first
RECURSIVE Replaced(_, _, _)
Replaced(segs, gone, new) ==
    IF segs = <<>> THEN <<>>
    ELSE IF Head(segs).name \notin gone
    THEN <<Head(segs)>> \o Replaced(Tail(segs), gone, new)
    ELSE new \o Replaced(Tail(segs), gone, <<>>)

\* commit_merge, then do_merge's update_pending_merges.  A merge that runs for
\* force_merge marks its segment and looks for the next forced merges
FinishMerge ==
    \E m \in merges :
        LET before == {s \in Elements(infos) : s.name \in m.segs}
            dead == Sum(before, LAMBDA s : s.dels)
            docs == Sum(before, LAMBDA s : s.docs) - m.dead
            others == merges \ {m}
            merging == UNION {o.segs : o \in others}
            new == Segment(names, docs, dead - m.dead, FALSE)
            compound == UseCompound(Elements(infos), new)
            after == Replaced(infos, m.segs, <<[new EXCEPT !.compound = compound]>>)
            marked == IF m.forced /\ names \notin DOMAIN toMerge
                      THEN [n \in DOMAIN toMerge \union {names} |-> n # names /\ toMerge[n]]
                      ELSE toMerge
        IN  /\ infos' = after /\ toMerge' = marked /\ names' = names + 1
            /\ IF m.forced
               THEN merges' = others \union
                        Register(after, FindForcedMerges(after, merging, maxNum, marked), TRUE, marked)
               ELSE \E spec \in FindMerges(Elements(after), merging) :
                        merges' = others \union Register(after, spec, FALSE, marked)
            /\ UNCHANGED <<maxNum, forcing, flushes, deletes, forces>>

Next == Flush \/ Delete \/ MaybeMerge \/ ForceMerge \/ ForceMergeFind \/ FinishMerge
Spec == Init /\ [][Next]_vars

(* ------------------------------ properties ----------------------------- *)

\* Whatever natural merges, flushes and deletes came between: when force_merge's
\* wait ends (max_num_segments_merges_pending is false), at most the number it was
\* asked for is left of the segments that were there when it was called, merged or
\* not (index_writer.rs:523-526).  Registered merges never share a segment, and a
\* natural merge never makes a segment beyond the maximal size nor takes one alone.
MergesExact ==
    /\ maxNum > 0 /\ ~forcing /\ (\A m \in merges : ~m.forced)
          => Cardinality({s \in Elements(infos) : s.name \in DOMAIN toMerge}) <= maxNum
    /\ \A m, o \in merges : m # o => m.segs \cap o.segs = {}
    /\ \A m \in merges : m.segs \subseteq {s.name : s \in Elements(infos)}
    /\ \A m \in merges : m.natural =>
          /\ Cardinality(m.segs) > 1
          /\ Sum(m.segs, LAMBDA n : SegmentSize(ByName(infos, n))) <= MaxMergedBytes
============================================================================
