------------------------------ MODULE Sorters ------------------------------
(* The sorts of sorter.rs: the radix sort on most significant bytes, the     *)
(* introspective sort it falls back to (quick sort, binary insertion below a *)
(* threshold, heap sort when the recursion is too deep), the merge in place, *)
(* and the radix sort on least significant bytes.  An element is the         *)
(* sequence of its bytes, of any length; None, the byte past its end, is -1  *)
(* and is less than every byte.  Indices are those of the code, from 0.      *)
EXTENDS Integers, Sequences, FiniteSets, FiniteSetsExt, SequencesExt
CONSTANTS Alphabet,        \* the number of byte values: 256
          MaxLength,       \* max_length of a key
          BinaryThreshold, \* BINARY_SORT_THRESHOLD
          LengthThreshold, \* LENGTH_THRESHOLD of the radix sort
          LevelThreshold,  \* LEVEL_THRESHOLD
          Elements,        \* the elements that are added
          MaxElements      \* bound: how many are
VARIABLE array
vars == <<array>>

Element(a, i) == a[i + 1]
ByteAt(e, k) == IF k < Len(e) THEN e[k + 1] ELSE -1
Swap(a, i, j) == [a EXCEPT ![i + 1] = Element(a, j), ![j + 1] = Element(a, i)]
RECURSIVE CompareFrom(_, _, _)
CompareFrom(e, f, k) ==
    CASE k >= MaxLength -> 0
      [] k < MaxLength /\ ByteAt(e, k) # ByteAt(f, k) -> IF ByteAt(e, k) < ByteAt(f, k) THEN -1 ELSE 1
      [] OTHER -> IF ByteAt(e, k) = -1 THEN 0 ELSE CompareFrom(e, f, k + 1)
Compare(a, i, j, k) == CompareFrom(Element(a, i), Element(a, j), k)

(***************************************************************************)
(* Sorter: what an array from..to-1 becomes when keys are compared from    *)
(* their byte k on.                                                        *)
(***************************************************************************)
RECURSIVE InsertionPoint(_, _, _, _, _)
InsertionPoint(a, pivot, l, h, k) ==
    IF l > h THEN l
    ELSE LET mid == (l + h) \div 2
         IN  IF CompareFrom(pivot, Element(a, mid), k) = -1
             THEN InsertionPoint(a, pivot, l, mid - 1, k)
             ELSE InsertionPoint(a, pivot, mid + 1, h, k)
RECURSIVE BinarySort(_, _, _, _, _)
BinarySort(a, from, i, to, k) ==
    IF i >= to THEN a
    ELSE LET l     == InsertionPoint(a, Element(a, i), from, i - 1, k)
             moved == [p \in DOMAIN a |-> CASE p - 1 = l -> Element(a, i)
                                            [] l < p - 1 /\ p - 1 <= i -> a[p - 1]
                                            [] OTHER -> a[p]]
         IN  BinarySort(moved, from, i + 1, to, k)

HeapParent(from, i) == (i - 1 - from) \div 2 + from
HeapChild(from, i) == 2 * (i - from) + 1 + from
RECURSIVE SiftDown(_, _, _, _, _)
SiftDown(a, i, from, to, k) ==
    LET left  == HeapChild(from, i)
        right == left + 1
        Under(c, d) == c < to /\ d < to /\ Compare(a, c, d, k) = -1
    IN  IF left >= to THEN a
        ELSE IF Under(i, left)
             THEN LET c == IF Under(left, right) THEN right ELSE left IN SiftDown(Swap(a, i, c), c, from, to, k)
             ELSE IF Under(i, right) THEN SiftDown(Swap(a, i, right), right, from, to, k) ELSE a
RECURSIVE Heapify(_, _, _, _, _)
Heapify(a, i, from, to, k) == IF i < from THEN a ELSE Heapify(SiftDown(a, i, from, to, k), i - 1, from, to, k)
RECURSIVE Unheap(_, _, _, _)
Unheap(a, from, end, k) ==
    IF end <= from THEN a ELSE Unheap(SiftDown(Swap(a, from, end), from, from, end, k), from, end - 1, k)
HeapSort(a, from, to, k) ==
    IF to - from <= 1 THEN a ELSE Unheap(Heapify(a, HeapParent(from, to - 1), from, to, k), from, to - 1, k)

\* The two pointers of a partition run until they meet: [a, left].
RECURSIVE Partition(_, _, _, _, _)
Partition(a, left, right, pivot, k) ==
    LET r == Max({p \in 0..right : CompareFrom(pivot, Element(a, p), k) # -1})
        l == Min({p \in left..Max({left, r}) : p >= r \/ CompareFrom(pivot, Element(a, p), k) = -1})
    IN  IF l < r THEN Partition(Swap(a, l, r), l, r - 1, pivot, k) ELSE [a |-> a, left |-> l]
Ordered2(a, i, j, k) == IF Compare(a, i, j, k) = 1 THEN Swap(a, i, j) ELSE a
RECURSIVE QuickSort(_, _, _, _, _)
QuickSort(a, from, to, k, maxDepth) ==
    IF to - from < BinaryThreshold THEN BinarySort(a, from, from + 1, to, k)
    ELSE IF maxDepth - 1 < 0 THEN HeapSort(a, from, to, k)
    ELSE LET mid == (from + to) \div 2
             b   == Ordered2(a, from, mid, k)
             c   == IF Compare(b, mid, to - 1, k) = 1 THEN Ordered2(Swap(b, mid, to - 1), from, mid, k) ELSE b
             p   == Partition(c, from + 1, to - 2, Element(c, mid), k)
         IN  QuickSort(QuickSort(p.a, from, p.left + 1, k, maxDepth - 1), p.left + 1, to, k, maxDepth - 1)

\* merge_in_place: from..mid-1 and mid..to-1 are sorted.
Lower(a, from, to, val, k) == Min({to} \cup {p \in from..to - 1 : Compare(a, p, val, k) # -1})
Upper(a, from, to, val, k) == Min({to} \cup {p \in from..to - 1 : Compare(a, val, p, k) = -1})
\* The release build: rotate first asserts low < mid < high, which the cuts
\* of merge_in_place do not keep ([0, 2 | 1] is cut at 1, 2, 2), so that a debug
\* build ends here.
Rotate(a, low, mid, high) ==
    IF low = mid \/ mid = high THEN a
    ELSE SubSeq(a, 1, low) \o SubSeq(a, mid + 1, high) \o SubSeq(a, low + 1, mid) \o SubSeq(a, high + 1, Len(a))
RECURSIVE MergeInPlace(_, _, _, _, _)
MergeInPlace(a, from, mid, to, k) ==
    IF from = mid \/ mid = to \/ Compare(a, mid - 1, mid, k) # 1 THEN a
    ELSE IF to - from = 2 THEN Swap(a, mid - 1, mid)
    ELSE LET f == Min({p \in from..mid : Compare(a, p, mid, k) = 1})
             t == Max({p \in mid..to : Compare(a, mid - 1, p - 1, k) = 1})
             first  == IF mid - f > t - mid THEN f + (mid - f) \div 2
                       ELSE Upper(a, f, mid, mid + (t - mid) \div 2, k)
             second == IF mid - f > t - mid THEN Lower(a, mid, t, first, k) ELSE mid + (t - mid) \div 2
             new    == first + (second - mid)
             b      == Rotate(a, first, mid, second)
         IN  MergeInPlace(MergeInPlace(b, f, first, new, k), new, second, t, k)

(***************************************************************************)
(* MSBRadixSorter: buckets by byte k, then each bucket by the next byte.   *)
(***************************************************************************)
Bucket(a, i, k) == ByteAt(Element(a, i), k) + 1
CommonPrefixLength(a, from, to, k) ==
    LET own == Element(a, from)
        most == Min({MaxLength - k} \cup {j \in 1..MaxLength - k : ByteAt(own, k + j - 1) = -1})
    IN  Max({n \in 0..most : \A i \in from..to - 1, j \in 0..n - 1 :
                               ByteAt(Element(a, i), k + j) = ByteAt(own, k + j)})
\* [start, end]: sum_histogram, the offsets where the buckets begin and end.
SumHistogram(a, from, to, k) ==
    LET Count(b) == Cardinality({i \in from..to - 1 : Bucket(a, i, k) < b})
    IN  [start |-> [b \in 0..Alphabet |-> Count(b)], end |-> [b \in 0..Alphabet |-> Count(b + 1)]]
RECURSIVE Reorder(_, _, _, _, _, _)
Reorder(a, from, k, start, end, b) ==
    CASE b > Alphabet -> a
      [] b <= Alphabet /\ start[b] >= end[b] -> Reorder(a, from, k, start, end, b + 1)
      [] OTHER -> LET own == Bucket(a, from + start[b], k)
                  IN  Reorder(Swap(a, from + start[b], from + start[own]), from, k,
                              [start EXCEPT ![own] = @ + 1], end, b)
Log2(n) == Max({e \in 0..n : 2^e <= n})
RECURSIVE SortInner(_, _, _, _, _, _), SortBuckets(_, _, _, _, _, _, _)
SortInner(a, from, to, k, l, factor) ==
    IF to - from <= LengthThreshold \/ l >= LevelThreshold
    THEN QuickSort(a, from, to, k, IF to = from THEN 0 ELSE factor * Log2(to - from))
    ELSE LET common == CommonPrefixLength(a, from, to, k)
             none   == Cardinality({i \in from..to - 1 : Bucket(a, i, k) = 0})
             h      == SumHistogram(a, from, to, k)
             sorted == Reorder(a, from, k, h.start, h.end, 0)
         IN  CASE common > 0 -> IF k + common < MaxLength /\ none < to - from
                                THEN SortInner(a, from, to, k + common, l, factor) ELSE a
               [] common = 0 -> IF k + 1 < MaxLength THEN SortBuckets(sorted, from, h.end, 1, k, l, factor)
                                ELSE sorted
\* Mutant: a bucket of two elements is taken for sorted.
SortBuckets_two(a, from, end, b, k, l, factor) ==
    IF b > Alphabet THEN a
    ELSE SortBuckets(IF end[b] - end[b - 1] > 2 THEN SortInner(a, from + end[b - 1], from + end[b], k + 1, l + 1, factor)
                     ELSE a, from, end, b + 1, k, l, factor)
SortBuckets(a, from, end, b, k, l, factor) ==
    IF b > Alphabet THEN a
    ELSE SortBuckets(IF end[b] - end[b - 1] > 1 THEN SortInner(a, from + end[b - 1], from + end[b], k + 1, l + 1, factor)
                     ELSE a, from, end, b + 1, k, l, factor)
MsbSort(a, factor) == SortInner(a, 0, Len(a), 0, 0, factor)

(***************************************************************************)
(* LSBRadixSorter, on numbers of two bytes.                                *)
(***************************************************************************)
Digit(v, shift) == (v \div Alphabet^shift) % Alphabet
SortHistogram(a, shift) ==
    LET Before(j, i) == \/ Digit(a[j], shift) < Digit(a[i], shift)
                        \/ Digit(a[j], shift) = Digit(a[i], shift) /\ j <= i
        Place(i) == Cardinality({j \in DOMAIN a : Before(j, i)})
    IN  IF \A i \in DOMAIN a : Digit(a[i], shift) = 0 THEN a
        ELSE [p \in DOMAIN a |-> a[CHOOSE i \in DOMAIN a : Place(i) = p]]
LsbSort(a) == SortHistogram(SortHistogram(a, 0), 1)

Init == array = <<>>
Add == /\ Len(array) < MaxElements
       /\ \E e \in Elements : array' = Append(array, e)
Next == Add
Spec == Init /\ [][Next]_vars

Number(e) == (ByteAt(e, 0) + 1) * Alphabet + ByteAt(e, 1) + 1
InOrder(a) == \A i \in 0..Len(a) - 2 : Compare(a, i, i + 1, 0) # 1
Permuted(a, b) == \A e \in Range(a) \cup Range(b) : Cardinality({i \in DOMAIN a : a[i] = e}) = Cardinality({i \in DOMAIN b : b[i] = e})

(* Every sort puts the array in order and loses or repeats no element,     *)
(* whichever of its branches the thresholds select: the radix sort with    *)
(* and without a common prefix, insertion, the quick sort and the heap     *)
(* sort it turns to when its depth is used up (factor 0 here), the merge   *)
(* of two sorted halves in place, the two passes of the stable sort.       *)
SortsExact ==
    /\ \A factor \in {0, 2} : LET s == MsbSort(array, factor) IN InOrder(s) /\ Permuted(array, s)
    /\ LET mid    == Len(array) \div 2
           halves == QuickSort(QuickSort(array, 0, mid, 0, 2), mid, Len(array), 0, 2)
           s      == MergeInPlace(halves, 0, mid, Len(array), 0)
       IN  InOrder(s) /\ Permuted(array, s)
    /\ LET numbers == [i \in DOMAIN array |-> Number(array[i])]
           s       == LsbSort(numbers)
       IN  (\A i \in 1..Len(s) - 1 : s[i] <= s[i + 1]) /\ Permuted(numbers, s)
=============================================================================
