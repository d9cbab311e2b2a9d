----------------------------- MODULE MCFormats ------------------------------
(* What a segment is made of: packed numbers, sorts and doc maps, points, doc *)
(* values, stored fields, the inverted documents, and the deletes and updates *)
(* applied to it.  A behaviour exercises one part; the variables it does not *)
(* use stay at Unused.  Parts that declare a variable of the same name share *)
(* it.  The sizes are the code's constants scaled down until every branch    *)
(* that depends on them is taken.                                            *)
EXTENDS Integers, Sequences
CONSTANTS Packets,     \* what UpdateStream publishes
          SegmentDocs, \* what it flushes
          PrivatePackets
VARIABLES part,
          layout, pages, values, calls,
          array,
          readers, indexSort, maps, merger, emitted,
          leafSize, buffer, merged,
          kind, sort, docs,
          bytes,
          consumer,
          pending, slice, numDocs, segment,
          stream, segs, due, used, last, steps,
          segments, writer, given
Unused == "unused"
packedOwn == <<layout, pages, values, calls>>
mapsOwn == <<readers, indexSort, maps, merger, emitted>>
pointsOwn == <<leafSize, buffer, merged>>
docValuesOwn == <<kind, sort, docs>>
inversionOwn == <<pending, slice, numDocs, segment>>
updatesOwn == <<stream, segs, due, used, last, steps>>

(* A long of 16 bits and a byte of 2, pages of 32 values.                    *)
Lay(ratio, bits, growable) == [ratio |-> ratio, bits |-> bits, growable |-> growable]
PackedLayouts == {Lay(0, 3, TRUE), Lay(25, 3, TRUE), Lay(50, 3, TRUE), Lay(0, 6, TRUE), Lay(0, 10, FALSE)}
Pages == INSTANCE PackedPages WITH
    LongBits <- 16, ByteBits <- 2, SupportedBitsPerValue <- {1, 2, 3, 4, 5, 8}, Layouts <- PackedLayouts,
    PageSize <- 32, StartSize <- 35, MaxSize <- 50, Indices <- {0, 30}, Written <- {1, 700},
    BufferSize <- 5, MaxCalls <- 2
Streams == INSTANCE PackedStreams WITH
    LongBits <- 16, ByteBits <- 2, SupportedBitsPerValue <- {1, 2, 3, 4, 5, 8}, Layouts <- PackedLayouts,
    PageSize <- 32, StartSize <- 35, MaxSize <- 50, Indices <- {0, 3, 30}, Written <- {1, 700},
    BufferSize <- 5, MaxCalls <- 1,
    Memory <- 90, BlockSize <- 8, DirectWidths <- {1, 2, 3, 4, 5, 6, 7, 8, 10, 12, 14, 16}

(* Keys of up to two bytes out of three, with prefixes of one another.       *)
Sorts == INSTANCE Sorters WITH
    Alphabet <- 3, MaxLength <- 2, BinaryThreshold <- 3, LengthThreshold <- 3, LevelThreshold <- 2, MaxElements <- 5,
    Elements <- {<<>>, <<0>>, <<1>>, <<0, 0>>, <<0, 1>>, <<1, 0>>, <<1, 1>>}
Maps == INSTANCE MergeMaps WITH Keys <- {0, 2}, MissingKeys <- {0, 1}, Descending <- FALSE, MaxReaders <- 2, MaxDocs <- 2

(* One dimension of two bits, so that leaves share prefixes.                 *)
Tree == INSTANCE Points WITH
    NumDims <- 1, BytesPerDim <- 2, Byte <- 2, RunMax <- 2, AllEqual <- 255, NarrowDoc <- 100, LeafSizes <- {1, 2},
    Values <- {<<0, 0>>, <<1, 0>>}, MaxPoints <- 4, MaxSegments <- 2, Deletes <- TRUE
(* Two dimensions of a bit, for the tree that is built from the heap.        *)
Tree2 == INSTANCE Points WITH
    NumDims <- 2, BytesPerDim <- 1, Byte <- 2, RunMax <- 2, AllEqual <- 255, NarrowDoc <- 100, LeafSizes <- {2, 3},
    Values <- {<<0, 0>>, <<0, 1>>, <<1, 0>>, <<1, 1>>}, MaxPoints <- 4, MaxSegments <- 1, Deletes <- FALSE

(* Longs of 5 bits, with the least, the greatest and a common divisor.       *)
Columns == INSTANCE DocValues WITH
    LongBits <- 5, Widths <- {1, 2, 3, 4, 5}, TableMax <- 2, DictMax <- 4, ListNumbers <- {0, 1, 4}, SparseMin <- 3,
    SparsePercent <- 60, IntervalShift <- 1, ReverseShift <- 2, ByteMax <- 2,
    Kinds <- {"numeric", "binary", "sorted", "sortednumeric", "sortedset"}, Numbers <- {-16, -1, 0, 4, 8, 15},
    Strings <- {<<0>>, <<0, 1>>, <<1, 0, 1, 1>>}, MaxDocs <- 3, MaxSegments <- 2, MaxValues <- 2, WordBits <- 2

Lz4 == INSTANCE Compression WITH
    Byte <- 4, Digit <- 3, MinMatch <- 2, LastLiterals <- 2, MaxDistance <- 7, HashSize <- 2,
    Alphabet <- {0, 1, 2}, MaxLength <- 8
(* Documents without stored fields, and one larger than a chunk.             *)
StoredField(n, k, v) == [name |-> n, kind |-> k, value |-> v]
Float == [int |-> 3, near |-> FALSE, exact |-> FALSE, negative |-> FALSE, negativeZero |-> FALSE, float |-> FALSE]
Stored == INSTANCE StoredFields WITH
    ChunkSize <- 4, MaxDocsPerChunk <- 3, IndexBlock <- 2, DirtyFactor <- 2, DirtyLimit <- 1, LowBits <- 4, MaxDocs <- 3,
    MaxSegments <- 2, Failures <- TRUE, Units <- <<2, 4, 8>>,
    Numberings <- {[a |-> 0, b |-> 1], [a |-> 1, b |-> 0]},
    Documents <- {<<>>, <<StoredField("a", "int", -3)>>, <<StoredField("a", "string", <<1>>)>>,
                  <<StoredField("b", "string", <<1, 2, 3, 4, 5, 6, 7>>)>>,
                  <<StoredField("a", "long", 12), StoredField("b", "float", Float)>>}

(* Three fields (docs only, freqs, offsets); slices of 5, 6 and 8 bytes and  *)
(* blocks of 48, so that slices grow and blocks run out; a position over the *)
(* limit, offsets that go back, a term too long for a block.                 *)
Token(t, inc, s, e, p) == [term |-> t, inc |-> inc, start |-> s, end |-> e, payload |-> p]
Value(f, tokens, gap, final) == [field |-> f, tokens |-> tokens, gap |-> gap, final |-> final]
A == <<1>>
B == <<1, 2>>
Long == [i \in 1 .. 17 |-> 3]
Inverted ==
    {<<Value(3, <<Token(A, 1, 0, 1, <<>>), Token(B, 1, 2, 4, <<7, 7>>), Token(A, 9, 5, 6, <<9>>)>>, 0, 6),
       Value(1, <<Token(A, 1, 0, 1, <<>>), Token(B, 1, 0, 1, <<>>)>>, 0, 1)>>,
     <<Value(2, <<Token(A, 1, 0, 1, <<>>), Token(A, 1, 0, 1, <<>>), Token(<<>>, 1, 0, 1, <<>>)>>, 0, 1),
       Value(3, <<Token(B, 1, 0, 9, <<>>), Token(B, 0, 3, 4, <<>>)>>, 3, 19),
       Value(3, <<Token(B, 1, 0, 2, <<5>>), Token(Long, 1, 2, 3, <<>>)>>, 0, 3)>>,
     <<Value(3, <<Token(A, 1, 4, 5, <<>>), Token(B, 1, 2, 3, <<>>)>>, 0, 5)>>,
     <<Value(1, <<Token(<<0>>, 1, 0, 1, <<>>), Token(A, 1, 0, 1, <<>>), Token(<<2>>, 1, 0, 1, <<>>),
                  Token(Long, 1, 0, 1, <<>>)>>, 0, 1)>>}
Inverting == INSTANCE Inversion WITH
    Byte <- 32, BlockSize <- 48, IntBlock <- 8, LevelSizes <- <<5, 6, 8>>, HashSize <- 4, FlushBytes <- 100,
    Options <- <<1, 2, 4>>, Documents <- Inverted, DeletedTerms <- {<<1, A>>, <<3, B>>}, MaxPosition <- 40,
    MaxDocs <- 3, MaxDeletes <- 1, NoMoreDocs <- 99

(* Three packets of deletes, queries and updates, two shapes of segment.     *)
Updates == INSTANCE UpdateStream WITH Globals <- Packets, Privates <- PrivatePackets, Flushed <- SegmentDocs, MaxSteps <- 4
NoLimit == 1000
T(b) == [field |-> 1, bytes |-> b]
Del(t) == [kind |-> "term", term |-> t, limit |-> NoLimit]
Query(t, limit) == [kind |-> "query", term |-> t, limit |-> limit]
Update(t, v, limit) == [kind |-> "update", term |-> t, value |-> v, limit |-> limit]
Doc(ts, v) == [terms |-> ts, value |-> v]
DistinctTerms ==
    << <<Del(T(<<1>>)), Update(T(<<1, 2>>), 5, NoLimit)>>,
       <<Update(T(<<1, 2>>), 6, NoLimit), Del(T(<<1, 1>>)), Query(T(<<2>>), NoLimit)>>,
       <<Update(T(<<3>>), 7, NoLimit), Del(T(<<1, 3, 1>>)), Del(T(<<1, 3>>))>> >>
SameTerm == << <<Del(T(<<1>>))>>, <<Del(T(<<1>>))>> >>
TwoPrivate == {<<>>, <<Query(T(<<1>>), 1), Update(T(<<3>>), 8, 2)>>}
TwoSegments ==
    {<<Doc({T(<<1>>)}, 1), Doc({T(<<1, 2>>), T(<<1, 1>>)}, 2), Doc({T(<<3>>), T(<<1, 3>>)}, 3)>>,
     <<Doc({T(<<1, 2>>)}, 1), Doc({T(<<2>>), T(<<1, 3, 1>>)}, 2), Doc({T(<<3>>), T(<<1>>)}, 3)>>}

NoPacked == layout = Unused /\ pages = Unused /\ values = Unused /\ calls = Unused
NoMaps == readers = Unused /\ indexSort = Unused /\ maps = Unused /\ merger = Unused /\ emitted = Unused
NoPoints == leafSize = Unused /\ buffer = Unused /\ merged = Unused
NoDocValues == kind = Unused /\ sort = Unused /\ docs = Unused
NoInversion == pending = Unused /\ slice = Unused /\ numDocs = Unused /\ segment = Unused
NoUpdates == stream = Unused /\ segs = Unused /\ due = Unused /\ used = Unused /\ last = Unused /\ steps = Unused
NoSegments == segments = Unused /\ writer = Unused /\ given = Unused

InitPacked == /\ array = Unused /\ bytes = Unused /\ consumer = Unused
              /\ NoMaps /\ NoPoints /\ NoDocValues /\ NoInversion /\ NoUpdates /\ NoSegments
InitPoints == /\ array = Unused /\ bytes = Unused /\ consumer = Unused /\ writer = Unused /\ given = Unused
              /\ NoPacked /\ NoMaps /\ NoDocValues /\ NoInversion /\ NoUpdates
Init ==
    \/ part = "pages" /\ Pages!Init /\ InitPacked
    \/ part = "streams" /\ Streams!Init /\ InitPacked
    \/ /\ part = "sorts" /\ Sorts!Init /\ bytes = Unused /\ consumer = Unused
       /\ NoPacked /\ NoMaps /\ NoPoints /\ NoDocValues /\ NoInversion /\ NoUpdates /\ NoSegments
    \/ /\ part = "maps" /\ Maps!Init /\ array = Unused /\ bytes = Unused /\ consumer = Unused
       /\ NoPacked /\ NoPoints /\ NoDocValues /\ NoInversion /\ NoUpdates /\ NoSegments
    \/ part = "points" /\ Tree!Init /\ InitPoints
    \/ part = "tree" /\ Tree2!Init /\ InitPoints
    \/ /\ part = "doc values" /\ Columns!Init /\ array = Unused /\ bytes = Unused /\ consumer = Unused
       /\ NoPacked /\ NoMaps /\ NoPoints /\ NoInversion /\ NoUpdates /\ given = Unused
    \/ /\ part = "compression" /\ Lz4!Init /\ array = Unused /\ consumer = Unused
       /\ NoPacked /\ NoMaps /\ NoPoints /\ NoDocValues /\ NoInversion /\ NoUpdates /\ NoSegments
    \/ /\ part = "stored fields" /\ Stored!Init /\ array = Unused /\ bytes = Unused
       /\ NoPacked /\ NoMaps /\ NoPoints /\ NoDocValues /\ NoInversion /\ NoUpdates
    \/ /\ part = "inversion" /\ Inverting!Init /\ array = Unused /\ bytes = Unused /\ consumer = Unused
       /\ NoPacked /\ NoMaps /\ NoPoints /\ NoDocValues /\ NoUpdates /\ segments = Unused
    \/ /\ part = "updates" /\ Updates!Init /\ array = Unused /\ bytes = Unused /\ consumer = Unused
       /\ NoPacked /\ NoMaps /\ NoPoints /\ NoDocValues /\ NoInversion /\ NoSegments
segmentsOwn == <<segments, writer, given>>
Next ==
    \/ part = "pages" /\ Pages!Next
       /\ UNCHANGED <<part, array, bytes, consumer, mapsOwn, pointsOwn, docValuesOwn, inversionOwn, updatesOwn, segmentsOwn>>
    \/ part = "streams" /\ Streams!Next
       /\ UNCHANGED <<part, array, bytes, consumer, mapsOwn, pointsOwn, docValuesOwn, inversionOwn, updatesOwn, segmentsOwn>>
    \/ part = "sorts" /\ Sorts!Next
       /\ UNCHANGED <<part, bytes, consumer, packedOwn, mapsOwn, pointsOwn, docValuesOwn, inversionOwn, updatesOwn, segmentsOwn>>
    \/ part = "maps" /\ Maps!Next
       /\ UNCHANGED <<part, array, bytes, consumer, packedOwn, pointsOwn, docValuesOwn, inversionOwn, updatesOwn, segmentsOwn>>
    \/ part = "points" /\ Tree!Next
       /\ UNCHANGED <<part, array, bytes, consumer, packedOwn, mapsOwn, docValuesOwn, inversionOwn, updatesOwn, writer, given>>
    \/ part = "tree" /\ Tree2!Next
       /\ UNCHANGED <<part, array, bytes, consumer, packedOwn, mapsOwn, docValuesOwn, inversionOwn, updatesOwn, writer, given>>
    \/ part = "doc values" /\ Columns!Next
       /\ UNCHANGED <<part, array, bytes, consumer, packedOwn, mapsOwn, pointsOwn, inversionOwn, updatesOwn, given>>
    \/ part = "compression" /\ Lz4!Next
       /\ UNCHANGED <<part, array, consumer, packedOwn, mapsOwn, pointsOwn, docValuesOwn, inversionOwn, updatesOwn, segmentsOwn>>
    \/ part = "stored fields" /\ Stored!Next
       /\ UNCHANGED <<part, array, bytes, packedOwn, mapsOwn, pointsOwn, docValuesOwn, inversionOwn, updatesOwn>>
    \/ part = "inversion" /\ Inverting!Next
       /\ UNCHANGED <<part, array, bytes, consumer, packedOwn, mapsOwn, pointsOwn, docValuesOwn, updatesOwn, segments>>
    \/ part = "updates" /\ Updates!Next
       /\ UNCHANGED <<part, array, bytes, consumer, packedOwn, mapsOwn, pointsOwn, docValuesOwn, inversionOwn, segmentsOwn>>
vars == <<part, array, bytes, consumer, packedOwn, mapsOwn, pointsOwn, docValuesOwn, inversionOwn, updatesOwn, segmentsOwn>>
Spec == Init /\ [][Next]_vars

(* Numbers come back from packed arrays as they were stored, whatever layout *)
(* was chosen and however it grew, was resized or copied in bulk, and from   *)
(* every packed file format (packed_misc.rs, packed_long_values.rs).         *)
NumbersExact ==
    /\ part = "pages" => Pages!PagesExact /\ Pages!BulkReadsExact
    /\ part = "streams" => Streams!StreamsExact
(* The sorts of util/sorter.rs order any array, and the doc maps of a merge  *)
(* (merge_state.rs, doc_id_merger.rs) hand out the live documents in their   *)
(* new order.                                                                *)
OrdersExact ==
    /\ part = "sorts" => Sorts!SortsExact
    /\ part = "maps" => Maps!MergeOrderExact
(* A range query over a points file (bkd_reader.rs) returns exactly the docs *)
(* with a point in the range, after a flush and after a merge; a tree in two *)
(* dimensions (bkd_writer.rs, build) holds every point in exactly one leaf.  *)
PointsExact ==
    /\ part = "points" => Tree!QueriesExact /\ Tree!MergeKeepsPoints
    /\ part = "tree" => Tree2!BuildPartitions
(* Doc values and stored fields are read back as they were given, document   *)
(* by document, from whichever format the writer chose, after any merge.     *)
DocumentsExact ==
    /\ part = "doc values" => Columns!DocValuesExact
    /\ part = "compression" => Lz4!CompressionExact
    /\ part = "stored fields" => Stored!StoredExact
(* A flush writes, for every term, exactly the live documents, frequencies,  *)
(* positions and offsets of the tokens it was given (doc_consumer.rs and     *)
(* terms_hash.rs), whatever slices and pools they were buffered in.          *)
InversionExact == part = "inversion" => Inverting!InversionExact
(* Once the stream was applied, a document of any segment lives exactly when *)
(* no packet frozen after its segment deletes it, and has the value of the   *)
(* last update ("so we can track which BufferedDeletes packets to apply to   *)
(* any given segment", bufferd_updates.rs:283-286).                          *)
AppliedExact == part = "updates" => Updates!AppliedExact
=============================================================================
