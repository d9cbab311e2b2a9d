------------------------- MODULE IndexCommitProofs -------------------------
(***************************************************************************)
(* Commits survive: proofs about IndexCommit, for any bounds, with crashes *)
(* at any step and with a commit whose writes, syncs and renames may fail. *)
(*                                                                         *)
(* Safe says of every directory that a crash could leave that its commits  *)
(* can be read and that it has what was acknowledged.  The first part      *)
(* shows what each operation of the directory does to all of these         *)
(* directories at once (Follows, JournalSafe).  Deleter says what the      *)
(* counts of IndexFileDeleter are made of, and Writer what a writer relies *)
(* on: that the names and generations it gives next are new, and what is   *)
(* there of a commit at each of its steps.  Inv puts them together; one    *)
(* lemma for each action shows that it is kept.                            *)
(*                                                                         *)
(* All but the failure of the directory sync after the rename ("meta") is  *)
(* covered: there the commit is given up although its segments_N exists,   *)
(* and CommitsReadable does not hold (README, section 6).  The last parts  *)
(* are about what a writer writes, which is never there already            *)
(* (WritesFresh), and about what it leaves in the directory: no operation  *)
(* of the deleter makes a file that nobody counts (FilesWanted).           *)
(***************************************************************************)
EXTENDS IndexCommit, FiniteSetTheorems, FunctionTheorems, SequenceTheorems, WellOrder

-----------------------------------------------------------------------------
(* Names of files, and directories. *)

IsFile(f) ==
  \E s, g \in Nat : f \in {Core(s), Live(s, g), Dv(s, g), Pending(s), Segments(s)}

\* What is in a name.
LEMMA FileFacts ==
  ASSUME NEW f, IsFile(f)
  PROVE  /\ f[1] \in {"core", "liv", "dv", "pending_segments", "segments"}
         /\ f[2] \in Nat /\ f[3] \in Nat
         /\ IsSegments(f) => f = Segments(f[2])
         /\ f[1] = "pending_segments" => f = Pending(f[2])
         /\ f[1] = "core" => f = Core(f[2])
         /\ f[1] = "liv" => f = Live(f[2], f[3])
         /\ f[1] = "dv" => f = Dv(f[2], f[3])
BY DEF IsFile, Core, Live, Dv, Pending, Segments, IsSegments

\* The names of the files of segments and of commits.
LEMMA NameFacts ==
  ASSUME NEW s \in Nat, NEW g \in Nat
  PROVE  /\ IsFile(Core(s)) /\ IsFile(Live(s, g)) /\ IsFile(Dv(s, g))
         /\ IsFile(Pending(s)) /\ IsFile(Segments(s))
         /\ ~ IsCommitFile(Core(s)) /\ ~ IsCommitFile(Live(s, g)) /\ ~ IsCommitFile(Dv(s, g))
         /\ IsCommitFile(Pending(s)) /\ IsCommitFile(Segments(s))
         /\ IsSegments(Segments(s)) /\ ~ IsSegments(Pending(s))
         /\ ~ IsSegments(Core(s)) /\ ~ IsSegments(Live(s, g)) /\ ~ IsSegments(Dv(s, g))
BY DEF IsFile, Core, Live, Dv, Pending, Segments, IsSegments, IsCommitFile

\* A directory: its files have names, and those of commits hold a SegmentInfos.
IsState(f, e) ==
  /\ e.st \in {"dirty", "synced", "torn"} /\ e = [st |-> e.st, val |-> e.val]
  /\ IsCommitFile(f) => IsInfos(e.val)
IsDir(d) ==
  /\ d = [f \in DOMAIN d |-> d[f]] /\ IsFiniteSet(DOMAIN d)
  /\ \A f \in DOMAIN d : IsFile(f) /\ IsState(f, d[f])

LEMMA GenerationsAre ==
  ASSUME NEW d, IsDir(d)
  PROVE  /\ \A n : n \in GenerationsIn(d) <=> Segments(n) \in DOMAIN d
         /\ GenerationsIn(d) \subseteq Nat
<1>1. \A f \in DOMAIN d : IsFile(f)
  BY DEF IsDir
<1>2. \A n : IsSegments(Segments(n)) /\ Segments(n)[2] = n
  BY DEF IsSegments, Segments
<1> QED
  BY <1>1, <1>2, FileFacts DEF GenerationsIn

-----------------------------------------------------------------------------
(* The commits that the policy drops, released one after the other. *)

Steps(x, k) ==
  CHOOSE y : y = [i \in 0..k |-> IF i = 0 THEN x ELSE DecRefFiles(y[i - 1], x.commits[i].files)]

\* There is such a sequence of stores.
LEMMA StepsExist ==
  ASSUME NEW x, NEW k \in Nat
  PROVE  \E y : y = [i \in 0..k |-> IF i = 0 THEN x ELSE DecRefFiles(y[i - 1], x.commits[i].files)]
<1> DEFINE Are(y, n) == y = [i \in 0..n |-> IF i = 0 THEN x ELSE DecRefFiles(y[i - 1], x.commits[i].files)]
           Bad == {n \in Nat : ~ \E y : Are(y, n)}
<1> HIDE DEF Are
<1>1. SUFFICES ASSUME Bad # {} PROVE FALSE
  BY DEF Are
<1>2. PICK n \in Bad : \A m \in Bad : n <= m
  BY <1>1, LeastNat
<1>3. CASE n = 0
  <2> DEFINE y == [i \in 0..0 |-> x]
  <2>1. \A i \in 0..0 : i = 0
    OBVIOUS
  <2>2. y = [i \in 0..0 |-> IF i = 0 THEN x ELSE DecRefFiles(y[i - 1], x.commits[i].files)]
    BY <2>1
  <2> QED
    BY <2>2, <1>3 DEF Are
<1>4. CASE n # 0
  <2>1. n - 1 \in Nat /\ n - 1 \notin Bad
    BY <1>2, <1>4
  <2>2. PICK z : Are(z, n - 1)
    BY <2>1
  <2>3. \A i \in 0..n - 1 : z[i] = IF i = 0 THEN x ELSE DecRefFiles(z[i - 1], x.commits[i].files)
    BY <2>2 DEF Are
  <2> DEFINE y == [i \in 0..n |-> IF i = n THEN DecRefFiles(z[n - 1], x.commits[n].files) ELSE z[i]]
  <2>4. ASSUME NEW i \in 0..n
        PROVE  y[i] = IF i = 0 THEN x ELSE DecRefFiles(y[i - 1], x.commits[i].files)
    <3>1. CASE i = n
      BY <3>1, <1>4, <2>1
    <3>2. CASE i # n
      <4>1. i \in 0..n - 1
        BY <3>2, <1>2
      <4>2. i # 0 => i - 1 \in 0..n /\ i - 1 # n
        BY <4>1
      <4> QED
        BY <4>1, <4>2, <2>3
    <3> QED
      BY <3>1, <3>2
  <2>5. Are(y, n)
    BY <2>4 DEF Are
  <2> QED
    BY <2>5
<1> QED
  BY <1>3, <1>4

\* What Release computes.
LEMMA ReleaseIs ==
  ASSUME NEW x, NEW k \in Nat
  PROVE  /\ Release(x, k) = Steps(x, k)[k] /\ Steps(x, k)[0] = x
         /\ \A i \in 1..k : Steps(x, k)[i] = DecRefFiles(Steps(x, k)[i - 1], x.commits[i].files)
<1>1. Release(x, k) = Steps(x, k)[k]
  BY DEF Release, Steps
<1>2. Steps(x, k) = [i \in 0..k |-> IF i = 0 THEN x ELSE DecRefFiles(Steps(x, k)[i - 1], x.commits[i].files)]
  BY StepsExist DEF Steps
<1> DEFINE y == Steps(x, k)
<1> HIDE DEF y
<1>3. \A i \in 0..k : y[i] = IF i = 0 THEN x ELSE DecRefFiles(y[i - 1], x.commits[i].files)
  BY <1>2 DEF y
<1> QED
  BY <1>1, <1>3 DEF y

-----------------------------------------------------------------------------
(* The directories that may be on disk, file by file. *)

\* What directory d has under the name f: nothing, or one file.
At(d, f) == IF f \in DOMAIN d THEN {d[f]} ELSE {}

\* The first entry after the k-th of journal j that touched f is the i-th; or there is none.
FirstAfter(j, k, i, f) ==
  i \in k + 1..Len(j) /\ f \in Touched(j[i]) /\ \A n \in k + 1..i - 1 : f \notin Touched(j[n])
Untouched(j, k, f) == \A n \in k + 1..Len(j) : f \notin Touched(j[n])

LEMMA TouchCases ==
  ASSUME NEW j, Len(j) \in Nat, NEW k \in Nat, NEW f
  PROVE  Untouched(j, k, f) \/ \E i \in k + 1..Len(j) : FirstAfter(j, k, i, f)
<1> DEFINE T == {i \in k + 1..Len(j) : f \in Touched(j[i])}
<1>1. CASE T = {}
  BY <1>1 DEF Untouched
<1>2. CASE T # {}
  <2>0. T \in SUBSET Nat
    OBVIOUS
  <2>1. PICK i \in T : \A n \in T : i <= n
    <3> HIDE DEF T
    <3> QED
      BY <1>2, <2>0, LeastNat
  <2>2. FirstAfter(j, k, i, f)
    BY <2>1 DEF FirstAfter
  <2> QED
    BY <2>1, <2>2
<1> QED
  BY <1>1, <1>2

\* What a file was after k entries.
LEMMA RewoundAt ==
  ASSUME NEW x, Len(x.journal) \in Nat, NEW k \in 0..Len(x.journal), NEW f
  PROVE  /\ Untouched(x.journal, k, f) => At(Rewound(x, k), f) = At(x.files, f)
         /\ \A i : FirstAfter(x.journal, k, i, f) => At(Rewound(x, k), f) = At(x.journal[i].old, f)
<1> DEFINE later(g) == {i \in k + 1..Len(x.journal) : g \in Touched(x.journal[i])}
           then(g) == IF later(g) = {} THEN x.files ELSE x.journal[Min(later(g))].old
           known == DOMAIN x.files \cup UNION {DOMAIN x.journal[i].old : i \in 1..Len(x.journal)}
<1>1. Rewound(x, k) = [g \in {h \in known : h \in DOMAIN then(h)} |-> then(g)[g]]
  BY DEF Rewound
<1> HIDE DEF then, known
<1>2. f \in known => At(Rewound(x, k), f) = At(then(f), f)
  BY <1>1 DEF At
<1>3. f \notin known => At(Rewound(x, k), f) = {}
  BY <1>1 DEF At
<1>4. ASSUME Untouched(x.journal, k, f) PROVE At(Rewound(x, k), f) = At(x.files, f)
  <2>1. then(f) = x.files
    BY <1>4 DEF then, Untouched
  <2>2. f \notin known => f \notin DOMAIN x.files
    BY DEF known
  <2> QED
    BY <2>1, <2>2, <1>2, <1>3 DEF At
<1>5. ASSUME NEW i, FirstAfter(x.journal, k, i, f) PROVE At(Rewound(x, k), f) = At(x.journal[i].old, f)
  <2>1. i \in later(f) /\ \A n \in later(f) : i <= n
    BY <1>5 DEF FirstAfter
  <2>2. \A n \in later(f) : n \in Int
    OBVIOUS
  <2>3. Min(later(f)) = i
    <3> HIDE DEF later
    <3> QED
      BY <2>1, <2>2 DEF Min
  <2>4. then(f) = x.journal[i].old
    BY <2>1, <2>3 DEF then
  <2>5. f \notin known => f \notin DOMAIN x.journal[i].old
    BY <1>5 DEF known, FirstAfter
  <2> QED
    BY <2>4, <2>5, <1>2, <1>3 DEF At
<1> QED
  BY <1>4, <1>5

\* A directory that may be on disk is given by how many entries are there, and by the files of
\* the last of them that are back.
Partly(x, k, S) ==
  /\ k \in 0..Len(x.journal)
  /\ S = {} \/ (k # 0 /\ x.journal[k].new = {} /\ S \subseteq DOMAIN x.journal[k].old)
IsView(d, x, k, S) ==
  \A f : At(d, f) = IF f \in S THEN At(x.journal[k].old, f) ELSE At(Rewound(x, k), f)

LEMMA OnDiskIs ==
  ASSUME NEW x, Len(x.journal) \in Nat
  PROVE  /\ \A d \in OnDisk(x) : \E k, S : Partly(x, k, S) /\ IsView(d, x, k, S)
         /\ \A k, S : Partly(x, k, S) => \E d \in OnDisk(x) : IsView(d, x, k, S)
<1>1. ASSUME NEW k \in 0..Len(x.journal)
      PROVE  Partly(x, k, {}) /\ IsView(Rewound(x, k), x, k, {}) /\ Rewound(x, k) \in OnDisk(x)
  BY DEF Partly, IsView, OnDisk
<1>2. ASSUME NEW k \in 1..Len(x.journal), x.journal[k].new = {}, NEW S \in SUBSET DOMAIN x.journal[k].old
      PROVE  /\ Partly(x, k, S) /\ IsView(RewoundInPart(x, k, S), x, k, S)
             /\ RewoundInPart(x, k, S) \in OnDisk(x)
  <2>1. Partly(x, k, S)
    BY <1>2 DEF Partly
  <2>2. IsView(RewoundInPart(x, k, S), x, k, S)
    BY DEF IsView, RewoundInPart, At
  <2>3. RewoundInPart(x, k, S) \in OnDisk(x)
    BY <1>2 DEF OnDisk
  <2> QED
    BY <2>1, <2>2, <2>3
<1>3. ASSUME NEW d \in OnDisk(x) PROVE \E k, S : Partly(x, k, S) /\ IsView(d, x, k, S)
  <2>1. CASE \E k \in 0..Len(x.journal) : d = Rewound(x, k)
    BY <2>1, <1>1
  <2>2. CASE \E k \in 1..Len(x.journal) : \E S \in SUBSET DOMAIN x.journal[k].old :
                x.journal[k].new = {} /\ d = RewoundInPart(x, k, S)
    BY <2>2, <1>2
  <2> QED
    BY <2>1, <2>2 DEF OnDisk
<1>4. ASSUME NEW k, NEW S, Partly(x, k, S) PROVE \E d \in OnDisk(x) : IsView(d, x, k, S)
  <2>1. CASE S = {}
    BY <2>1, <1>1, <1>4 DEF Partly
  <2>2. CASE S # {}
    <3>1. k \in 1..Len(x.journal) /\ x.journal[k].new = {} /\ S \in SUBSET DOMAIN x.journal[k].old
      BY <2>2, <1>4 DEF Partly
    <3> QED
      BY <3>1, <1>2
  <2> QED
    BY <2>1, <2>2
<1> QED
  BY <1>3, <1>4

\* A store: the record, the directory and the journal.
IsSequence(s) == \E S : s \in Seq(S)
IsStore(x) ==
  /\ x = [files |-> x.files, journal |-> x.journal, rc |-> x.rc, commits |-> x.commits,
          last |-> x.last]
  /\ IsDir(x.files) /\ IsSequence(x.journal) /\ IsSequence(x.commits)
  /\ \A i \in 1..Len(x.journal) : IsDir(x.journal[i].old)

LEMMA SequenceFacts ==
  ASSUME NEW s, IsSequence(s)
  PROVE  Len(s) \in Nat /\ DOMAIN s = 1..Len(s)
BY DEF IsSequence

\* What may be on disk of a store are directories.
LEMMA OnDiskDirs ==
  ASSUME NEW x, IsStore(x), NEW d \in OnDisk(x)
  PROVE  IsDir(d)
<1> DEFINE known == DOMAIN x.files \cup UNION {DOMAIN x.journal[i].old : i \in 1..Len(x.journal)}
<1>1. Len(x.journal) \in Nat
  BY SequenceFacts DEF IsStore
<1>2. IsFiniteSet(known)
  <2> DEFINE olds == {DOMAIN x.journal[i].old : i \in 1..Len(x.journal)}
  <2>1. IsFiniteSet(1..Len(x.journal))
    BY <1>1, FS_Interval
  <2>2. IsFiniteSet(olds)
    <3> DEFINE old == [i \in 1..Len(x.journal) |-> DOMAIN x.journal[i].old]
    <3>1. old \in Surjection(1..Len(x.journal), olds)
      BY DEF Surjection
    <3> HIDE DEF old, olds
    <3> QED
      BY <2>1, <3>1, FS_Surjection
  <2>3. \A T \in olds : IsFiniteSet(T)
    BY DEF IsStore, IsDir
  <2>4. IsFiniteSet(UNION olds)
    <3> HIDE DEF olds
    <3> QED
      BY <2>2, <2>3, FS_UNION
  <2>5. IsFiniteSet(DOMAIN x.files)
    BY DEF IsStore, IsDir
  <2> QED
    BY <2>4, <2>5, FS_Union
<1>3. ASSUME NEW e, NEW f, At(e, f) # {}, IsDir(e)
      PROVE  \E v : At(e, f) = {v} /\ IsFile(f) /\ IsState(f, v)
  BY <1>3 DEF At, IsDir
<1>4. PICK k, S : Partly(x, k, S) /\ IsView(d, x, k, S)
  BY <1>1, OnDiskIs
<1>5. ASSUME NEW f \in DOMAIN d PROVE f \in known /\ IsFile(f) /\ IsState(f, d[f])
  <2>1. At(d, f) = {d[f]}
    BY DEF At
  <2>2. CASE \E i \in 1..Len(x.journal) : At(d, f) = At(x.journal[i].old, f)
    <3>1. PICK i \in 1..Len(x.journal) : At(d, f) = At(x.journal[i].old, f)
      BY <2>2
    <3>2. IsDir(x.journal[i].old)
      BY DEF IsStore
    <3>3. f \in DOMAIN x.journal[i].old /\ x.journal[i].old[f] = d[f]
      BY <2>1, <3>1 DEF At
    <3> QED
      BY <3>2, <3>3 DEF IsDir
  <2>3. CASE At(d, f) = At(x.files, f)
    <3>1. f \in DOMAIN x.files /\ x.files[f] = d[f]
      BY <2>1, <2>3 DEF At
    <3> QED
      BY <3>1 DEF IsStore, IsDir
  <2>4. CASE f \in S
    <3>1. k \in 1..Len(x.journal)
      BY <2>4, <1>1, <1>4 DEF Partly
    <3> QED
      BY <2>2, <2>4, <1>4, <3>1 DEF IsView
  <2>5. CASE f \notin S
    <3>1. k \in 0..Len(x.journal) /\ At(d, f) = At(Rewound(x, k), f)
      BY <2>5, <1>4 DEF IsView, Partly
    <3>2. CASE Untouched(x.journal, k, f)
      BY <1>1, <3>1, <3>2, RewoundAt, <2>3
    <3>3. CASE \E i \in k + 1..Len(x.journal) : FirstAfter(x.journal, k, i, f)
      <4>1. PICK i \in k + 1..Len(x.journal) : FirstAfter(x.journal, k, i, f)
        BY <3>3
      <4>2. i \in 1..Len(x.journal)
        BY <3>1, <1>1
      <4> QED
        BY <1>1, <3>1, <4>1, <4>2, RewoundAt, <2>2
    <3> QED
      BY <1>1, <3>1, <3>2, <3>3, TouchCases
  <2> QED
    BY <2>4, <2>5
<1>6. d = [f \in DOMAIN d |-> d[f]]
  <2>1. \A i : Rewound(x, i) = [f \in DOMAIN Rewound(x, i) |-> Rewound(x, i)[f]]
    BY DEF Rewound
  <2>2. \A i, T : RewoundInPart(x, i, T) = [f \in DOMAIN RewoundInPart(x, i, T) |-> RewoundInPart(x, i, T)[f]]
    BY DEF RewoundInPart
  <2>3. (\E i : d = Rewound(x, i)) \/ (\E i, T : d = RewoundInPart(x, i, T))
    BY DEF OnDisk
  <2> QED
    BY <2>1, <2>2, <2>3
<1>7. IsFiniteSet(DOMAIN d)
  <2>1. DOMAIN d \subseteq known
    BY <1>5
  <2> HIDE DEF known
  <2> QED
    BY <2>1, <1>2, FS_Subset
<1> QED
  BY <1>5, <1>6, <1>7 DEF IsDir

\* The names of the segments of commit n.
Names(d, n) == DOMAIN d[Segments(n)].val.segs

\* The generations in v of live docs and of updates are not beyond those in w.
NotBeyond(v, w) ==
  \A s \in DOMAIN v \cap DOMAIN w : v[s].del <= w[s].del /\ v[s].dv <= w[s].dv

\* A directory is good when each of its commits can be read, and when the names that a commit
\* gives to segments are not given again after any later one, which has no older generations.
Good(d) ==
  /\ \A n \in GenerationsIn(d) : n > 0 /\ Readable(d, n)
  /\ \A m, n \in GenerationsIn(d) :
       m <= n => /\ \A s \in Names(d, m) : s < d[Segments(n)].val.counter
                 /\ NotBeyond(d[Segments(m)].val.segs, d[Segments(n)].val.segs)

\* Its newest commit is the one acknowledged last, or a later one.
Newest(d, n) == n \in GenerationsIn(d) /\ \A m \in GenerationsIn(d) : m <= n
Durable(d, a) ==
  \/ a.gen = 0 /\ GenerationsIn(d) = {}
  \/ \E n : /\ Newest(d, n) /\ n >= a.gen
            /\ n = a.gen => d[Segments(n)].val.segs = a.segs

\* Whatever a crash leaves is good and has what was acknowledged.
Safe(x, a) == \A d \in OnDisk(x) : Good(d) /\ Durable(d, a)

\* From d0 to d nothing that was synced changes, and no commit is added.
KeptAt(f, a0, a) ==
  /\ \A e \in a0 : e.st = "synced" => a = a0
  /\ IsSegments(f) /\ a0 = {} => a = {}
Kept(d0, d) == \A f : KeptAt(f, At(d0, f), At(d, f))

LEMMA KeptGood ==
  ASSUME NEW d0, NEW d, NEW a, IsDir(d0), IsDir(d), Kept(d0, d), Good(d0), Durable(d0, a)
  PROVE  Good(d) /\ Durable(d, a)
<1>1. \A f \in DOMAIN d0 : d0[f].st = "synced" => f \in DOMAIN d /\ d[f] = d0[f]
  <2> TAKE f \in DOMAIN d0
  <2>1. At(d0, f) = {d0[f]} /\ KeptAt(f, At(d0, f), At(d, f))
    BY DEF At, Kept
  <2> QED
    BY <2>1 DEF KeptAt, At
<1>2. ASSUME NEW n \in GenerationsIn(d0)
      PROVE  n \in GenerationsIn(d) /\ d[Segments(n)] = d0[Segments(n)] /\ Readable(d0, n) /\ n > 0
  <2>1. Segments(n) \in DOMAIN d0
    BY GenerationsAre
  <2>2. Readable(d0, n) /\ d0[Segments(n)].st = "synced" /\ n > 0
    BY DEF Good, Readable
  <2> QED
    BY <2>1, <2>2, <1>1, GenerationsAre
<1>3. ASSUME NEW n \in GenerationsIn(d) PROVE n \in GenerationsIn(d0)
  <2>1. Segments(n) \in DOMAIN d /\ IsSegments(Segments(n))
    BY GenerationsAre DEF IsSegments, Segments
  <2>2. KeptAt(Segments(n), At(d0, Segments(n)), At(d, Segments(n))) /\ At(d, Segments(n)) # {}
    BY <2>1 DEF Kept, At
  <2>3. At(d0, Segments(n)) # {}
    BY <2>1, <2>2 DEF KeptAt
  <2> QED
    BY <2>3, GenerationsAre DEF At
<1>4. ASSUME NEW n \in GenerationsIn(d) PROVE Readable(d, n)
  <2>1. n \in GenerationsIn(d0) /\ d[Segments(n)] = d0[Segments(n)] /\ Readable(d0, n)
    BY <1>2, <1>3
  <2> QED
    BY <2>1, <1>1 DEF Readable
<1>5. GenerationsIn(d) = GenerationsIn(d0)
  BY <1>2, <1>3
<1>6. Good(d)
  <2>1. ASSUME NEW m \in GenerationsIn(d), NEW n \in GenerationsIn(d), m <= n, NEW s \in Names(d, m)
        PROVE  s < d[Segments(n)].val.counter
    BY <2>1, <1>2, <1>5 DEF Good, Names
  <2>2. ASSUME NEW m \in GenerationsIn(d), NEW n \in GenerationsIn(d), m <= n
        PROVE  NotBeyond(d[Segments(m)].val.segs, d[Segments(n)].val.segs)
    BY <2>2, <1>2, <1>5 DEF Good
  <2> QED
    BY <1>2, <1>4, <1>5, <2>1, <2>2 DEF Good
<1>7. Durable(d, a)
  BY <1>2, <1>5 DEF Durable, Newest
<1> QED
  BY <1>6, <1>7

-----------------------------------------------------------------------------
(* What the operations of the directory do to what may be on disk. *)

\* Each directory that may be on disk of y keeps one that may be on disk of x.
Follows(x, y) == \A d \in OnDisk(y) : \E d0 \in OnDisk(x) : Kept(d0, d)

LEMMA FollowsSafe ==
  ASSUME NEW x, NEW y, NEW a, IsStore(x), IsStore(y), Follows(x, y), Safe(x, a)
  PROVE  Safe(y, a)
<1> SUFFICES ASSUME NEW d \in OnDisk(y) PROVE Good(d) /\ Durable(d, a)
  BY DEF Safe
<1>1. PICK d0 \in OnDisk(x) : Kept(d0, d)
  BY DEF Follows
<1> QED
  BY <1>1, OnDiskDirs, KeptGood DEF Safe

LEMMA KeptAtSame == \A f, a : KeptAt(f, a, a)
BY DEF KeptAt

\* Files change, and the journal does not.
LEMMA FilesChange ==
  ASSUME NEW x, NEW y, Len(x.journal) \in Nat, y.journal = x.journal,
         \A f : KeptAt(f, At(x.files, f), At(y.files, f))
  PROVE  Follows(x, y)
<1> SUFFICES ASSUME NEW d \in OnDisk(y) PROVE \E d0 \in OnDisk(x) : Kept(d0, d)
  BY DEF Follows
<1>1. PICK k, S : Partly(y, k, S) /\ IsView(d, y, k, S)
  BY OnDiskIs
<1>2. Partly(x, k, S)
  BY <1>1 DEF Partly
<1>3. PICK d0 \in OnDisk(x) : IsView(d0, x, k, S)
  BY <1>2, OnDiskIs
<1>4. k \in 0..Len(x.journal)
  BY <1>2 DEF Partly
<1>5. ASSUME NEW f PROVE KeptAt(f, At(d0, f), At(d, f))
  <2>1. CASE f \in S
    BY <2>1, <1>1, <1>3, KeptAtSame DEF IsView
  <2>2. CASE f \notin S
    <3>1. At(d, f) = At(Rewound(y, k), f) /\ At(d0, f) = At(Rewound(x, k), f)
      BY <2>2, <1>1, <1>3 DEF IsView
    <3>2. CASE Untouched(x.journal, k, f)
      BY <3>1, <3>2, <1>4, RewoundAt
    <3>3. CASE \E i \in k + 1..Len(x.journal) : FirstAfter(x.journal, k, i, f)
      <4>1. PICK i : FirstAfter(x.journal, k, i, f)
        BY <3>3
      <4>2. At(Rewound(x, k), f) = At(x.journal[i].old, f)
        BY <4>1, <1>4, RewoundAt
      <4>3. At(Rewound(y, k), f) = At(y.journal[i].old, f)
        BY <4>1, <1>4, RewoundAt
      <4> QED
        BY <3>1, <4>2, <4>3, KeptAtSame
    <3> QED
      BY <3>2, <3>3, <1>4, TouchCases
  <2> QED
    BY <2>1, <2>2
<1> QED
  BY <1>5 DEF Kept

\* The oldest entries of the journal reach the disk.
LEMMA Truncated ==
  ASSUME NEW x, NEW y, IsSequence(x.journal), y.files = x.files, NEW b \in 1..Len(x.journal) + 1,
         y.journal = SubSeq(x.journal, b, Len(x.journal))
  PROVE  Follows(x, y)
<1> DEFINE n == Len(x.journal)
           m == Len(y.journal)
<1>1. n \in Nat /\ m = n - b + 1 /\ m \in Nat /\ \A i \in 1..m : y.journal[i] = x.journal[i + b - 1]
  <2>1. PICK T : x.journal \in Seq(T)
    BY DEF IsSequence
  <2>2. n \in Nat /\ m = n - b + 1 /\ m \in Nat
    BY <2>1
  <2> QED
    BY <2>1, <2>2
<1> SUFFICES ASSUME NEW d \in OnDisk(y) PROVE \E d0 \in OnDisk(x) : Kept(d0, d)
  BY DEF Follows
<1>2. PICK k, S : Partly(y, k, S) /\ IsView(d, y, k, S)
  BY <1>1, OnDiskIs
<1> DEFINE c == k + b - 1
<1>3. k \in 0..m /\ c \in 0..n /\ k \in Nat /\ k + 1 \in Nat /\ c + 1 = k + 1 + b - 1
  BY <1>1, <1>2 DEF Partly
<1>4. k # 0 => c # 0 /\ y.journal[k] = x.journal[c]
  BY <1>1, <1>3
<1>5. Partly(x, c, S)
  BY <1>2, <1>3, <1>4 DEF Partly
<1>6. PICK d0 \in OnDisk(x) : IsView(d0, x, c, S)
  BY <1>1, <1>5, OnDiskIs
<1>7. ASSUME NEW f PROVE At(d0, f) = At(d, f)
  <2>1. CASE f \in S
    <3>1. k # 0
      BY <2>1, <1>2 DEF Partly
    <3> QED
      BY <2>1, <3>1, <1>2, <1>4, <1>6 DEF IsView
  <2>2. CASE f \notin S
    <3>1. At(d, f) = At(Rewound(y, k), f) /\ At(d0, f) = At(Rewound(x, c), f)
      BY <2>2, <1>2, <1>6 DEF IsView
    <3>2. CASE Untouched(y.journal, k, f)
      <4>1. ASSUME NEW i \in c + 1..n PROVE f \notin Touched(x.journal[i])
        <5>0. i \in Int /\ i >= k + b /\ i <= n
          BY <1>1, <1>3
        <5>1. i - b + 1 \in k + 1..m /\ (i - b + 1) + b - 1 = i /\ i - b + 1 \in 1..m
          <6> HIDE DEF m, n, c
          <6> QED
            BY <1>1, <1>3, <5>0
        <5>2. y.journal[i - b + 1] = x.journal[i]
          BY <1>1, <5>1
        <5> QED
          BY <3>2, <5>1, <5>2 DEF Untouched
      <4>2. Untouched(x.journal, c, f)
        BY <4>1 DEF Untouched
      <4>3. At(Rewound(y, k), f) = At(y.files, f)
        BY <3>2, <1>1, <1>3, RewoundAt
      <4>4. At(Rewound(x, c), f) = At(x.files, f)
        BY <4>2, <1>1, <1>3, RewoundAt
      <4> QED
        BY <3>1, <4>3, <4>4
    <3>3. CASE \E i \in k + 1..m : FirstAfter(y.journal, k, i, f)
      <4>1. PICK i \in k + 1..m : FirstAfter(y.journal, k, i, f)
        BY <3>3
      <4>0. i \in Int /\ i >= k + 1 /\ i <= m
        BY <1>1, <1>3
      <4>2. i \in 1..m /\ i + b - 1 \in c + 1..n /\ y.journal[i] = x.journal[i + b - 1]
        <5>1. i \in 1..m /\ i + b - 1 \in c + 1..n
          <6>1. c = k + b - 1
            OBVIOUS
          <6> HIDE DEF m, n, c
          <6> QED
            BY <1>1, <1>3, <4>0, <6>1
        <5> QED
          BY <1>1, <5>1
      <4>3. ASSUME NEW l \in c + 1..(i + b - 1) - 1 PROVE f \notin Touched(x.journal[l])
        <5>0. l \in Int /\ i \in Int /\ i <= m /\ l >= k + b /\ l <= i + b - 2 /\ k >= 0 /\ k \in Int
          <6>1. b \in Int /\ k \in Int /\ k >= 0 /\ c = k + b - 1 /\ i \in Int /\ i <= m
            BY <1>1, <1>3, <4>0
          <6> HIDE DEF m, n, c
          <6>2. c \in Int
            BY <6>1
          <6>3. l \in Int /\ l >= c + 1 /\ l <= (i + b - 1) - 1
            BY <6>1, <6>2
          <6> QED
            BY <6>1, <6>2, <6>3
        <5>1. l - b + 1 \in k + 1..i - 1 /\ (l - b + 1) + b - 1 = l /\ l - b + 1 \in 1..m
          <6> HIDE DEF m, n
          <6> QED
            BY <1>1, <5>0
        <5>2. y.journal[l - b + 1] = x.journal[l]
          BY <1>1, <5>1
        <5> QED
          BY <4>1, <5>1, <5>2 DEF FirstAfter
      <4>4. FirstAfter(x.journal, c, i + b - 1, f)
        BY <4>1, <4>2, <4>3 DEF FirstAfter
      <4>5. At(Rewound(y, k), f) = At(y.journal[i].old, f)
        BY <4>1, <1>1, <1>3, RewoundAt
      <4>6. At(Rewound(x, c), f) = At(x.journal[i + b - 1].old, f)
        BY <4>4, <1>1, <1>3, RewoundAt
      <4> QED
        BY <3>1, <4>2, <4>5, <4>6
    <3> QED
      BY <3>2, <3>3, <1>1, <1>3, TouchCases
  <2> QED
    BY <2>1, <2>2
<1> QED
  BY <1>6, <1>7, KeptAtSame DEF Kept

\* An entry e is added to the journal: what may be on disk is what was, or the new directory,
\* where some of the files that e deleted may still be there.
Latest(d, files, e) ==
  \E S : /\ S = {} \/ (e.new = {} /\ S \subseteq DOMAIN e.old)
         /\ \A f : At(d, f) = IF f \in S THEN At(e.old, f) ELSE At(files, f)

LEMMA Appended ==
  ASSUME NEW x, NEW y, NEW e, IsSequence(x.journal), y.journal = Append(x.journal, e),
         \A f \in Touched(e) : At(e.old, f) = At(x.files, f),
         \A f : f \notin Touched(e) => KeptAt(f, At(x.files, f), At(y.files, f)),
         NEW d \in OnDisk(y)
  PROVE  (\E d0 \in OnDisk(x) : Kept(d0, d)) \/ Latest(d, y.files, e)
<1> DEFINE n == Len(x.journal)
<1>1. /\ n \in Nat /\ Len(y.journal) = n + 1
      /\ y.journal[n + 1] = e /\ \A i \in 1..n : y.journal[i] = x.journal[i]
  <2>1. PICK T : x.journal \in Seq(T)
    BY DEF IsSequence
  <2> QED
    BY <2>1
<1>2. PICK k, S : Partly(y, k, S) /\ IsView(d, y, k, S)
  BY <1>1, OnDiskIs
<1>3. k \in 0..n + 1 /\ k \in 0..Len(y.journal) /\ Len(y.journal) \in Nat
  BY <1>1, <1>2 DEF Partly
<1>4. CASE k = n + 1
  <2>1. \A f : At(Rewound(y, k), f) = At(y.files, f)
    <3>1. \A f : Untouched(y.journal, k, f)
      BY <1>1, <1>4 DEF Untouched
    <3> QED
      BY <1>1, <1>3, <3>1, RewoundAt
  <2>2. S = {} \/ (e.new = {} /\ S \subseteq DOMAIN e.old)
    BY <1>1, <1>2, <1>4 DEF Partly
  <2>3. \A f : At(d, f) = IF f \in S THEN At(e.old, f) ELSE At(y.files, f)
    BY <1>1, <1>2, <1>4, <2>1 DEF IsView
  <2> QED
    BY <2>2, <2>3 DEF Latest
<1>5. CASE k # n + 1
  <2>1. k \in 0..n /\ k \in Nat
    BY <1>1, <1>3, <1>5
  <2>2. k # 0 => y.journal[k] = x.journal[k]
    BY <1>1, <2>1
  <2>3. Partly(x, k, S)
    BY <1>2, <2>1, <2>2 DEF Partly
  <2>4. PICK d0 \in OnDisk(x) : IsView(d0, x, k, S)
    BY <1>1, <2>3, OnDiskIs
  <2>5. ASSUME NEW f PROVE KeptAt(f, At(d0, f), At(d, f))
    <3>1. CASE f \in S
      <4>1. k # 0
        BY <3>1, <2>3 DEF Partly
      <4> QED
        BY <3>1, <4>1, <2>2, <2>4, <1>2, KeptAtSame DEF IsView
    <3>2. CASE f \notin S
      <4>1. At(d, f) = At(Rewound(y, k), f) /\ At(d0, f) = At(Rewound(x, k), f)
        BY <3>2, <1>2, <2>4 DEF IsView
      <4>0. /\ Untouched(y.journal, k, f) => At(Rewound(y, k), f) = At(y.files, f)
            /\ \A i : FirstAfter(y.journal, k, i, f) => At(Rewound(y, k), f) = At(y.journal[i].old, f)
        BY <1>3, RewoundAt
      <4>2. CASE Untouched(x.journal, k, f)
        <5>1. At(Rewound(x, k), f) = At(x.files, f)
          BY <4>2, <1>1, <2>1, RewoundAt
        <5>2. CASE f \in Touched(e)
          <6>1. FirstAfter(y.journal, k, n + 1, f)
            BY <4>2, <5>2, <1>1, <2>1 DEF FirstAfter, Untouched
          <6>2. At(Rewound(y, k), f) = At(y.journal[n + 1].old, f)
            <7> DEFINE i == n + 1
            <7>1. FirstAfter(y.journal, k, i, f)
              BY <6>1
            <7> HIDE DEF i
            <7>2. At(Rewound(y, k), f) = At(y.journal[i].old, f)
              BY <7>1, <4>0
            <7> QED
              BY <7>2 DEF i
          <6> QED
            BY <4>1, <5>1, <5>2, <6>2, <1>1, KeptAtSame
        <5>3. CASE f \notin Touched(e)
          <6>1. Untouched(y.journal, k, f)
            BY <4>2, <5>3, <1>1, <2>1 DEF Untouched
          <6>2. At(Rewound(y, k), f) = At(y.files, f)
            BY <6>1, <1>1, <1>3, RewoundAt
          <6> QED
            BY <4>1, <5>1, <5>3, <6>2
        <5> QED
          BY <5>2, <5>3
      <4>3. CASE \E i \in k + 1..n : FirstAfter(x.journal, k, i, f)
        <5>1. PICK i \in k + 1..n : FirstAfter(x.journal, k, i, f)
          BY <4>3
        <5>2. i \in 1..n /\ i \in k + 1..n + 1 /\ \A l \in k + 1..i - 1 : l \in 1..n
          BY <1>1, <2>1
        <5>3. FirstAfter(y.journal, k, i, f)
          BY <5>1, <5>2, <1>1 DEF FirstAfter
        <5>4. At(Rewound(x, k), f) = At(x.journal[i].old, f)
          BY <5>1, <1>1, <2>1, RewoundAt
        <5>5. At(Rewound(y, k), f) = At(y.journal[i].old, f)
          BY <5>3, <4>0
        <5> QED
          BY <4>1, <5>2, <5>4, <5>5, <1>1, KeptAtSame
      <4> QED
        BY <4>2, <4>3, <1>1, <2>1, TouchCases
    <3> QED
      BY <3>1, <3>2
  <2> QED
    BY <2>4, <2>5 DEF Kept
<1> QED
  BY <1>4, <1>5

LEMMA MaxOfTwo ==
  ASSUME NEW a \in Int, NEW b \in Int
  PROVE  Max({a, b}) = IF a >= b THEN a ELSE b
BY DEF Max

\* Safety, when an entry is added to the journal and the oldest ones reach the disk.
LEMMA JournalSafe ==
  ASSUME NEW x, NEW y, NEW e, NEW a, IsStore(x), IsStore(y), IsDir(e.old),
         y.journal = Journal(x.journal, e),
         \A f \in Touched(e) : At(e.old, f) = At(x.files, f),
         \A f : f \notin Touched(e) => KeptAt(f, At(x.files, f), At(y.files, f)),
         Safe(x, a), \A d : IsDir(d) /\ Latest(d, y.files, e) => Good(d) /\ Durable(d, a)
  PROVE  Safe(y, a)
<1> DEFINE all == Append(x.journal, e)
           z == [y EXCEPT !.journal = all]
           b == Max({1, Len(all) - MaxJournal + 1})
<1>1. PICK T : x.journal \in Seq(T)
  BY DEF IsStore, IsSequence
<1>2. /\ all \in Seq(T \cup {e}) /\ Len(all) = Len(x.journal) + 1 /\ Len(x.journal) \in Nat
      /\ all[Len(x.journal) + 1] = e /\ \A i \in 1..Len(x.journal) : all[i] = x.journal[i]
  BY <1>1
<1>a. y = [files |-> y.files, journal |-> y.journal, rc |-> y.rc, commits |-> y.commits,
           last |-> y.last]
  BY DEF IsStore
<1>3. z.journal = all /\ z.files = y.files /\ z.commits = y.commits
      /\ z = [files |-> y.files, journal |-> all, rc |-> y.rc, commits |-> y.commits, last |-> y.last]
  <2> HIDE DEF all
  <2> QED
    BY <1>a
<1>4. IsStore(z)
  <2>1. IsSequence(all)
    BY <1>2 DEF IsSequence
  <2>2. ASSUME NEW i \in 1..Len(all) PROVE IsDir(all[i].old)
    BY <1>2 DEF IsStore
  <2> HIDE DEF z, all
  <2> QED
    BY <1>3, <2>1, <2>2 DEF IsStore
<1>5. Safe(z, a)
  <2> SUFFICES ASSUME NEW d \in OnDisk(z) PROVE Good(d) /\ Durable(d, a)
    BY DEF Safe
  <2> HIDE DEF z
  <2>1. IsDir(d)
    BY <1>4, OnDiskDirs
  <2>2. IsSequence(x.journal)
    BY DEF IsStore
  <2>3. (\E d0 \in OnDisk(x) : Kept(d0, d)) \/ Latest(d, z.files, e)
    BY <1>3, <2>2, Appended
  <2>4. ASSUME NEW d0 \in OnDisk(x), Kept(d0, d) PROVE Good(d) /\ Durable(d, a)
    BY <2>1, <2>4, KeptGood, OnDiskDirs DEF Safe
  <2> QED
    BY <2>1, <2>3, <2>4, <1>3
<1>6. Follows(z, y)
  <2>1. b \in 1..Len(all) + 1
    BY <1>2, MaxOfTwo, MaxJournalAssumption
  <2>2. y.journal = SubSeq(z.journal, b, Len(z.journal))
    BY <1>3 DEF Journal
  <2>3. IsSequence(z.journal)
    BY <1>4 DEF IsStore
  <2> HIDE DEF z, b, all
  <2> QED
    BY <2>1, <2>2, <2>3, <1>3, Truncated
<1> HIDE DEF z
<1> QED
  BY <1>4, <1>5, <1>6, FollowsSafe

\* What x and y have in common when only files are written or deleted.
SameCounts(x, y) == y.rc = x.rc /\ y.commits = x.commits /\ y.last = x.last

\* The current directory may be on disk.
LEMMA FilesSafe ==
  ASSUME NEW x, NEW a, IsStore(x), Safe(x, a)
  PROVE  Good(x.files) /\ Durable(x.files, a)
<1>1. Len(x.journal) \in Nat
  BY SequenceFacts DEF IsStore
<1> DEFINE n == Len(x.journal)
<1>2. n \in 0..Len(x.journal) /\ Rewound(x, n) \in OnDisk(x)
  BY <1>1 DEF OnDisk
<1>3. \A f : At(Rewound(x, n), f) = At(x.files, f)
  <2>1. \A f : Untouched(x.journal, n, f)
    BY <1>1 DEF Untouched
  <2> HIDE DEF n
  <2> QED
    BY <1>1, <1>2, <2>1, RewoundAt
<1>4. Kept(Rewound(x, n), x.files)
  BY <1>3, KeptAtSame DEF Kept
<1>5. IsDir(Rewound(x, n)) /\ IsDir(x.files) /\ Good(Rewound(x, n)) /\ Durable(Rewound(x, n), a)
  BY <1>2, OnDiskDirs DEF Safe, IsStore
<1> HIDE DEF n
<1> QED
  BY <1>4, <1>5, KeptGood

\* New files are written.
LEMMA CreateStore ==
  ASSUME NEW x, NEW a, IsStore(x), Safe(x, a), NEW F, NEW v, IsFiniteSet(F),
         \A f \in F : /\ f \notin DOMAIN x.files /\ IsFile(f) /\ ~ IsSegments(f)
                      /\ IsCommitFile(f) => IsInfos(v)
  PROVE  LET y == Create(x, F, v)
         IN  /\ IsStore(y) /\ Safe(y, a) /\ SameCounts(x, y)
             /\ DOMAIN y.files = DOMAIN x.files \cup F
             /\ \A f \in DOMAIN x.files : y.files[f] = x.files[f]
             /\ \A f \in F : y.files[f] = [st |-> "dirty", val |-> v]
<1> DEFINE y == Create(x, F, v)
           new == [f \in DOMAIN x.files \cup F |->
                     IF f \in F THEN [st |-> "dirty", val |-> v] ELSE x.files[f]]
<1>1. x = [files |-> x.files, journal |-> x.journal, rc |-> x.rc, commits |-> x.commits,
           last |-> x.last]
  BY DEF IsStore
<1>2. y = [files |-> new, journal |-> x.journal, rc |-> x.rc, commits |-> x.commits,
           last |-> x.last]
  BY <1>1 DEF Create
<1>3. y.files = new /\ y.journal = x.journal /\ SameCounts(x, y)
  BY <1>2 DEF SameCounts
<1>4. /\ DOMAIN new = DOMAIN x.files \cup F
      /\ \A f \in DOMAIN x.files : new[f] = x.files[f]
      /\ \A f \in F : new[f] = [st |-> "dirty", val |-> v]
  OBVIOUS
<1>5. new = [f \in DOMAIN new |-> new[f]]
  OBVIOUS
<1> HIDE DEF y, new
<1>6. IsDir(new)
  <2>1. IsFiniteSet(DOMAIN new)
    BY <1>4, FS_Union DEF IsStore, IsDir
  <2>2. ASSUME NEW f \in DOMAIN new PROVE IsFile(f) /\ IsState(f, new[f])
    <3>1. CASE f \in F
      BY <3>1, <1>4 DEF IsState
    <3>2. CASE f \in DOMAIN x.files
      BY <3>2, <1>4 DEF IsStore, IsDir
    <3> QED
      BY <3>1, <3>2, <1>4
  <2> QED
    BY <1>5, <2>1, <2>2 DEF IsDir
<1>7. IsStore(y)
  BY <1>2, <1>3, <1>6 DEF IsStore
<1>8. \A f : KeptAt(f, At(x.files, f), At(y.files, f))
  <2> TAKE f
  <2>1. CASE f \in F
    BY <2>1 DEF KeptAt, At
  <2>2. CASE f \notin F
    <3>1. At(y.files, f) = At(x.files, f)
      BY <2>2, <1>3, <1>4 DEF At
    <3> QED
      BY <3>1, KeptAtSame
  <2> QED
    BY <2>1, <2>2
<1>9. Safe(y, a)
  <2>1. Len(x.journal) \in Nat
    BY SequenceFacts DEF IsStore
  <2>2. Follows(x, y)
    BY <2>1, <1>3, <1>8, FilesChange
  <2> QED
    BY <2>2, <1>7, FollowsSafe
<1> QED
  BY <1>3, <1>4, <1>7, <1>9 DEF y

\* Files are synced.
LEMMA SyncStore ==
  ASSUME NEW x, NEW a, IsStore(x), Safe(x, a), NEW F
  PROVE  LET y == Sync(x, F)
         IN  /\ IsStore(y) /\ Safe(y, a) /\ SameCounts(x, y)
             /\ DOMAIN y.files = DOMAIN x.files
             /\ \A f \in DOMAIN x.files :
                  /\ y.files[f].val = x.files[f].val
                  /\ y.files[f].st = IF f \in F THEN "synced" ELSE x.files[f].st
<1> DEFINE y == Sync(x, F)
           new == [f \in DOMAIN x.files |->
                     IF f \in F THEN [x.files[f] EXCEPT !.st = "synced"] ELSE x.files[f]]
<1>1. x = [files |-> x.files, journal |-> x.journal, rc |-> x.rc, commits |-> x.commits,
           last |-> x.last]
  BY DEF IsStore
<1>2. y = [files |-> new, journal |-> x.journal, rc |-> x.rc, commits |-> x.commits,
           last |-> x.last]
  BY <1>1 DEF Sync
<1>3. y.files = new /\ y.journal = x.journal /\ SameCounts(x, y)
  BY <1>2 DEF SameCounts
<1>4. ASSUME NEW f \in DOMAIN x.files
      PROVE  /\ new[f].val = x.files[f].val
             /\ new[f].st = IF f \in F THEN "synced" ELSE x.files[f].st
             /\ new[f] = [st |-> new[f].st, val |-> new[f].val]
             /\ x.files[f].st = "synced" => new[f] = x.files[f]
  <2>1. x.files[f] = [st |-> x.files[f].st, val |-> x.files[f].val]
    BY DEF IsStore, IsDir, IsState
  <2>2. f \in F => new[f] = [st |-> "synced", val |-> x.files[f].val]
    BY <2>1
  <2>3. f \notin F => new[f] = x.files[f]
    OBVIOUS
  <2> HIDE DEF new
  <2> QED
    BY <2>1, <2>2, <2>3
<1>5. DOMAIN new = DOMAIN x.files /\ new = [f \in DOMAIN new |-> new[f]]
  OBVIOUS
<1> HIDE DEF y, new
<1>6. IsDir(new)
  <2>1. ASSUME NEW f \in DOMAIN new PROVE IsFile(f) /\ IsState(f, new[f])
    <3>1. IsFile(f) /\ IsState(f, x.files[f])
      BY <1>5 DEF IsStore, IsDir
    <3> QED
      BY <3>1, <1>4, <1>5 DEF IsState
  <2> QED
    BY <1>5, <2>1 DEF IsDir, IsStore
<1>7. IsStore(y)
  BY <1>2, <1>3, <1>6 DEF IsStore
<1>8. \A f : KeptAt(f, At(x.files, f), At(y.files, f))
  BY <1>3, <1>4, <1>5 DEF At, KeptAt
<1>9. Safe(y, a)
  <2>1. Len(x.journal) \in Nat
    BY SequenceFacts DEF IsStore
  <2>2. Follows(x, y)
    BY <2>1, <1>3, <1>8, FilesChange
  <2> QED
    BY <2>2, <1>7, FollowsSafe
<1> QED
  BY <1>3, <1>4, <1>5, <1>7, <1>9 DEF y

-----------------------------------------------------------------------------
(* Deleting files. *)

\* Of the files of F some are deleted.
Between(d, files, F) ==
  \A f : (At(d, f) = {} /\ f \in F) \/ At(d, f) = At(files, f)

\* The files of F are gone.
Removed(x, y, F) ==
  DOMAIN y.files = DOMAIN x.files \ F /\ \A f \in DOMAIN y.files : y.files[f] = x.files[f]
Unlinked(x, y, F, a) == IsStore(y) /\ Safe(y, a) /\ SameCounts(x, y) /\ Removed(x, y, F)

\* Part of a directory.
LEMMA PartDir ==
  ASSUME NEW d, IsDir(d), NEW S \in SUBSET DOMAIN d
  PROVE  /\ IsDir(Restrict(d, S)) /\ DOMAIN Restrict(d, S) = S
         /\ \A f \in S : Restrict(d, S)[f] = d[f]
<1>1. DOMAIN Restrict(d, S) = S /\ \A f \in S : Restrict(d, S)[f] = d[f]
  BY DEF Restrict
<1>2. Restrict(d, S) = [f \in DOMAIN Restrict(d, S) |-> Restrict(d, S)[f]]
  BY DEF Restrict
<1>3. IsFiniteSet(S)
  BY FS_Subset DEF IsDir
<1> QED
  BY <1>1, <1>2, <1>3 DEF IsDir

\* A journal with one more entry.
LEMMA JournalSeq ==
  ASSUME NEW x, IsStore(x), NEW e, IsDir(e.old)
  PROVE  LET j == Journal(x.journal, e)
         IN  IsSequence(j) /\ \A i \in 1..Len(j) : IsDir(j[i].old)
<1> DEFINE j == Journal(x.journal, e)
           all == Append(x.journal, e)
           b == Max({1, Len(all) - MaxJournal + 1})
<1>1. PICK T : x.journal \in Seq(T)
  BY DEF IsStore, IsSequence
<1>2. /\ all \in Seq(T \cup {e}) /\ Len(all) = Len(x.journal) + 1 /\ Len(x.journal) \in Nat
      /\ all[Len(x.journal) + 1] = e /\ \A i \in 1..Len(x.journal) : all[i] = x.journal[i]
  BY <1>1
<1>3. \A i \in 1..Len(all) : IsDir(all[i].old)
  BY <1>2 DEF IsStore
<1>4. b \in 1..Len(all) + 1
  BY <1>2, MaxOfTwo, MaxJournalAssumption
<1>5. j = SubSeq(all, b, Len(all))
  BY DEF Journal
<1> HIDE DEF all, b, j
<1>6. j \in Seq(T \cup {e})
  BY <1>2, <1>4, <1>5
<1>7. Len(j) = Len(all) - b + 1 /\ \A i \in 1..Len(j) : j[i] = all[i + b - 1]
  BY <1>2, <1>4, <1>5
<1>8. \A i \in 1..Len(j) : i + b - 1 \in 1..Len(all)
  BY <1>2, <1>4, <1>7
<1> QED
  BY <1>3, <1>6, <1>7, <1>8 DEF IsSequence, j

LEMMA UnlinkStore ==
  ASSUME NEW x, NEW a, NEW F, IsStore(x), Safe(x, a),
         \A d : IsDir(d) /\ Between(d, x.files, F) => Good(d) /\ Durable(d, a)
  PROVE  Unlinked(x, Unlink(x, F), F, a)
<1> DEFINE y == Unlink(x, F)
           gone == {f \in F \cap DOMAIN x.files : x.files[f].st = "synced"}
           e == [new |-> {}, old |-> Restrict(x.files, gone)]
           new == Restrict(x.files, DOMAIN x.files \ F)
           jour == IF gone = {} THEN x.journal ELSE Journal(x.journal, e)
<1>1. x = [files |-> x.files, journal |-> x.journal, rc |-> x.rc, commits |-> x.commits,
           last |-> x.last]
  BY DEF IsStore
<1>2. y = [files |-> new, journal |-> jour, rc |-> x.rc, commits |-> x.commits, last |-> x.last]
  <2>1. y = [x EXCEPT !.files = new, !.journal = jour]
    <3>1. y = [x EXCEPT !.files = Restrict(x.files, DOMAIN x.files \ F),
                        !.journal = IF gone = {} THEN x.journal ELSE Journal(x.journal, e)]
      BY DEF Unlink
    <3> QED
      BY <3>1
  <2> HIDE DEF y, new, jour
  <2> QED
    BY <1>1, <2>1
<1>3. y.files = new /\ y.journal = jour /\ SameCounts(x, y)
  BY <1>2 DEF SameCounts
<1>4. IsDir(new) /\ DOMAIN new = DOMAIN x.files \ F /\ \A f \in DOMAIN new : new[f] = x.files[f]
  BY PartDir DEF IsStore
<1>5. IsDir(e.old) /\ e.new = {} /\ DOMAIN e.old = gone /\ \A f \in gone : e.old[f] = x.files[f]
  BY PartDir DEF IsStore
<1>6. \A f \in gone : f \in F /\ f \in DOMAIN x.files
  OBVIOUS
<1>7. Removed(x, y, F)
  BY <1>3, <1>4 DEF Removed
<1>8. \A f : f \notin gone => KeptAt(f, At(x.files, f), At(y.files, f))
  <2> SUFFICES ASSUME NEW f, f \notin gone PROVE KeptAt(f, At(x.files, f), At(y.files, f))
    OBVIOUS
  <2>1. CASE f \in DOMAIN x.files /\ f \in F
    <3>1. x.files[f].st # "synced" /\ At(x.files, f) = {x.files[f]}
      BY <2>1 DEF At
    <3> QED
      BY <3>1 DEF KeptAt
  <2>2. CASE ~ (f \in DOMAIN x.files /\ f \in F)
    <3>1. At(y.files, f) = At(x.files, f)
      BY <2>2, <1>3, <1>4 DEF At
    <3> QED
      BY <3>1, KeptAtSame
  <2> QED
    BY <2>1, <2>2
<1> HIDE DEF y, new, e
<1>9. CASE gone = {}
  <2>1. y.journal = x.journal
    BY <1>9, <1>3
  <2>2. IsStore(y)
    BY <2>1, <1>2, <1>3, <1>4 DEF IsStore
  <2>3. Len(x.journal) \in Nat
    BY SequenceFacts DEF IsStore
  <2>4. Follows(x, y)
    BY <2>1, <2>3, <1>8, <1>9, FilesChange
  <2> QED
    BY <2>2, <2>4, <1>3, <1>7, FollowsSafe DEF Unlinked, y
<1>10. CASE gone # {}
  <2>1. y.journal = Journal(x.journal, e)
    BY <1>10, <1>3
  <2>2. IsSequence(y.journal) /\ \A i \in 1..Len(y.journal) : IsDir(y.journal[i].old)
    BY <2>1, <1>5, JournalSeq
  <2>3. IsStore(y)
    BY <2>2, <1>2, <1>3, <1>4 DEF IsStore
  <2>4. Touched(e) = gone
    BY <1>5 DEF Touched
  <2>5. \A f \in Touched(e) : At(e.old, f) = At(x.files, f)
    BY <2>4, <1>5, <1>6 DEF At
  <2>6. ASSUME NEW d, Latest(d, y.files, e) PROVE Between(d, x.files, F)
    <3>1. PICK S : /\ S = {} \/ (e.new = {} /\ S \subseteq DOMAIN e.old)
                   /\ \A f : At(d, f) = IF f \in S THEN At(e.old, f) ELSE At(y.files, f)
      BY <2>6 DEF Latest
    <3>2. ASSUME NEW f PROVE (At(d, f) = {} /\ f \in F) \/ At(d, f) = At(x.files, f)
      <4>1. CASE f \in S
        BY <4>1, <3>1, <2>4, <2>5, <1>5
      <4>2. CASE f \notin S
        BY <4>2, <3>1, <1>3, <1>4 DEF At
      <4> QED
        BY <4>1, <4>2
    <3> QED
      BY <3>2 DEF Between
  <2>7. Safe(y, a)
    <3> HIDE DEF gone
    <3> QED
      BY <1>5, <1>8, <2>1, <2>3, <2>4, <2>5, <2>6, JournalSafe
  <2> QED
    BY <2>3, <2>7, <1>3, <1>7 DEF Unlinked, y
<1> QED
  BY <1>9, <1>10

\* What is deleted is not part of a commit that stays, and not the newest commit.
Deletable(d, F) ==
  \A n \in GenerationsIn(d) :
    IF Segments(n) \in F THEN \E m \in GenerationsIn(d) : m > n /\ Segments(m) \notin F
                         ELSE FilesOf(d[Segments(n)].val.segs) \cap F = {}

LEMMA DeletedGood ==
  ASSUME NEW d, NEW d0, NEW F, NEW a, IsDir(d), IsDir(d0), Between(d, d0, F), Good(d0), Durable(d0, a),
         Deletable(d0, F), \A n \in GenerationsIn(d) : FilesOf(d0[Segments(n)].val.segs) \cap F = {}
  PROVE  Good(d) /\ Durable(d, a)
<1>1. ASSUME NEW n \in GenerationsIn(d) PROVE n \in GenerationsIn(d0) /\ d[Segments(n)] = d0[Segments(n)]
  <2>1. Segments(n) \in DOMAIN d
    BY GenerationsAre
  <2>2. At(d, Segments(n)) = At(d0, Segments(n)) /\ Segments(n) \in DOMAIN d0 /\ d[Segments(n)] = d0[Segments(n)]
    BY <2>1 DEF Between, At
  <2> QED
    BY <2>2, GenerationsAre
<1>2. ASSUME NEW f \in DOMAIN d0, f \notin F PROVE f \in DOMAIN d /\ d[f] = d0[f]
  BY <1>2 DEF Between, At
<1>3. ASSUME NEW n \in GenerationsIn(d) PROVE n > 0 /\ Readable(d, n)
  BY <1>1, <1>2 DEF Good, Readable
<1>4. Good(d)
  <2>1. ASSUME NEW m \in GenerationsIn(d), NEW n \in GenerationsIn(d), m <= n, NEW s \in Names(d, m)
        PROVE  s < d[Segments(n)].val.counter
    BY <2>1, <1>1 DEF Good, Names
  <2>2. ASSUME NEW m \in GenerationsIn(d), NEW n \in GenerationsIn(d), m <= n
        PROVE  NotBeyond(d[Segments(m)].val.segs, d[Segments(n)].val.segs)
    BY <2>2, <1>1 DEF Good
  <2> QED
    BY <1>3, <2>1, <2>2 DEF Good
<1>5. Durable(d, a)
  <2>1. CASE GenerationsIn(d0) = {}
    BY <2>1, <1>1 DEF Durable, Newest
  <2>2. CASE GenerationsIn(d0) # {}
    <3>1. PICK n : Newest(d0, n) /\ n >= a.gen /\ (n = a.gen => d0[Segments(n)].val.segs = a.segs)
      BY <2>2 DEF Durable
    <3>2. n \in GenerationsIn(d0) /\ \A m \in GenerationsIn(d0) : m <= n
      BY <3>1 DEF Newest
    <3>a. GenerationsIn(d0) \subseteq Nat /\ Segments(n) \in DOMAIN d0
      BY <3>2, GenerationsAre
    <3>3. Segments(n) \notin F
      <4>1. \A m \in GenerationsIn(d0) : ~ (m > n)
        BY <3>2, <3>a
      <4> QED
        BY <3>2, <4>1 DEF Deletable
    <3>4. n \in GenerationsIn(d) /\ d[Segments(n)] = d0[Segments(n)]
      BY <3>a, <3>3, <1>2, GenerationsAre
    <3> QED
      BY <3>1, <3>2, <3>4, <1>1 DEF Durable, Newest
  <2> QED
    BY <2>1, <2>2
<1> QED
  BY <1>4, <1>5

\* delete_files: the commits go before their files.
LEMMA DeleteStore ==
  ASSUME NEW x, NEW a, NEW F, IsStore(x), Safe(x, a), Deletable(x.files, F)
  PROVE  Unlinked(x, DeleteFiles(x, F), F, a)
<1> DEFINE first == {f \in F : IsSegments(f)}
           rest == F \ first
           y == Unlink(x, first)
           z == Unlink(y, rest)
<1>1. Good(x.files) /\ Durable(x.files, a) /\ IsDir(x.files)
  BY FilesSafe DEF IsStore
<1>2. \A n : Segments(n) \in first <=> Segments(n) \in F
  BY DEF IsSegments, Segments
<1>3. \A n \in GenerationsIn(x.files) : \A f \in FilesOf(x.files[Segments(n)].val.segs) : ~ IsSegments(f)
  BY DEF FilesOf, SegmentFiles, IsSegments, Core, Live, Dv
<1>4. Deletable(x.files, first)
  BY <1>2, <1>3 DEF Deletable
<1>5. \A d : IsDir(d) /\ Between(d, x.files, first) => Good(d) /\ Durable(d, a)
  <2> SUFFICES ASSUME NEW d, IsDir(d), Between(d, x.files, first) PROVE Good(d) /\ Durable(d, a)
    OBVIOUS
  <2>1. ASSUME NEW n \in GenerationsIn(d) PROVE n \in GenerationsIn(x.files)
    <3>1. Segments(n) \in DOMAIN d
      BY GenerationsAre
    <3>2. Segments(n) \in DOMAIN x.files
      BY <3>1 DEF Between, At
    <3> QED
      BY <3>2, <1>1, GenerationsAre
  <2>2. \A n \in GenerationsIn(d) : FilesOf(x.files[Segments(n)].val.segs) \cap first = {}
    BY <2>1, <1>3
  <2> QED
    BY <2>2, <1>1, <1>4, DeletedGood
<1>6. Unlinked(x, y, first, a)
  BY <1>5, UnlinkStore
<1>7. /\ IsStore(y) /\ Safe(y, a) /\ SameCounts(x, y) /\ IsDir(y.files)
      /\ DOMAIN y.files = DOMAIN x.files \ first /\ \A f \in DOMAIN y.files : y.files[f] = x.files[f]
  BY <1>6 DEF Unlinked, Removed, IsStore
<1> HIDE DEF y
<1>8. Good(y.files) /\ Durable(y.files, a)
  BY <1>7, FilesSafe
<1>9. ASSUME NEW n \in GenerationsIn(y.files)
      PROVE  FilesOf(y.files[Segments(n)].val.segs) \cap rest = {} /\ Segments(n) \notin rest
  <2>1. Segments(n) \in DOMAIN y.files
    BY <1>7, GenerationsAre
  <2>2. Segments(n) \notin F /\ n \in GenerationsIn(x.files) /\ y.files[Segments(n)] = x.files[Segments(n)]
    BY <2>1, <1>1, <1>2, <1>7, GenerationsAre
  <2> QED
    BY <2>2 DEF Deletable
<1>10. Deletable(y.files, rest)
  BY <1>9 DEF Deletable
<1>11. \A d : IsDir(d) /\ Between(d, y.files, rest) => Good(d) /\ Durable(d, a)
  <2> SUFFICES ASSUME NEW d, IsDir(d), Between(d, y.files, rest) PROVE Good(d) /\ Durable(d, a)
    OBVIOUS
  <2>1. ASSUME NEW n \in GenerationsIn(d) PROVE n \in GenerationsIn(y.files)
    <3>1. Segments(n) \in DOMAIN d
      BY GenerationsAre
    <3>2. Segments(n) \in DOMAIN y.files
      BY <3>1 DEF Between, At
    <3> QED
      BY <3>2, <1>7, GenerationsAre
  <2>2. \A n \in GenerationsIn(d) : FilesOf(y.files[Segments(n)].val.segs) \cap rest = {}
    BY <2>1, <1>9
  <2> HIDE DEF rest
  <2> QED
    BY <2>2, <1>7, <1>8, <1>10, DeletedGood
<1>12. Unlinked(y, z, rest, a)
  <2> HIDE DEF rest
  <2> QED
    BY <1>7, <1>11, UnlinkStore
<1>13. /\ IsStore(z) /\ Safe(z, a) /\ SameCounts(y, z)
       /\ DOMAIN z.files = DOMAIN y.files \ rest /\ \A f \in DOMAIN z.files : z.files[f] = y.files[f]
  BY <1>12 DEF Unlinked, Removed
<1>14. DeleteFiles(x, F) = z
  BY DEF DeleteFiles, y
<1> HIDE DEF z
<1>15. SameCounts(x, z)
  BY <1>7, <1>13 DEF SameCounts
<1>16. DOMAIN z.files = DOMAIN x.files \ F /\ \A f \in DOMAIN z.files : z.files[f] = x.files[f]
  BY <1>7, <1>13
<1> QED
  BY <1>13, <1>14, <1>15, <1>16 DEF Unlinked, Removed

-----------------------------------------------------------------------------
(* Counting references. *)

One(f, F) == IF f \in F THEN 1 ELSE 0

\* How many of the commits after the k-th refer to f.
After(cs, k, f) == {i \in k + 1..Len(cs) : f \in cs[i].files}
From(cs, k, f) == Cardinality(After(cs, k, f))

LEMMA FromNat ==
  ASSUME NEW cs, IsSequence(cs), NEW k \in Nat, NEW f
  PROVE  /\ IsFiniteSet(After(cs, k, f)) /\ From(cs, k, f) \in Nat
         /\ From(cs, k, f) = 0 <=> \A i \in k + 1..Len(cs) : f \notin cs[i].files
<1> DEFINE S == {i \in k + 1..Len(cs) : f \in cs[i].files}
<1>1. Len(cs) \in Int /\ k + 1 \in Int
  BY SequenceFacts
<1>2. IsFiniteSet(k + 1..Len(cs))
  BY <1>1, FS_Interval
<1>3. IsFiniteSet(S)
  BY <1>2, FS_Subset
<1>4. Cardinality(S) \in Nat
  BY <1>3, FS_CardinalityType
<1>5. Cardinality(S) = 0 <=> S = {}
  BY <1>3, FS_EmptySet
<1> QED
  BY <1>3, <1>4, <1>5 DEF From, After

LEMMA FromStep ==
  ASSUME NEW cs, IsSequence(cs), NEW k \in 1..Len(cs), NEW f
  PROVE  From(cs, k - 1, f) = From(cs, k, f) + One(f, cs[k].files)
<1> DEFINE S == {i \in k + 1..Len(cs) : f \in cs[i].files}
           T == {i \in (k - 1) + 1..Len(cs) : f \in cs[i].files}
<1>0. Len(cs) \in Nat /\ k \in Nat
  BY SequenceFacts
<1>a. S = After(cs, k, f) /\ T = After(cs, k - 1, f)
  BY DEF After
<1>1. IsFiniteSet(S) /\ k \notin S /\ Cardinality(S) \in Nat
  <2>1. IsFiniteSet(After(cs, k, f)) /\ From(cs, k, f) \in Nat
    BY <1>0, FromNat
  <2>2. k \notin S
    BY <1>0
  <2> HIDE DEF S, T
  <2> QED
    BY <1>a, <2>1, <2>2 DEF From
<1>2. \A i : i \in (k - 1) + 1..Len(cs) <=> i = k \/ i \in k + 1..Len(cs)
  BY <1>0
<1>3. CASE f \in cs[k].files
  <2>1. T = S \cup {k}
    BY <1>2, <1>3
  <2> HIDE DEF S, T
  <2>2. Cardinality(T) = Cardinality(S) + 1
    BY <1>1, <2>1, FS_AddElement
  <2> QED
    BY <1>3, <2>2, <1>a DEF From, One
<1>4. CASE f \notin cs[k].files
  <2>1. T = S
    BY <1>2, <1>4
  <2> HIDE DEF S, T
  <2>2. Cardinality(T) = Cardinality(S) + 0
    BY <1>1, <2>1
  <2> QED
    BY <1>4, <2>2, <1>a DEF From, One
<1> QED
  BY <1>3, <1>4

LEMMA FromAppend ==
  ASSUME NEW cs, IsSequence(cs), NEW p, NEW f
  PROVE  From(Append(cs, p), 0, f) = From(cs, 0, f) + One(f, p.files)
<1> DEFINE n == Len(cs)
           S == {i \in 0 + 1..n : f \in cs[i].files}
           T == {i \in 0 + 1..Len(Append(cs, p)) : f \in Append(cs, p)[i].files}
<1>0. PICK X : cs \in Seq(X)
  BY DEF IsSequence
<1>a. /\ n \in Nat /\ Len(Append(cs, p)) = n + 1 /\ Append(cs, p)[n + 1] = p
      /\ \A i \in 1..n : Append(cs, p)[i] = cs[i]
  BY <1>0
<1>b. S = After(cs, 0, f) /\ T = After(Append(cs, p), 0, f)
  BY DEF After
<1>1. IsFiniteSet(S) /\ n + 1 \notin S /\ Cardinality(S) \in Nat
  <2>1. IsFiniteSet(After(cs, 0, f)) /\ From(cs, 0, f) \in Nat
    BY FromNat
  <2>2. n + 1 \notin S
    BY <1>a
  <2> HIDE DEF S, T
  <2> QED
    BY <1>b, <2>1, <2>2 DEF From
<1>2. \A i : i \in 0 + 1..n + 1 <=> i = n + 1 \/ i \in 1..n
  BY <1>a
<1>3. CASE f \in p.files
  <2>1. T = S \cup {n + 1}
    BY <1>2, <1>3, <1>a
  <2> HIDE DEF S, T
  <2>2. Cardinality(T) = Cardinality(S) + 1
    BY <1>1, <2>1, FS_AddElement
  <2> QED
    BY <1>3, <2>2, <1>b DEF From, One
<1>4. CASE f \notin p.files
  <2>1. T = S
    BY <1>2, <1>4, <1>a
  <2> HIDE DEF S, T
  <2>2. Cardinality(T) = Cardinality(S) + 0
    BY <1>1, <2>1
  <2> QED
    BY <1>4, <2>2, <1>b DEF From, One
<1> QED
  BY <1>3, <1>4

\* The commits that are left, counted from the first.
LEMMA FromSub ==
  ASSUME NEW cs, IsSequence(cs), NEW k \in 0..Len(cs), NEW f
  PROVE  From(SubSeq(cs, k + 1, Len(cs)), 0, f) = From(cs, k, f)
<1> DEFINE n == Len(cs)
           ds == SubSeq(cs, k + 1, n)
           S == {i \in k + 1..n : f \in cs[i].files}
           T == {i \in 0 + 1..Len(ds) : f \in ds[i].files}
           F == [i \in S |-> i - k]
<1>0. PICK X : cs \in Seq(X)
  BY DEF IsSequence
<1>1. n \in Nat /\ Len(ds) = n - k /\ \A i \in 1..n - k : ds[i] = cs[i + k]
  BY <1>0
<1>2. \A i \in S : i - k \in T /\ i \in Int
  BY <1>1
<1>3. \A i \in T : i + k \in S /\ (i + k) - k = i
  BY <1>1
<1>4. F \in Bijection(S, T)
  <2>1. F \in [S -> T]
    BY <1>2
  <2>2. \A i, j \in S : F[i] = F[j] => i = j
    BY <1>2
  <2>3. \A t \in T : \E s \in S : F[s] = t
    BY <1>3
  <2> HIDE DEF F, S, T
  <2> QED
    BY <2>1, <2>2, <2>3, Fun_IsBij
<1>a. S = After(cs, k, f) /\ T = After(ds, 0, f)
  BY DEF After
<1>5. IsFiniteSet(S)
  <2>1. k \in Nat
    OBVIOUS
  <2>2. IsFiniteSet(After(cs, k, f))
    BY <2>1, FromNat
  <2> HIDE DEF S, T
  <2> QED
    BY <1>a, <2>2
<1>6. Cardinality(T) = Cardinality(S)
  <2> HIDE DEF F, S, T
  <2> QED
    BY <1>4, <1>5, FS_Bijection DEF ExistsBijection
<1> QED
  BY <1>6, <1>a DEF From

LEMMA FromAll ==
  ASSUME NEW cs, IsSequence(cs), NEW f
  PROVE  InCommits(cs, f) = From(cs, 0, f)
<1>1. DOMAIN cs = 0 + 1..Len(cs)
  BY SequenceFacts
<1> QED
  BY <1>1 DEF InCommits, From, After

\* The same directory and journal.
LEMMA SameDisk ==
  ASSUME NEW x, NEW y, NEW a, IsStore(x), IsStore(y), y.files = x.files, y.journal = x.journal,
         Safe(x, a)
  PROVE  Safe(y, a)
<1>1. Len(x.journal) \in Nat
  BY SequenceFacts DEF IsStore
<1>2. Follows(x, y)
  BY <1>1, FilesChange, KeptAtSame
<1> QED
  BY <1>2, FollowsSafe

\* Counts change, and nothing else.
Recounted(x, y, a) ==
  /\ IsStore(y) /\ Safe(y, a) /\ y.files = x.files /\ y.commits = x.commits /\ y.last = x.last

LEMMA IncRefStore ==
  ASSUME NEW x, NEW a, NEW F, IsStore(x), Safe(x, a), \A f : Count(x, f) \in Nat
  PROVE  LET y == IncRefFiles(x, F)
         IN  Recounted(x, y, a) /\ \A f : Count(y, f) = Count(x, f) + One(f, F)
<1> DEFINE y == IncRefFiles(x, F)
           rc == [f \in DOMAIN x.rc \cup F |-> Count(x, f) + (IF f \in F THEN 1 ELSE 0)]
<1>1. x = [files |-> x.files, journal |-> x.journal, rc |-> x.rc, commits |-> x.commits,
           last |-> x.last]
  BY DEF IsStore
<1>2. y = [files |-> x.files, journal |-> x.journal, rc |-> rc, commits |-> x.commits,
           last |-> x.last]
  <2>1. y = [x EXCEPT !.rc = rc]
    BY DEF IncRefFiles
  <2> HIDE DEF y, rc
  <2> QED
    BY <1>1, <2>1
<1> HIDE DEF y
<1>3. /\ y.files = x.files /\ y.journal = x.journal /\ y.rc = rc /\ y.commits = x.commits
      /\ y.last = x.last
  BY <1>2
<1>4. IsStore(y)
  BY <1>2, <1>3 DEF IsStore
<1>5. Safe(y, a)
  BY <1>3, <1>4, SameDisk
<1>6. ASSUME NEW f PROVE Count(y, f) = Count(x, f) + One(f, F)
  <2>1. CASE f \in DOMAIN x.rc \cup F
    BY <2>1, <1>3 DEF Count, One
  <2>2. CASE f \notin DOMAIN x.rc \cup F
    BY <2>2, <1>3 DEF Count, One
  <2> QED
    BY <2>1, <2>2
<1> QED
  BY <1>3, <1>4, <1>5, <1>6 DEF Recounted, y

\* dec_ref_files before it deletes what nobody uses any more.
Unused(x, F) == {f \in F : Count(x, f) = 1}
Lowered(x, F) ==
  [x EXCEPT !.rc = [f \in (DOMAIN x.rc \cup F) \ Unused(x, F) |->
                      Count(x, f) - (IF f \in F THEN 1 ELSE 0)]]

LEMMA LoweredStore ==
  ASSUME NEW x, NEW a, NEW F, IsStore(x), Safe(x, a), \A f : Count(x, f) \in Nat,
         \A f \in F : Count(x, f) > 0
  PROVE  LET y == Lowered(x, F)
         IN  /\ Recounted(x, y, a) /\ \A f : Count(y, f) = Count(x, f) - One(f, F)
             /\ DecRefFiles(x, F) = DeleteFiles(y, Unused(x, F))
<1> DEFINE y == Lowered(x, F)
           rc == [f \in (DOMAIN x.rc \cup F) \ Unused(x, F) |->
                    Count(x, f) - (IF f \in F THEN 1 ELSE 0)]
<1>1. x = [files |-> x.files, journal |-> x.journal, rc |-> x.rc, commits |-> x.commits,
           last |-> x.last]
  BY DEF IsStore
<1>2. y = [files |-> x.files, journal |-> x.journal, rc |-> rc, commits |-> x.commits,
           last |-> x.last]
  <2>1. y = [x EXCEPT !.rc = rc]
    BY DEF Lowered
  <2> HIDE DEF y, rc
  <2> QED
    BY <1>1, <2>1
<1>a. DecRefFiles(x, F) = DeleteFiles(y, Unused(x, F))
  BY DEF DecRefFiles, Lowered, Unused
<1> HIDE DEF y
<1>3. /\ y.files = x.files /\ y.journal = x.journal /\ y.rc = rc /\ y.commits = x.commits
      /\ y.last = x.last
  BY <1>2
<1>4. IsStore(y)
  BY <1>2, <1>3 DEF IsStore
<1>5. Safe(y, a)
  BY <1>3, <1>4, SameDisk
<1>6. ASSUME NEW f PROVE Count(y, f) = Count(x, f) - One(f, F)
  <2>1. CASE f \in Unused(x, F)
    <3>1. f \notin DOMAIN y.rc
      BY <2>1, <1>3
    <3> QED
      BY <2>1, <3>1 DEF Count, One, Unused
  <2>2. CASE f \in (DOMAIN x.rc \cup F) \ Unused(x, F)
    BY <2>2, <1>3 DEF Count, One
  <2>3. CASE f \notin DOMAIN x.rc \cup F
    BY <2>3, <1>3 DEF Count, One
  <2> QED
    BY <2>1, <2>2, <2>3
<1> QED
  BY <1>3, <1>4, <1>5, <1>6, <1>a DEF Recounted, y

-----------------------------------------------------------------------------
(* The deleter. *)

LEMMA FilesOfData ==
  ASSUME NEW segs, IsSegs(segs), NEW f \in FilesOf(segs)
  PROVE  IsFile(f) /\ ~ IsCommitFile(f) /\ ~ IsSegments(f) /\ f[2] \in DOMAIN segs
<1>1. PICK s \in DOMAIN segs : f \in SegmentFiles(s, segs[s])
  BY DEF FilesOf
<1>2. s \in Nat /\ segs[s].del \in Nat /\ segs[s].dv \in Nat
  BY DEF IsSegs, Entries
<1>3. f \in {Core(s), Live(s, segs[s].del), Dv(s, segs[s].dv)}
  BY <1>1 DEF SegmentFiles
<1>4. f[2] = s
  BY <1>3 DEF Core, Live, Dv
<1> QED
  BY <1>2, <1>3, <1>4, NameFacts

\* A commit of the deleter: a segments_N and the files it names.
IsPoint(d, c) ==
  /\ c.gen \in Nat /\ Segments(c.gen) \in DOMAIN d
  /\ c.files = FilesOf(d[Segments(c.gen)].val.segs) \cup {Segments(c.gen)}

\* The deleter counts the commits after the k-th and the holders A to D, whose files are data
\* that is there.
Consistent(x, a, k, A, B, C, D) ==
  /\ IsStore(x) /\ Safe(x, a) /\ k \in 0..Len(x.commits)
  /\ \A f : Count(x, f) = From(x.commits, k, f) + One(f, A) + One(f, B) + One(f, C) + One(f, D)
  /\ \A F \in {A, B, C, D} : \A f \in F : f \in DOMAIN x.files /\ ~ IsCommitFile(f)
  /\ \A i \in k + 1..Len(x.commits) : IsPoint(x.files, x.commits[i])
  /\ \A i, j \in k + 1..Len(x.commits) : i < j => x.commits[i].gen < x.commits[j].gen

\* Each segments_N that is not among F is one of the commits, or it is segments_g, which a commit
\* under way has renamed and whose files are those of B.
Covered(x, k, g, B, F) ==
  \A n \in GenerationsIn(x.files) :
    \/ Segments(n) \in F
    \/ \E i \in k + 1..Len(x.commits) : x.commits[i].gen = n
    \/ n = g /\ FilesOf(x.files[Segments(n)].val.segs) \subseteq B
Deleter(x, a, k, g, A, B, C, D) ==
  Consistent(x, a, k, A, B, C, D) /\ Covered(x, k, g, B, {})

\* From x to y files are deleted that somebody held, and only those of F are new to the counts.
Lost(x, y, F) ==
  /\ \A f \in DOMAIN y.files : f \in DOMAIN x.files /\ y.files[f] = x.files[f]
  /\ \A f \in DOMAIN x.files : f \in DOMAIN y.files \/ f \in F \/ Count(x, f) # 0
  /\ \A f : f \notin F /\ Count(x, f) = 0 => Count(y, f) = 0
Shrunk(x, y) == y.commits = x.commits /\ y.last = x.last /\ Lost(x, y, {})

\* What it counts.
LEMMA CountFacts ==
  ASSUME NEW x, NEW a, NEW k, NEW A, NEW B, NEW C, NEW D, Consistent(x, a, k, A, B, C, D)
  PROVE  /\ k \in Nat /\ Len(x.commits) \in Nat /\ IsDir(x.files) /\ Good(x.files)
         /\ \A f : Count(x, f) \in Nat /\ From(x.commits, k, f) \in Nat
         /\ \A f : Count(x, f) = 0 <=> /\ \A i \in k + 1..Len(x.commits) : f \notin x.commits[i].files
                                       /\ f \notin A /\ f \notin B /\ f \notin C /\ f \notin D
         /\ \A i \in k + 1..Len(x.commits) : IsSegs(x.files[Segments(x.commits[i].gen)].val.segs)
         /\ \A f : Count(x, f) # 0 => f \in DOMAIN x.files
<1>1. IsSequence(x.commits) /\ IsStore(x) /\ Safe(x, a) /\ k \in 0..Len(x.commits)
  BY DEF Consistent, IsStore
<1>2. k \in Nat /\ Len(x.commits) \in Nat /\ IsDir(x.files) /\ Good(x.files)
  BY <1>1, SequenceFacts, FilesSafe DEF IsStore
<1>3. ASSUME NEW f
      PROVE  /\ Count(x, f) \in Nat /\ From(x.commits, k, f) \in Nat
             /\ Count(x, f) = 0 <=> /\ \A i \in k + 1..Len(x.commits) : f \notin x.commits[i].files
                                    /\ f \notin A /\ f \notin B /\ f \notin C /\ f \notin D
  <2>1. /\ From(x.commits, k, f) \in Nat
        /\ From(x.commits, k, f) = 0 <=> \A i \in k + 1..Len(x.commits) : f \notin x.commits[i].files
    BY <1>1, <1>2, FromNat
  <2>2. Count(x, f) = From(x.commits, k, f) + One(f, A) + One(f, B) + One(f, C) + One(f, D)
    BY DEF Consistent
  <2>3. \A F : One(f, F) \in {0, 1} /\ (One(f, F) = 0 <=> f \notin F)
    BY DEF One
  <2> QED
    BY <2>1, <2>2, <2>3
<1>4. ASSUME NEW i \in k + 1..Len(x.commits)
      PROVE  /\ IsSegs(x.files[Segments(x.commits[i].gen)].val.segs)
             /\ x.commits[i].files \subseteq DOMAIN x.files
  <2>1. IsPoint(x.files, x.commits[i])
    BY DEF Consistent
  <2>2. x.commits[i].gen \in Nat /\ Segments(x.commits[i].gen) \in DOMAIN x.files
    BY <2>1 DEF IsPoint
  <2>3. IsCommitFile(Segments(x.commits[i].gen)) /\ x.commits[i].gen \in GenerationsIn(x.files)
    BY <2>2, <1>2, NameFacts, GenerationsAre
  <2>4. IsInfos(x.files[Segments(x.commits[i].gen)].val)
    BY <2>2, <2>3, <1>2 DEF IsDir, IsState
  <2>5. Readable(x.files, x.commits[i].gen)
    BY <2>3, <1>2 DEF Good
  <2> QED
    BY <2>1, <2>2, <2>4, <2>5 DEF IsInfos, IsPoint, Readable
<1>5. \A F \in {A, B, C, D} : F \subseteq DOMAIN x.files
  BY DEF Consistent
<1> QED
  BY <1>2, <1>3, <1>4, <1>5

\* Files that nobody refers to are deleted.
LEMMA DeleteUnused ==
  ASSUME NEW x, NEW a, NEW k, NEW g, NEW A, NEW B, NEW C, NEW D, NEW F,
         Consistent(x, a, k, A, B, C, D), Covered(x, k, g, B, F), \A f \in F : Count(x, f) = 0,
         \A n \in GenerationsIn(x.files) : Segments(n) \in F =>
            \E m \in GenerationsIn(x.files) : m > n /\ Segments(m) \notin F
  PROVE  LET y == DeleteFiles(x, F)
         IN  /\ Deleter(y, a, k, g, A, B, C, D) /\ SameCounts(x, y)
             /\ Removed(x, y, F)
<1> DEFINE y == DeleteFiles(x, F)
<1>1. IsStore(x) /\ Safe(x, a) /\ k \in 0..Len(x.commits)
  BY DEF Consistent
<1>2. /\ k \in Nat /\ Len(x.commits) \in Nat /\ IsDir(x.files)
      /\ \A f \in F : /\ \A i \in k + 1..Len(x.commits) : f \notin x.commits[i].files
                      /\ f \notin A /\ f \notin B /\ f \notin C /\ f \notin D
  BY CountFacts
<1>a. \A i \in k + 1..Len(x.commits) : IsPoint(x.files, x.commits[i])
  BY DEF Consistent
<1>3. Deletable(x.files, F)
  <2> SUFFICES ASSUME NEW n \in GenerationsIn(x.files), Segments(n) \notin F
               PROVE  FilesOf(x.files[Segments(n)].val.segs) \cap F = {}
    BY DEF Deletable
  <2>1. CASE \E i \in k + 1..Len(x.commits) : x.commits[i].gen = n
    BY <2>1, <1>2, <1>a DEF IsPoint
  <2>2. CASE FilesOf(x.files[Segments(n)].val.segs) \subseteq B
    BY <2>2, <1>2
  <2> QED
    BY <2>1, <2>2 DEF Covered
<1>4. /\ IsStore(y) /\ Safe(y, a) /\ SameCounts(x, y) /\ Removed(x, y, F)
      /\ DOMAIN y.files = DOMAIN x.files \ F /\ \A f \in DOMAIN y.files : y.files[f] = x.files[f]
  <2>1. Unlinked(x, y, F, a)
    BY <1>1, <1>3, DeleteStore
  <2> HIDE DEF y
  <2> QED
    BY <2>1 DEF Unlinked, Removed
<1> HIDE DEF y
<1>5. y.rc = x.rc /\ y.commits = x.commits /\ \A f : Count(y, f) = Count(x, f)
  BY <1>4 DEF SameCounts, Count
<1>6. ASSUME NEW i \in k + 1..Len(x.commits) PROVE IsPoint(y.files, x.commits[i])
  <2>1. Segments(x.commits[i].gen) \in x.commits[i].files /\ IsPoint(x.files, x.commits[i])
    BY <1>a DEF IsPoint
  <2>2. Segments(x.commits[i].gen) \in DOMAIN y.files
    BY <2>1, <1>2, <1>4 DEF IsPoint
  <2> QED
    BY <2>1, <2>2, <1>4 DEF IsPoint
<1>7. ASSUME NEW S \in {A, B, C, D}, NEW f \in S PROVE f \in DOMAIN y.files /\ ~ IsCommitFile(f)
  <2>1. f \in DOMAIN x.files /\ ~ IsCommitFile(f)
    BY DEF Consistent
  <2> QED
    BY <2>1, <1>2, <1>4
<1>8. Consistent(y, a, k, A, B, C, D)
  <2>1. \A f : Count(x, f) = From(x.commits, k, f) + One(f, A) + One(f, B) + One(f, C) + One(f, D)
    BY DEF Consistent
  <2>2. \A i, j \in k + 1..Len(x.commits) : i < j => x.commits[i].gen < x.commits[j].gen
    BY DEF Consistent
  <2> QED
    BY <1>1, <1>4, <1>5, <1>6, <1>7, <2>1, <2>2 DEF Consistent
<1>9. Covered(y, k, g, B, {})
  <2> SUFFICES ASSUME NEW n \in GenerationsIn(y.files)
               PROVE  \/ \E i \in k + 1..Len(x.commits) : x.commits[i].gen = n
                      \/ n = g /\ FilesOf(y.files[Segments(n)].val.segs) \subseteq B
    BY <1>5 DEF Covered
  <2>1. Segments(n) \in DOMAIN y.files
    BY <1>4, GenerationsAre DEF IsStore
  <2>2. n \in GenerationsIn(x.files) /\ Segments(n) \notin F /\ y.files[Segments(n)] = x.files[Segments(n)]
    BY <2>1, <1>2, <1>4, GenerationsAre
  <2> QED
    BY <2>2 DEF Covered
<1> QED
  BY <1>4, <1>8, <1>9 DEF Deleter, y

\* A new holder.
LEMMA Acquire ==
  ASSUME NEW x, NEW a, NEW k, NEW g, NEW A, NEW B, NEW C, NEW F, Deleter(x, a, k, g, A, B, C, {}),
         \A f \in F : f \in DOMAIN x.files /\ ~ IsCommitFile(f)
  PROVE  LET y == IncRefFiles(x, F)
         IN  /\ Deleter(y, a, k, g, A, B, C, F) /\ Recounted(x, y, a)
             /\ \A f : f \notin F => Count(y, f) = Count(x, f)
<1> DEFINE y == IncRefFiles(x, F)
<1>1. Consistent(x, a, k, A, B, C, {}) /\ Covered(x, k, g, B, {})
  BY DEF Deleter
<1>2. IsStore(x) /\ Safe(x, a) /\ \A f : Count(x, f) \in Nat /\ From(x.commits, k, f) \in Nat
  <2>1. IsStore(x) /\ Safe(x, a)
    BY <1>1 DEF Consistent
  <2> QED
    BY <1>1, <2>1, CountFacts
<1>3. Recounted(x, y, a) /\ \A f : Count(y, f) = Count(x, f) + One(f, F)
  BY <1>2, IncRefStore
<1> HIDE DEF y
<1>4. IsStore(y) /\ Safe(y, a) /\ y.files = x.files /\ y.commits = x.commits /\ y.last = x.last
  BY <1>3 DEF Recounted
<1>5. ASSUME NEW f
      PROVE  Count(y, f) = From(x.commits, k, f) + One(f, A) + One(f, B) + One(f, C) + One(f, F)
  <2>1. Count(x, f) = From(x.commits, k, f) + One(f, A) + One(f, B) + One(f, C) + One(f, {})
    BY <1>1 DEF Consistent
  <2>2. One(f, {}) = 0 /\ \A S : One(f, S) \in {0, 1}
    BY DEF One
  <2> QED
    BY <2>1, <2>2, <1>2, <1>3
<1>6. Consistent(y, a, k, A, B, C, F)
  BY <1>1, <1>4, <1>5 DEF Consistent
<1>7. Covered(y, k, g, B, {})
  BY <1>1, <1>4 DEF Covered
<1>8. \A f : f \notin F => Count(y, f) = Count(x, f)
  BY <1>2, <1>3 DEF One
<1> QED
  BY <1>3, <1>6, <1>7, <1>8 DEF Deleter, y

\* A holder lets go.
LEMMA LetGo ==
  ASSUME NEW x, NEW a, NEW k, NEW g, NEW A, NEW B, NEW C, NEW D, Deleter(x, a, k, g, A, B, C, D)
  PROVE  LET y == DecRefFiles(x, D)
         IN  Deleter(y, a, k, g, A, B, C, {}) /\ Shrunk(x, y)
<1> DEFINE z == Lowered(x, D)
           F == Unused(x, D)
           y == DeleteFiles(z, F)
<1>1. Consistent(x, a, k, A, B, C, D) /\ Covered(x, k, g, B, {})
  BY DEF Deleter
<1>2. IsStore(x) /\ Safe(x, a) /\ \A f : Count(x, f) \in Nat /\ From(x.commits, k, f) \in Nat
  <2>1. IsStore(x) /\ Safe(x, a)
    BY <1>1 DEF Consistent
  <2> QED
    BY <1>1, <2>1, CountFacts
<1>3. \A f \in D : Count(x, f) # 0 /\ ~ IsCommitFile(f)
  <2>1. \A f \in D : ~ IsCommitFile(f)
    BY <1>1 DEF Consistent
  <2>2. \A f \in D : Count(x, f) # 0
    BY <1>1, CountFacts
  <2> QED
    BY <2>1, <2>2
<1>a. \A f \in D : Count(x, f) > 0
  BY <1>2, <1>3
<1>4. Recounted(x, z, a) /\ (\A f : Count(z, f) = Count(x, f) - One(f, D)) /\ DecRefFiles(x, D) = y
  BY <1>2, <1>a, LoweredStore
<1>b. F \subseteq D /\ \A f \in F : Count(x, f) = 1
  BY DEF Unused
<1> HIDE DEF z, F
<1>5. IsStore(z) /\ Safe(z, a) /\ z.files = x.files /\ z.commits = x.commits /\ z.last = x.last
  BY <1>4 DEF Recounted
<1>6. ASSUME NEW f
      PROVE  Count(z, f) = From(x.commits, k, f) + One(f, A) + One(f, B) + One(f, C) + One(f, {})
  <2>1. Count(x, f) = From(x.commits, k, f) + One(f, A) + One(f, B) + One(f, C) + One(f, D)
    BY <1>1 DEF Consistent
  <2>2. One(f, {}) = 0 /\ \A S : One(f, S) \in {0, 1}
    BY DEF One
  <2> QED
    BY <2>1, <2>2, <1>2, <1>4
<1>7. Consistent(z, a, k, A, B, C, {})
  BY <1>1, <1>5, <1>6 DEF Consistent
<1>8. \A f \in F : Count(z, f) = 0
  BY <1>4, <1>b DEF One
<1>9. Covered(z, k, g, B, F)
  BY <1>1, <1>5 DEF Covered
<1>10. \A n : Segments(n) \notin F
  BY <1>3, <1>b DEF IsCommitFile, Segments
<1>11. Deleter(y, a, k, g, A, B, C, {}) /\ SameCounts(z, y) /\ Removed(z, y, F)
  BY <1>7, <1>8, <1>9, <1>10, DeleteUnused
<1> HIDE DEF y
<1>12. Shrunk(x, y)
  <2>1. /\ y.commits = x.commits /\ y.last = x.last
        /\ DOMAIN y.files = DOMAIN x.files \ F /\ \A f \in DOMAIN y.files : y.files[f] = x.files[f]
    BY <1>5, <1>11 DEF SameCounts, Removed
  <2>2. \A f : Count(x, f) = 0 => Count(z, f) = 0
    BY <1>3, <1>4 DEF One
  <2>3. \A f : Count(x, f) = 0 => Count(y, f) = 0
    BY <2>2, <1>11 DEF SameCounts, Count
  <2> QED
    BY <2>1, <2>3, <1>b DEF Shrunk, Lost
<1> QED
  BY <1>4, <1>11, <1>12

\* One thing after the other.
LEMMA LostTwice ==
  ASSUME NEW x, NEW y, NEW z, NEW F, Lost(x, y, F), Lost(y, z, {})
  PROVE  Lost(x, z, F)
<1>1. \A f \in DOMAIN z.files : f \in DOMAIN x.files /\ z.files[f] = x.files[f]
  BY DEF Lost
<1>2. \A f : f \notin F /\ Count(x, f) = 0 => Count(z, f) = 0
  BY DEF Lost
<1>3. \A f \in DOMAIN x.files : f \in DOMAIN z.files \/ f \in F \/ Count(x, f) # 0
  BY DEF Lost
<1> QED
  BY <1>1, <1>2, <1>3 DEF Lost

LEMMA ShrunkTwice ==
  ASSUME NEW x, NEW y, NEW z, Shrunk(x, y), Shrunk(y, z)
  PROVE  Shrunk(x, z)
BY LostTwice DEF Shrunk

\* The holders are alike.
LEMMA Swap ==
  ASSUME NEW x, NEW a, NEW k, NEW g, NEW A, NEW B, NEW C, NEW D, Deleter(x, a, k, g, A, B, C, D)
  PROVE  /\ Deleter(x, a, k, g, D, B, C, A) /\ Deleter(x, a, k, g, A, B, D, C)
         /\ g = 0 => Deleter(x, a, k, 0, A, D, C, B)
<1>1. Consistent(x, a, k, A, B, C, D) /\ Covered(x, k, g, B, {})
  BY DEF Deleter
<1>2. ASSUME NEW f
      PROVE  LET n == From(x.commits, k, f)
             IN  /\ Count(x, f) = n + One(f, D) + One(f, B) + One(f, C) + One(f, A)
                 /\ Count(x, f) = n + One(f, A) + One(f, B) + One(f, D) + One(f, C)
                 /\ Count(x, f) = n + One(f, A) + One(f, D) + One(f, C) + One(f, B)
  <2>1. Count(x, f) = From(x.commits, k, f) + One(f, A) + One(f, B) + One(f, C) + One(f, D)
    BY <1>1 DEF Consistent
  <2>2. From(x.commits, k, f) \in Nat
    BY <1>1, CountFacts
  <2>3. \A S : One(f, S) \in {0, 1}
    BY DEF One
  <2> QED
    BY <2>1, <2>2, <2>3
<1>3. Consistent(x, a, k, D, B, C, A) /\ Consistent(x, a, k, A, B, D, C) /\ Consistent(x, a, k, A, D, C, B)
  BY <1>1, <1>2 DEF Consistent
<1>4. g = 0 => Covered(x, k, 0, D, {})
  <2>1. Good(x.files)
    BY <1>1, CountFacts
  <2>2. \A n \in GenerationsIn(x.files) : n # 0
    BY <2>1 DEF Good
  <2> QED
    BY <1>1, <2>2 DEF Covered
<1> QED
  BY <1>1, <1>3, <1>4 DEF Deleter

\* The deleter lets go of the oldest of its commits.
LEMMA DropPoint ==
  ASSUME NEW x, NEW a, NEW g, NEW A, NEW B, NEW C, NEW D, NEW k \in 1..Len(x.commits),
         k # Len(x.commits), Deleter(x, a, k - 1, g, A, B, C, D)
  PROVE  LET y == DecRefFiles(x, x.commits[k].files)
         IN  Deleter(y, a, k, g, A, B, C, D) /\ Shrunk(x, y)
<1> DEFINE P == x.commits[k].files
           z == Lowered(x, P)
           F == Unused(x, P)
           y == DeleteFiles(z, F)
           n == Len(x.commits)
<1>1. Consistent(x, a, k - 1, A, B, C, D) /\ Covered(x, k - 1, g, B, {})
  BY DEF Deleter
<1>2. /\ n \in Nat /\ IsDir(x.files)
      /\ \A f : Count(x, f) \in Nat
      /\ \A f : Count(x, f) = 0 <=> /\ \A i \in (k - 1) + 1..n : f \notin x.commits[i].files
                                    /\ f \notin A /\ f \notin B /\ f \notin C /\ f \notin D
      /\ \A i \in (k - 1) + 1..n : IsSegs(x.files[Segments(x.commits[i].gen)].val.segs)
  BY <1>1, CountFacts
<1>3. /\ IsStore(x) /\ Safe(x, a) /\ IsSequence(x.commits)
      /\ \A i \in (k - 1) + 1..n : IsPoint(x.files, x.commits[i])
      /\ \A i, j \in (k - 1) + 1..n : i < j => x.commits[i].gen < x.commits[j].gen
      /\ \A S \in {A, B, C, D} : \A f \in S : f \in DOMAIN x.files /\ ~ IsCommitFile(f)
  BY <1>1 DEF Consistent, IsStore
<1>4. /\ k \in Nat /\ k \in (k - 1) + 1..n /\ n \in k + 1..n
      /\ \A i \in k + 1..n : i \in (k - 1) + 1..n /\ k < i
      /\ \A i \in (k - 1) + 1..n : i = k \/ i \in k + 1..n
  BY <1>2
<1>5. ASSUME NEW f PROVE From(x.commits, k - 1, f) = From(x.commits, k, f) + One(f, P) /\ From(x.commits, k, f) \in Nat
  BY <1>3, <1>4, FromStep, FromNat
<1>6. \A f \in P : Count(x, f) > 0
  BY <1>2, <1>4
<1>7. Recounted(x, z, a) /\ (\A f : Count(z, f) = Count(x, f) - One(f, P)) /\ DecRefFiles(x, P) = y
  BY <1>2, <1>3, <1>6, LoweredStore
<1>8. F \subseteq P /\ (\A f \in F : Count(x, f) = 1) /\ \A f \in P : Count(x, f) = 1 => f \in F
  BY DEF Unused
<1>9. ASSUME NEW i \in (k - 1) + 1..n, NEW m
      PROVE  /\ Segments(m) \in x.commits[i].files <=> m = x.commits[i].gen
             /\ Segments(m) \notin A /\ Segments(m) \notin B /\ Segments(m) \notin C /\ Segments(m) \notin D
  <2>1. IsPoint(x.files, x.commits[i]) /\ IsSegs(x.files[Segments(x.commits[i].gen)].val.segs)
    BY <1>2, <1>3
  <2>2. IsSegments(Segments(m)) /\ IsCommitFile(Segments(m)) /\ Segments(m)[2] = m
    BY DEF IsSegments, IsCommitFile, Segments
  <2>3. Segments(m) \notin FilesOf(x.files[Segments(x.commits[i].gen)].val.segs)
    BY <2>1, <2>2, FilesOfData
  <2>4. Segments(m) = Segments(x.commits[i].gen) <=> m = x.commits[i].gen
    BY DEF Segments
  <2> QED
    BY <2>1, <2>2, <2>3, <2>4, <1>3 DEF IsPoint
<1> HIDE DEF F, z
<1>10. IsStore(z) /\ Safe(z, a) /\ z.files = x.files /\ z.commits = x.commits /\ z.last = x.last
  BY <1>7 DEF Recounted
<1>11. ASSUME NEW f
       PROVE  Count(z, f) = From(x.commits, k, f) + One(f, A) + One(f, B) + One(f, C) + One(f, D)
  <2>1. Count(x, f) = From(x.commits, k - 1, f) + One(f, A) + One(f, B) + One(f, C) + One(f, D)
    BY <1>1 DEF Consistent
  <2>2. \A S : One(f, S) \in {0, 1}
    BY DEF One
  <2> QED
    BY <2>1, <2>2, <1>5, <1>7
<1>12. Consistent(z, a, k, A, B, C, D)
  <2>1. k \in 0..Len(z.commits)
    BY <1>10
  <2>2. \A i \in k + 1..Len(z.commits) : IsPoint(z.files, z.commits[i])
    BY <1>3, <1>4, <1>10
  <2>3. \A i, j \in k + 1..Len(z.commits) : i < j => z.commits[i].gen < z.commits[j].gen
    BY <1>3, <1>4, <1>10
  <2> QED
    BY <1>3, <1>10, <1>11, <2>1, <2>2, <2>3 DEF Consistent
<1> DEFINE gone == x.commits[k].gen
<1>13. Segments(gone) \in F
  <2>1. Segments(gone) \in P
    BY <1>4, <1>9
  <2>2. \A i \in k + 1..n : Segments(gone) \notin x.commits[i].files
    <3> TAKE i \in k + 1..n
    <3>1. i \in (k - 1) + 1..n /\ x.commits[k].gen < x.commits[i].gen
      BY <1>3, <1>4
    <3>2. x.commits[k].gen \in Nat /\ x.commits[i].gen \in Nat
      BY <1>3, <1>4, <3>1 DEF IsPoint
    <3>3. gone # x.commits[i].gen
      BY <3>1, <3>2
    <3> QED
      BY <3>1, <3>3, <1>9
  <2>3. From(x.commits, k, Segments(gone)) = 0
    BY <2>2, <1>3, <1>4, FromNat
  <2>4. /\ One(Segments(gone), A) = 0 /\ One(Segments(gone), B) = 0 /\ One(Segments(gone), C) = 0
        /\ One(Segments(gone), D) = 0 /\ One(Segments(gone), P) = 1
    BY <1>4, <1>9, <2>1 DEF One
  <2>5. Count(z, Segments(gone)) = 0
    BY <1>11, <2>3, <2>4
  <2>6. Count(x, Segments(gone)) = 1
    BY <1>2, <1>7, <2>4, <2>5
  <2> QED
    BY <1>8, <2>1, <2>6
<1>14. Covered(z, k, g, B, F)
  <2> SUFFICES ASSUME NEW m \in GenerationsIn(x.files)
               PROVE  \/ Segments(m) \in F
                      \/ \E i \in k + 1..n : x.commits[i].gen = m
                      \/ m = g /\ FilesOf(x.files[Segments(m)].val.segs) \subseteq B
    BY <1>10 DEF Covered
  <2>1. CASE \E i \in (k - 1) + 1..n : x.commits[i].gen = m
    BY <2>1, <1>4, <1>13
  <2>2. CASE m = g /\ FilesOf(x.files[Segments(m)].val.segs) \subseteq B
    BY <2>2
  <2> QED
    BY <2>1, <2>2, <1>1 DEF Covered
<1>15. \A f \in F : Count(z, f) = 0
  BY <1>7, <1>8 DEF One
<1>16. ASSUME NEW m \in GenerationsIn(z.files), Segments(m) \in F
       PROVE  \E l \in GenerationsIn(z.files) : l > m /\ Segments(l) \notin F
  <2>1. m = gone
    BY <1>4, <1>8, <1>9, <1>16
  <2> DEFINE l == x.commits[n].gen
  <2>2. l > gone /\ IsPoint(x.files, x.commits[n]) /\ l # gone
    <3>1. n \in (k - 1) + 1..n /\ k < n
      BY <1>4
    <3>2. x.commits[k].gen < l /\ IsPoint(x.files, x.commits[n]) /\ IsPoint(x.files, x.commits[k])
      BY <1>3, <1>4, <3>1
    <3>3. l \in Nat /\ gone \in Nat
      BY <3>2 DEF IsPoint
    <3> QED
      BY <3>2, <3>3
  <2>3. Segments(l) \in DOMAIN x.files
    BY <2>2 DEF IsPoint
  <2>4. l \in GenerationsIn(z.files)
    BY <2>3, <1>2, <1>10, GenerationsAre
  <2>5. Segments(l) \notin P
    BY <2>2, <1>4, <1>9
  <2> HIDE DEF l
  <2> QED
    BY <2>1, <2>2, <2>4, <2>5, <1>8
<1>17. Deleter(y, a, k, g, A, B, C, D) /\ SameCounts(z, y) /\ Removed(z, y, F)
  BY <1>12, <1>14, <1>15, <1>16, DeleteUnused
<1> HIDE DEF y
<1>18. Shrunk(x, y)
  <2>1. /\ y.commits = x.commits /\ y.last = x.last
        /\ DOMAIN y.files = DOMAIN x.files \ F /\ \A f \in DOMAIN y.files : y.files[f] = x.files[f]
    BY <1>10, <1>17 DEF SameCounts, Removed
  <2>2. \A f : Count(x, f) = 0 => Count(z, f) = 0
    <3> TAKE f
    <3>1. Count(x, f) = 0 => f \notin P
      BY <1>6
    <3> HIDE DEF P
    <3> QED
      BY <3>1, <1>7 DEF One
  <2>3. \A f : Count(x, f) = 0 => Count(y, f) = 0
    BY <2>2, <1>17 DEF SameCounts, Count
  <2> QED
    BY <2>1, <2>3, <1>8 DEF Shrunk, Lost
<1> QED
  BY <1>7, <1>17, <1>18

LEMMA ReleaseStore ==
  ASSUME NEW x, NEW a, NEW g, NEW A, NEW B, NEW C, NEW D, Deleter(x, a, 0, g, A, B, C, D),
         NEW k \in Nat, k = 0 \/ k < Len(x.commits)
  PROVE  Deleter(Release(x, k), a, k, g, A, B, C, D) /\ Shrunk(x, Release(x, k))
<1> DEFINE y == Steps(x, k)
           Fine(i) == Deleter(y[i], a, i, g, A, B, C, D) /\ Shrunk(x, y[i])
           Bad == {i \in 0..k : ~ Fine(i)}
<1>1. /\ Release(x, k) = y[k] /\ y[0] = x
      /\ \A i \in 1..k : y[i] = DecRefFiles(y[i - 1], x.commits[i].files)
  BY ReleaseIs
<1>a. Len(x.commits) \in Nat
  BY CountFacts DEF Deleter
<1> HIDE DEF y
<1>2. Fine(0)
  BY <1>1 DEF Shrunk, Lost
<1>3. CASE Bad = {}
  BY <1>1, <1>3
<1>4. CASE Bad # {}
  <2>0. Bad \in SUBSET Nat
    OBVIOUS
  <2>1. PICK i \in Bad : \A j \in Bad : i <= j
    <3> HIDE DEF Bad
    <3> QED
      BY <2>0, <1>4, LeastNat
  <2>2. i \in 0..k /\ ~ Fine(i) /\ i # 0
    BY <2>1, <1>2
  <2> HIDE DEF Fine
  <2>3. i \in 1..k /\ i - 1 \in 0..k /\ i - 1 \notin Bad
    BY <2>1, <2>2
  <2>4. Fine(i - 1)
    BY <2>3
  <2>5. Deleter(y[i - 1], a, i - 1, g, A, B, C, D) /\ Shrunk(x, y[i - 1]) /\ y[i - 1].commits = x.commits
    BY <2>4 DEF Fine, Shrunk
  <2>6. i \in 1..Len(y[i - 1].commits) /\ i # Len(y[i - 1].commits)
    BY <2>3, <2>5, <1>a
  <2>7. y[i] = DecRefFiles(y[i - 1], y[i - 1].commits[i].files)
    BY <2>3, <2>5, <1>1
  <2>8. Deleter(y[i], a, i, g, A, B, C, D) /\ Shrunk(y[i - 1], y[i])
    BY <2>5, <2>6, <2>7, DropPoint
  <2>9. Fine(i)
    BY <2>5, <2>8, ShrunkTwice DEF Fine
  <2> QED
    BY <2>2, <2>9
<1> QED
  BY <1>3, <1>4

LEMMA DroppedBound ==
  ASSUME NEW cs, IsSequence(cs)
  PROVE  Dropped(cs) \in Nat /\ (Dropped(cs) = 0 \/ Dropped(cs) < Len(cs))
<1> DEFINE n == Len(cs)
<1>1. n \in Nat /\ Max({0, n - 1}) = IF 0 >= n - 1 THEN 0 ELSE n - 1
  BY SequenceFacts, MaxOfTwo
<1>2. (Dropped(cs) = n - 2 /\ n > 1) \/ Dropped(cs) = Max({0, n - 1})
  BY DEF Dropped
<1> HIDE DEF n
<1>3. Dropped(cs) \in Nat /\ (Dropped(cs) = 0 \/ Dropped(cs) < n)
  BY <1>1, <1>2
<1> QED
  BY <1>3 DEF n

\* The newest commit of the deleter has the files F.
Protected(x, F) ==
  \A f \in F : Len(x.commits) > 0 /\ f \in x.commits[Len(x.commits)].files

\* delete_commits
LEMMA DeleteCommitsStore ==
  ASSUME NEW x, NEW a, NEW g, NEW A, NEW B, NEW C, NEW D, Deleter(x, a, 0, g, A, B, C, D)
  PROVE  LET y == DeleteCommits(x)
         IN  /\ Deleter(y, a, 0, g, A, B, C, D) /\ y.last = x.last /\ Lost(x, y, {})
             /\ \A F : Protected(x, F) => Protected(y, F)
<1> DEFINE k == Dropped(x.commits)
           z == Release(x, k)
           cs == SubSeq(z.commits, k + 1, Len(z.commits))
           y == [z EXCEPT !.commits = cs]
<1>1. IsSequence(x.commits)
  BY DEF Deleter, Consistent, IsStore
<1>2. k \in Nat /\ (k = 0 \/ k < Len(x.commits))
  BY <1>1, DroppedBound
<1> HIDE DEF k
<1>3. Deleter(z, a, k, g, A, B, C, D) /\ Shrunk(x, z)
  BY <1>2, ReleaseStore
<1>4. DeleteCommits(x) = y
  BY DEF DeleteCommits, k
<1> HIDE DEF z
<1>5. Consistent(z, a, k, A, B, C, D) /\ Covered(z, k, g, B, {}) /\ IsStore(z) /\ Safe(z, a) /\ IsSequence(z.commits)
  BY <1>3 DEF Deleter, Consistent, IsStore
<1>6. z = [files |-> z.files, journal |-> z.journal, rc |-> z.rc, commits |-> z.commits, last |-> z.last]
  BY <1>5 DEF IsStore
<1>7. y = [files |-> z.files, journal |-> z.journal, rc |-> z.rc, commits |-> cs, last |-> z.last]
  <2> HIDE DEF cs
  <2> QED
    BY <1>6
<1>8. /\ y.files = z.files /\ y.journal = z.journal /\ y.rc = z.rc /\ y.commits = cs
      /\ y.last = z.last
  <2> HIDE DEF y, cs
  <2> QED
    BY <1>7
<1> DEFINE n == Len(z.commits)
<1>9. PICK T : z.commits \in Seq(T)
  BY <1>5 DEF IsSequence
<1>10. k \in 0..n /\ n \in Nat
  BY <1>5, SequenceFacts DEF Consistent
<1>11. cs \in Seq(T) /\ Len(cs) = n - k /\ \A i \in 1..n - k : cs[i] = z.commits[i + k]
  BY <1>9, <1>10
<1>12. \A i \in 1..n - k : i + k \in k + 1..n /\ i \in Int
  BY <1>10
<1>13. IsStore(y)
  <2>1. IsSequence(cs)
    BY <1>11 DEF IsSequence
  <2> HIDE DEF cs, y
  <2> QED
    BY <2>1, <1>5, <1>7, <1>8 DEF IsStore
<1>14. Safe(y, a)
  <2> HIDE DEF cs, y
  <2> QED
    BY <1>5, <1>8, <1>13, SameDisk
<1>15. ASSUME NEW f
       PROVE  Count(y, f) = From(y.commits, 0, f) + One(f, A) + One(f, B) + One(f, C) + One(f, D)
  <2>1. From(cs, 0, f) = From(z.commits, k, f)
    BY <1>5, <1>10, FromSub
  <2>2. Count(y, f) = Count(z, f)
    BY <1>8 DEF Count
  <2> HIDE DEF cs, y
  <2> QED
    BY <2>1, <2>2, <1>5, <1>8 DEF Consistent
<1> HIDE DEF y
<1>16. Consistent(y, a, 0, A, B, C, D)
  <2>1. 0 \in 0..Len(y.commits) /\ 0 + 1 = 1 /\ Len(y.commits) = n - k
    BY <1>8, <1>10, <1>11
  <2>2. \A i \in 1..n - k : IsPoint(y.files, y.commits[i])
    BY <1>5, <1>8, <1>11, <1>12 DEF Consistent
  <2>3. \A i, j \in 1..n - k : i < j => y.commits[i].gen < y.commits[j].gen
    <3> SUFFICES ASSUME NEW i \in 1..n - k, NEW j \in 1..n - k, i < j PROVE y.commits[i].gen < y.commits[j].gen
      OBVIOUS
    <3>1. i + k \in k + 1..n /\ j + k \in k + 1..n /\ i + k < j + k
      BY <1>10, <1>12
    <3> QED
      BY <3>1, <1>5, <1>8, <1>11 DEF Consistent
  <2>4. \A F \in {A, B, C, D} : \A f \in F : f \in DOMAIN y.files /\ ~ IsCommitFile(f)
    BY <1>5, <1>8 DEF Consistent
  <2> HIDE DEF cs, n
  <2> QED
    BY <1>13, <1>14, <1>15, <2>1, <2>2, <2>3, <2>4 DEF Consistent
<1>17. Covered(y, 0, g, B, {})
  <2> SUFFICES ASSUME NEW m \in GenerationsIn(z.files)
               PROVE  \/ \E i \in 0 + 1..Len(y.commits) : y.commits[i].gen = m
                      \/ m = g /\ FilesOf(z.files[Segments(m)].val.segs) \subseteq B
    BY <1>8 DEF Covered
  <2>1. CASE \E i \in k + 1..n : z.commits[i].gen = m
    <3>1. PICK i \in k + 1..n : z.commits[i].gen = m
      BY <2>1
    <3>2. i - k \in 1..n - k /\ (i - k) + k = i
      BY <1>10
    <3>3. cs[i - k] = z.commits[i]
      BY <3>2, <1>11
    <3>4. i - k \in 0 + 1..Len(y.commits)
      BY <3>2, <1>8, <1>11
    <3> QED
      BY <3>1, <3>3, <3>4, <1>8
  <2>2. CASE m = g /\ FilesOf(z.files[Segments(m)].val.segs) \subseteq B
    BY <2>2
  <2> QED
    BY <2>1, <2>2, <1>5 DEF Covered
<1>18. y.last = x.last /\ Lost(x, y, {})
  <2>1. z.last = x.last /\ Lost(x, z, {})
    BY <1>3 DEF Shrunk
  <2>2. \A f : Count(y, f) = Count(z, f)
    BY <1>8 DEF Count
  <2> QED
    BY <2>1, <2>2, <1>8 DEF Lost
<1>19. ASSUME NEW F, Protected(x, F) PROVE Protected(y, F)
  <2>1. z.commits = x.commits
    BY <1>3 DEF Shrunk
  <2> SUFFICES ASSUME NEW f \in F PROVE Len(y.commits) > 0 /\ f \in y.commits[Len(y.commits)].files
    BY DEF Protected
  <2>2. n > 0 /\ f \in z.commits[n].files
    BY <2>1, <1>19 DEF Protected
  <2>3. k < n
    BY <2>1, <2>2, <1>2
  <2>4. n - k \in 1..n - k /\ (n - k) + k = n /\ n - k > 0
    BY <2>2, <2>3, <1>10
  <2>5. y.commits[Len(y.commits)] = z.commits[n]
    BY <2>4, <1>8, <1>11
  <2>6. Len(y.commits) = n - k
    BY <1>8, <1>11
  <2> QED
    BY <2>2, <2>4, <2>5, <2>6
<1> QED
  BY <1>4, <1>16, <1>17, <1>18, <1>19 DEF Deleter

\* Only last_files or the commits are set.
LEMMA SetLast ==
  ASSUME NEW x, NEW a, NEW k, NEW g, NEW A, NEW B, NEW C, NEW D, NEW L, Deleter(x, a, k, g, A, B, C, D)
  PROVE  LET y == [x EXCEPT !.last = L]
         IN  /\ Deleter(y, a, k, g, A, B, C, D) /\ y.files = x.files /\ y.commits = x.commits
             /\ y.last = L /\ y.rc = x.rc /\ y.journal = x.journal
<1> DEFINE y == [x EXCEPT !.last = L]
<1>1. IsStore(x) /\ Safe(x, a)
  BY DEF Deleter, Consistent
<1>2. x = [files |-> x.files, journal |-> x.journal, rc |-> x.rc, commits |-> x.commits, last |-> x.last]
  BY <1>1 DEF IsStore
<1>3. y = [files |-> x.files, journal |-> x.journal, rc |-> x.rc, commits |-> x.commits, last |-> L]
  BY <1>2
<1> HIDE DEF y
<1>4. /\ y.files = x.files /\ y.journal = x.journal /\ y.rc = x.rc /\ y.commits = x.commits
      /\ y.last = L
  BY <1>3
<1>5. IsStore(y)
  BY <1>1, <1>3, <1>4 DEF IsStore
<1>6. Safe(y, a)
  BY <1>1, <1>4, <1>5, SameDisk
<1>7. \A f : Count(y, f) = Count(x, f)
  BY <1>4 DEF Count
<1>8. Consistent(x, a, k, A, B, C, D) /\ Covered(x, k, g, B, {})
  BY DEF Deleter
<1>9. Consistent(y, a, k, A, B, C, D)
  BY <1>4, <1>5, <1>6, <1>7, <1>8 DEF Consistent
<1>10. Covered(y, k, g, B, {})
  BY <1>4, <1>8 DEF Covered
<1> QED
  BY <1>4, <1>9, <1>10 DEF Deleter, y

\* checkpoint(_, false)
LEMMA CheckpointStore ==
  ASSUME NEW x, NEW a, NEW g, NEW B, NEW C, NEW segs, IsSegs(segs),
         Deleter(x, a, 0, g, x.last, B, C, {}), FilesOf(segs) \subseteq DOMAIN x.files
  PROVE  LET y == Checkpoint(x, segs)
         IN  /\ Deleter(y, a, 0, g, FilesOf(segs), B, C, {}) /\ y.last = FilesOf(segs)
             /\ y.commits = x.commits /\ Lost(x, y, FilesOf(segs))
<1> DEFINE F == FilesOf(segs)
           z == IncRefFiles(x, F)
           w == DecRefFiles(z, x.last)
           y == [w EXCEPT !.last = F]
<1>1. \A f \in F : f \in DOMAIN x.files /\ ~ IsCommitFile(f)
  BY FilesOfData
<1>2. /\ Deleter(z, a, 0, g, x.last, B, C, F) /\ Recounted(x, z, a)
      /\ \A f : f \notin F => Count(z, f) = Count(x, f)
  <2> HIDE DEF F
  <2> QED
    BY <1>1, Acquire
<1>3. Deleter(z, a, 0, g, F, B, C, x.last)
  <2> HIDE DEF F, z
  <2> QED
    BY <1>2, Swap
<1>4. Deleter(w, a, 0, g, F, B, C, {}) /\ Shrunk(z, w)
  <2> HIDE DEF F, z
  <2> QED
    BY <1>3, LetGo
<1>5. /\ Deleter(y, a, 0, g, F, B, C, {}) /\ y.files = w.files /\ y.commits = w.commits /\ y.last = F
      /\ y.rc = w.rc
  <2> HIDE DEF F, w
  <2> QED
    BY <1>4, SetLast
<1>6. Checkpoint(x, segs) = y
  BY DEF Checkpoint
<1> HIDE DEF F, z, w, y
<1>8. z.files = x.files /\ z.commits = x.commits
  BY <1>2 DEF Recounted
<1>10. Lost(x, y, F)
  <2>1. \A f \in DOMAIN y.files : f \in DOMAIN x.files /\ y.files[f] = x.files[f]
    BY <1>4, <1>5, <1>8 DEF Shrunk, Lost
  <2>2. \A f \in DOMAIN x.files : f \in DOMAIN y.files \/ f \in F \/ Count(x, f) # 0
    BY <1>4, <1>5, <1>2, <1>8 DEF Shrunk, Lost
  <2>3. \A f : Count(y, f) = Count(w, f)
    BY <1>5 DEF Count
  <2>4. \A f : f \notin F /\ Count(x, f) = 0 => Count(y, f) = 0
    BY <1>4, <1>2, <2>3 DEF Shrunk, Lost
  <2> QED
    BY <2>1, <2>2, <2>4 DEF Lost
<1> QED
  BY <1>4, <1>5, <1>6, <1>8, <1>10 DEF Shrunk, F

\* checkpoint(_, true): the commit under way becomes one of the deleter's.
LEMMA CommitCheckpointStore ==
  ASSUME NEW x, NEW a, NEW n \in Nat, NEW A, NEW B, NEW C, NEW segs, IsSegs(segs),
         Deleter(x, a, 0, n, A, B, C, {}),
         Segments(n) \in DOMAIN x.files, x.files[Segments(n)].val.segs = segs,
         \A i \in 1..Len(x.commits) : x.commits[i].gen < n
  PROVE  LET y == CommitCheckpoint(x, n, segs)
         IN  /\ Deleter(y, a, 0, 0, A, B, C, {}) /\ y.last = x.last
             /\ Lost(x, y, FilesOf(segs) \cup {Segments(n)}) /\ Protected(y, FilesOf(segs))
<1> DEFINE p == CommitPoint(n, segs)
           F == FilesOf(segs) \cup {Segments(n)}
           z == IncRefFiles(x, F)
           cs == Append(z.commits, p)
           w == [z EXCEPT !.commits = cs]
<1>1. p.gen = n /\ p.files = F
  BY DEF CommitPoint
<1>2. CommitCheckpoint(x, n, segs) = DeleteCommits(w)
  BY <1>1 DEF CommitCheckpoint
<1>3. Consistent(x, a, 0, A, B, C, {}) /\ Covered(x, 0, n, B, {}) /\ IsStore(x) /\ Safe(x, a)
  BY DEF Deleter, Consistent
<1>4. Len(x.commits) \in Nat /\ IsDir(x.files) /\ Good(x.files) /\ \A f : Count(x, f) \in Nat
  BY <1>3, CountFacts
<1> HIDE DEF F, p
<1>5. Recounted(x, z, a) /\ \A f : Count(z, f) = Count(x, f) + One(f, F)
  BY <1>3, <1>4, IncRefStore
<1> HIDE DEF z
<1>6. IsStore(z) /\ Safe(z, a) /\ z.files = x.files /\ z.commits = x.commits /\ z.last = x.last
  BY <1>5 DEF Recounted
<1>7. z = [files |-> z.files, journal |-> z.journal, rc |-> z.rc, commits |-> z.commits, last |-> z.last]
  BY <1>6 DEF IsStore
<1>8. w = [files |-> z.files, journal |-> z.journal, rc |-> z.rc, commits |-> cs, last |-> z.last]
  <2> HIDE DEF cs
  <2> QED
    BY <1>7
<1>9. /\ w.files = z.files /\ w.journal = z.journal /\ w.rc = z.rc /\ w.commits = cs
      /\ w.last = z.last
  <2> HIDE DEF w, cs
  <2> QED
    BY <1>8
<1>10. PICK T : x.commits \in Seq(T)
  BY <1>3 DEF IsStore, IsSequence
<1> DEFINE l == Len(x.commits)
<1>11. cs \in Seq(T \cup {p}) /\ Len(cs) = l + 1 /\ cs[l + 1] = p /\ \A i \in 1..l : cs[i] = x.commits[i]
  BY <1>6, <1>10
<1>a. IsSequence(x.commits) /\ cs = Append(x.commits, p)
  BY <1>3, <1>6 DEF IsStore
<1> HIDE DEF w, cs
<1>12. IsStore(w)
  BY <1>6, <1>8, <1>9, <1>11 DEF IsStore, IsSequence
<1>13. Safe(w, a)
  BY <1>6, <1>9, <1>12, SameDisk
<1>14. ASSUME NEW f
       PROVE  Count(w, f) = From(cs, 0, f) + One(f, A) + One(f, B) + One(f, C) + One(f, {})
  <2>1. From(cs, 0, f) = From(x.commits, 0, f) + One(f, F)
    BY <1>1, <1>a, FromAppend
  <2>2. Count(w, f) = Count(x, f) + One(f, F)
    BY <1>5, <1>9 DEF Count
  <2>3. Count(x, f) = From(x.commits, 0, f) + One(f, A) + One(f, B) + One(f, C) + One(f, {})
    BY <1>3 DEF Consistent
  <2>4. From(x.commits, 0, f) \in Nat
    BY <1>3, CountFacts
  <2>5. \A S : One(f, S) \in {0, 1}
    BY DEF One
  <2> QED
    BY <2>1, <2>2, <2>3, <2>4, <2>5
<1>15. Consistent(w, a, 0, A, B, C, {})
  <2>0. /\ \A i \in 0 + 1..l : IsPoint(x.files, x.commits[i])
        /\ \A i, j \in 0 + 1..l : i < j => x.commits[i].gen < x.commits[j].gen
        /\ \A S \in {A, B, C, {}} : \A f \in S : f \in DOMAIN x.files /\ ~ IsCommitFile(f)
    BY <1>3 DEF Consistent
  <2>a. \A i : i \in 0 + 1..l + 1 <=> i = l + 1 \/ i \in 0 + 1..l
    BY <1>4
  <2>1. 0 \in 0..Len(cs)
    BY <1>4, <1>11
  <2>2. ASSUME NEW i \in 0 + 1..Len(cs) PROVE IsPoint(x.files, cs[i])
    <3>1. CASE i = l + 1
      BY <3>1, <1>1, <1>11 DEF IsPoint, F
    <3>2. CASE i \in 0 + 1..l
      BY <3>2, <2>0, <1>11
    <3> QED
      BY <3>1, <3>2, <2>a, <1>11
  <2>3. ASSUME NEW i \in 0 + 1..Len(cs), NEW j \in 0 + 1..Len(cs), i < j
        PROVE  cs[i].gen < cs[j].gen
    <3>1. i \in 0 + 1..l /\ i \in 1..l
      BY <2>3, <1>4, <1>11
    <3>2. CASE j = l + 1
      BY <3>1, <3>2, <1>1, <1>11
    <3>3. CASE j \in 0 + 1..l
      BY <3>1, <3>3, <2>0, <2>3, <1>11
    <3> QED
      BY <3>2, <3>3, <2>a, <1>11
  <2> QED
    BY <1>6, <1>9, <1>12, <1>13, <1>14, <2>0, <2>1, <2>2, <2>3 DEF Consistent
<1>16. Covered(w, 0, 0, B, {})
  <2> SUFFICES ASSUME NEW m \in GenerationsIn(x.files)
               PROVE  \E i \in 0 + 1..Len(cs) : cs[i].gen = m
    BY <1>6, <1>9 DEF Covered
  <2>1. CASE \E i \in 0 + 1..l : x.commits[i].gen = m
    BY <2>1, <1>4, <1>11
  <2>2. CASE m = n
    <3>1. l + 1 \in 0 + 1..Len(cs)
      BY <1>4, <1>11
    <3> QED
      BY <3>1, <2>2, <1>1, <1>11
  <2> QED
    BY <2>1, <2>2, <1>3 DEF Covered
<1> DEFINE y == DeleteCommits(w)
<1>b. Protected(w, FilesOf(segs))
  BY <1>1, <1>4, <1>9, <1>11 DEF Protected, F
<1>17. /\ Deleter(y, a, 0, 0, A, B, C, {}) /\ y.last = w.last /\ Lost(w, y, {})
       /\ Protected(y, FilesOf(segs))
  <2>1. Deleter(w, a, 0, 0, A, B, C, {})
    BY <1>15, <1>16 DEF Deleter
  <2> QED
    BY <1>b, <2>1, DeleteCommitsStore
<1> HIDE DEF y
<1>18. Lost(x, y, F)
  <2>1. \A f : f \notin F => Count(w, f) = Count(x, f)
    BY <1>4, <1>5, <1>9 DEF Count, One
  <2> QED
    BY <2>1, <1>6, <1>9, <1>17 DEF Lost
<1>19. CommitCheckpoint(x, n, segs) = y
  BY <1>2 DEF y
<1> QED
  BY <1>6, <1>9, <1>17, <1>18, <1>19 DEF F

-----------------------------------------------------------------------------
(* The rename, the sync of the directory, and crashes. *)

\* A store that has nothing to lose but what was not synced.
LEMMA CleanSafe ==
  ASSUME NEW y, NEW a, IsStore(y), Len(y.journal) = 0, Good(y.files), Durable(y.files, a)
  PROVE  Safe(y, a)
<1> SUFFICES ASSUME NEW d \in OnDisk(y) PROVE Good(d) /\ Durable(d, a)
  BY DEF Safe
<1>0. Len(y.journal) \in Nat
  OBVIOUS
<1>1. PICK k, S : Partly(y, k, S) /\ IsView(d, y, k, S)
  BY <1>0, OnDiskIs
<1>2. k = 0 /\ S = {} /\ k \in 0..Len(y.journal)
  BY <1>1 DEF Partly
<1>3. ASSUME NEW f PROVE At(d, f) = At(y.files, f)
  <2>1. Untouched(y.journal, k, f)
    BY <1>2 DEF Untouched
  <2>2. At(Rewound(y, k), f) = At(y.files, f)
    BY <2>1, <1>0, <1>2, RewoundAt
  <2> QED
    BY <2>2, <1>1, <1>2 DEF IsView
<1>4. Kept(y.files, d)
  BY <1>3, KeptAtSame DEF Kept
<1>5. IsDir(y.files) /\ IsDir(d)
  BY OnDiskDirs DEF IsStore
<1> QED
  BY <1>4, <1>5, KeptGood

LEMMA SyncMetaDataStore ==
  ASSUME NEW x, NEW a, NEW b, NEW k, NEW g, NEW A, NEW B, NEW C, NEW D,
         Deleter(x, a, k, g, A, B, C, D), Durable(x.files, b)
  PROVE  LET y == SyncMetaData(x)
         IN  Deleter(y, b, k, g, A, B, C, D) /\ y.files = x.files /\ SameCounts(x, y)
<1> DEFINE y == SyncMetaData(x)
<1>1. IsStore(x) /\ Safe(x, a)
  BY DEF Deleter, Consistent
<1>2. x = [files |-> x.files, journal |-> x.journal, rc |-> x.rc, commits |-> x.commits, last |-> x.last]
  BY <1>1 DEF IsStore
<1>3. y = [files |-> x.files, journal |-> <<>>, rc |-> x.rc, commits |-> x.commits, last |-> x.last]
  BY <1>2 DEF SyncMetaData
<1> HIDE DEF y
<1>4. /\ y.files = x.files /\ y.journal = <<>> /\ y.rc = x.rc /\ y.commits = x.commits
      /\ y.last = x.last
  BY <1>3
<1>5. IsSequence(<<>>) /\ Len(<<>>) = 0
  BY DEF IsSequence
<1>6. IsStore(y)
  BY <1>1, <1>3, <1>4, <1>5 DEF IsStore
<1>7. Good(x.files)
  BY <1>1, FilesSafe
<1>8. Safe(y, b)
  BY <1>4, <1>5, <1>6, <1>7, CleanSafe
<1>9. \A f : Count(y, f) = Count(x, f)
  BY <1>4 DEF Count
<1>10. Consistent(x, a, k, A, B, C, D) /\ Covered(x, k, g, B, {})
  BY DEF Deleter
<1>11. Consistent(y, b, k, A, B, C, D)
  BY <1>4, <1>6, <1>8, <1>9, <1>10 DEF Consistent
<1>12. Covered(y, k, g, B, {})
  BY <1>4, <1>10 DEF Covered
<1> QED
  BY <1>4, <1>11, <1>12 DEF Deleter, SameCounts, y

\* What a crash leaves.
LEMMA CrashStore ==
  ASSUME NEW x, NEW a, IsStore(x), Safe(x, a), NEW d \in AfterCrash(x)
  PROVE  IsDir(d) /\ Good(d) /\ Durable(d, a)
<1>1. PICK d0 \in OnDisk(x) : d \in Torn(d0)
  BY DEF AfterCrash
<1>2. IsDir(d0) /\ Good(d0) /\ Durable(d0, a)
  BY <1>1, OnDiskDirs DEF Safe
<1> DEFINE dirty == {f \in DOMAIN d0 : d0[f].st = "dirty"}
<1>3. PICK lost \in SUBSET dirty :
        d = [f \in DOMAIN d0 \ lost |-> IF f \in dirty THEN [d0[f] EXCEPT !.st = "torn"] ELSE d0[f]]
  BY <1>1 DEF Torn
<1>4. DOMAIN d = DOMAIN d0 \ lost /\ d = [f \in DOMAIN d |-> d[f]]
  BY <1>3
<1>5. \A f \in DOMAIN d : f \notin dirty => d[f] = d0[f]
  BY <1>3
<1>6. ASSUME NEW f \in DOMAIN d, f \in dirty PROVE d[f] = [st |-> "torn", val |-> d0[f].val]
  <2>1. d0[f] = [st |-> d0[f].st, val |-> d0[f].val]
    BY <1>2, <1>4 DEF IsDir, IsState
  <2>2. d[f] = [d0[f] EXCEPT !.st = "torn"]
    BY <1>3, <1>6
  <2> QED
    BY <2>1, <2>2
<1>7. IsDir(d)
  <2>1. IsFiniteSet(DOMAIN d)
    BY <1>2, <1>4, FS_Subset DEF IsDir
  <2>2. ASSUME NEW f \in DOMAIN d PROVE IsFile(f) /\ IsState(f, d[f])
    <3>1. IsFile(f) /\ IsState(f, d0[f])
      BY <1>2, <1>4 DEF IsDir
    <3>2. CASE f \in dirty
      <4>1. d[f] = [st |-> "torn", val |-> d0[f].val]
        BY <3>2, <1>6
      <4>2. d[f].st = "torn" /\ d[f].val = d0[f].val
        BY <4>1
      <4> QED
        BY <3>1, <4>1, <4>2 DEF IsState
    <3>3. CASE f \notin dirty
      BY <3>1, <3>3, <1>5
    <3> QED
      BY <3>2, <3>3
  <2> QED
    BY <1>4, <2>1, <2>2 DEF IsDir
<1>8. Kept(d0, d)
  <2> SUFFICES ASSUME NEW f PROVE KeptAt(f, At(d0, f), At(d, f))
    BY DEF Kept
  <2>1. CASE f \in dirty
    <3>1. At(d0, f) = {d0[f]} /\ d0[f].st = "dirty"
      BY <2>1 DEF At
    <3> QED
      BY <3>1 DEF KeptAt
  <2>2. CASE f \notin dirty
    <3>1. At(d, f) = At(d0, f)
      BY <2>2, <1>4, <1>5 DEF At
    <3> QED
      BY <3>1, KeptAtSame
  <2> QED
    BY <2>1, <2>2
<1> QED
  BY <1>2, <1>7, <1>8, KeptGood

\* A directory where segments_n takes the place of pending_segments_n.
LEMMA RenamedGood ==
  ASSUME NEW d, NEW y, NEW n \in Nat, NEW a, a.gen \in Nat, IsDir(d), IsDir(y), Good(d), Durable(d, a),
         Pending(n) \in DOMAIN d, d[Pending(n)].st = "synced", n > 0,
         DOMAIN y = (DOMAIN d \ {Pending(n)}) \cup {Segments(n)}, y[Segments(n)] = d[Pending(n)],
         \A f \in DOMAIN d : f \notin {Pending(n), Segments(n)} => y[f] = d[f],
         \A f \in FilesOf(d[Pending(n)].val.segs) : f \in DOMAIN d /\ d[f].st = "synced",
         \A m \in GenerationsIn(d) : m < n,
         \A m \in GenerationsIn(d) : \A s \in Names(d, m) : s < d[Pending(n)].val.counter,
         \A s \in DOMAIN d[Pending(n)].val.segs : s < d[Pending(n)].val.counter,
         \A m \in GenerationsIn(d) : NotBeyond(d[Segments(m)].val.segs, d[Pending(n)].val.segs),
         IsSegs(d[Pending(n)].val.segs)
  PROVE  Good(y) /\ Durable(y, a)
<1>1. \A m : m \in GenerationsIn(d) <=> Segments(m) \in DOMAIN d
  BY GenerationsAre
<1>2. \A m : m \in GenerationsIn(y) <=> Segments(m) \in DOMAIN y
  BY GenerationsAre
<1>3. \A m : Segments(m) # Pending(n) /\ (Segments(m) = Segments(n) <=> m = n)
  BY DEF Segments, Pending
<1>4. \A m : m \in GenerationsIn(y) <=> m = n \/ m \in GenerationsIn(d)
  BY <1>1, <1>2, <1>3
<1>5. \A m \in GenerationsIn(d) : m \in Nat /\ m < n /\ m # n /\ y[Segments(m)] = d[Segments(m)]
  BY <1>1, <1>3, GenerationsAre
<1>a. \A segs : \A f \in FilesOf(segs) : f # Pending(n) /\ f # Segments(n)
  BY DEF FilesOf, SegmentFiles, Core, Live, Dv, Pending, Segments
<1>6. ASSUME NEW m \in GenerationsIn(y) PROVE m > 0 /\ Readable(y, m)
  <2>1. CASE m = n
    BY <2>1, <1>a DEF Readable
  <2>2. CASE m \in GenerationsIn(d)
    <3>1. m > 0 /\ Readable(d, m)
      BY <2>2 DEF Good
    <3> QED
      BY <3>1, <2>2, <1>5, <1>a DEF Readable
  <2> QED
    BY <2>1, <2>2, <1>4
<1>7. ASSUME NEW l \in GenerationsIn(y), NEW m \in GenerationsIn(y), l <= m, NEW s \in Names(y, l)
      PROVE  s < y[Segments(m)].val.counter
  <2>1. CASE m = n /\ l = n
    BY <2>1, <1>7 DEF Names
  <2>2. CASE m = n /\ l \in GenerationsIn(d)
    BY <2>2, <1>5, <1>7 DEF Names
  <2>3. CASE m \in GenerationsIn(d) /\ l \in GenerationsIn(d)
    BY <2>3, <1>5, <1>7 DEF Names, Good
  <2>4. CASE m \in GenerationsIn(d) /\ l = n
    BY <2>4, <1>5, <1>7
  <2> QED
    BY <2>1, <2>2, <2>3, <2>4, <1>4
<1>b. ASSUME NEW l \in GenerationsIn(y), NEW m \in GenerationsIn(y), l <= m
      PROVE  NotBeyond(y[Segments(l)].val.segs, y[Segments(m)].val.segs)
  <2>1. CASE m = n /\ l = n
    BY <2>1 DEF NotBeyond, IsSegs, Entries
  <2>2. CASE m = n /\ l \in GenerationsIn(d)
    BY <2>2, <1>5
  <2>3. CASE m \in GenerationsIn(d) /\ l \in GenerationsIn(d)
    BY <2>3, <1>5, <1>b DEF Good
  <2>4. CASE m \in GenerationsIn(d) /\ l = n
    BY <2>4, <1>5, <1>b
  <2> QED
    BY <2>1, <2>2, <2>3, <2>4, <1>4
<1>8. Good(y)
  BY <1>6, <1>7, <1>b DEF Good
<1>9. Newest(y, n)
  BY <1>4, <1>5 DEF Newest
<1>10. CASE a.gen = 0 /\ GenerationsIn(d) = {}
  BY <1>8, <1>9, <1>10 DEF Durable
<1>11. CASE \E m : Newest(d, m) /\ m >= a.gen
  <2>1. PICK m : Newest(d, m) /\ m >= a.gen
    BY <1>11
  <2>2. m \in GenerationsIn(d)
    BY <2>1 DEF Newest
  <2>3. a.gen <= m /\ m < n /\ m \in Nat
    BY <2>1, <2>2, <1>5
  <2>4. n >= a.gen /\ n # a.gen
    BY <2>3
  <2> QED
    BY <2>4, <1>8, <1>9 DEF Durable
<1> QED
  BY <1>10, <1>11 DEF Durable

\* What the rename of pending_segments_n does.
RenamedTo(x, y, n) ==
  /\ SameCounts(x, y)
  /\ DOMAIN y.files = (DOMAIN x.files \ {Pending(n)}) \cup {Segments(n)}
  /\ y.files[Segments(n)] = x.files[Pending(n)]
  /\ \A f \in DOMAIN x.files : f # Pending(n) => y.files[f] = x.files[f]

LEMMA RenameStore ==
  ASSUME NEW x, NEW n \in Nat, NEW a, a.gen \in Nat, IsStore(x), Safe(x, a),
         Pending(n) \in DOMAIN x.files, x.files[Pending(n)].st = "synced", n > 0,
         \A f \in FilesOf(x.files[Pending(n)].val.segs) : f \in DOMAIN x.files /\ x.files[f].st = "synced",
         \A m \in GenerationsIn(x.files) : m < n,
         \A m \in GenerationsIn(x.files) : \A s \in Names(x.files, m) : s < x.files[Pending(n)].val.counter,
         \A s \in DOMAIN x.files[Pending(n)].val.segs : s < x.files[Pending(n)].val.counter,
         \A m \in GenerationsIn(x.files) :
            NotBeyond(x.files[Segments(m)].val.segs, x.files[Pending(n)].val.segs),
         IsSegs(x.files[Pending(n)].val.segs)
  PROVE  LET y == Rename(x, n)
         IN  IsStore(y) /\ Safe(y, a) /\ RenamedTo(x, y, n)
<1> DEFINE y == Rename(x, n)
           d == x.files
           gone == {Pending(n), Segments(n)} \cap DOMAIN d
           e == [new |-> {Segments(n)}, old |-> Restrict(d, gone)]
           new == [f \in (DOMAIN d \ gone) \cup {Segments(n)} |-> IF f = Segments(n) THEN d[Pending(n)] ELSE d[f]]
           jour == Journal(x.journal, e)
<1>1. x = [files |-> x.files, journal |-> x.journal, rc |-> x.rc, commits |-> x.commits,
           last |-> x.last]
  BY DEF IsStore
<1>2. y = [files |-> new, journal |-> jour, rc |-> x.rc, commits |-> x.commits, last |-> x.last]
  <2>1. y = [x EXCEPT !.files = new, !.journal = jour]
    BY DEF Rename
  <2> HIDE DEF y, new, jour
  <2> QED
    BY <1>1, <2>1
<1>3. y.files = new /\ y.journal = jour /\ SameCounts(x, y)
  <2> HIDE DEF y, new, jour
  <2> QED
    BY <1>2 DEF SameCounts
<1>4. IsDir(d) /\ Good(d) /\ Durable(d, a)
  BY FilesSafe DEF IsStore
<1>5. Segments(n) \notin DOMAIN d /\ Segments(n) # Pending(n)
  <2>1. n \notin GenerationsIn(d)
    BY <1>4
  <2> QED
    BY <2>1, <1>4, GenerationsAre DEF Segments, Pending
<1>6. gone = {Pending(n)}
  BY <1>5
<1>7. /\ DOMAIN new = (DOMAIN d \ {Pending(n)}) \cup {Segments(n)}
      /\ new[Segments(n)] = d[Pending(n)] /\ new = [f \in DOMAIN new |-> new[f]]
      /\ \A f \in DOMAIN d : f # Pending(n) => new[f] = d[f]
  BY <1>5, <1>6
<1>8. IsDir(e.old) /\ e.new = {Segments(n)} /\ DOMAIN e.old = gone /\ \A f \in gone : e.old[f] = d[f]
  BY <1>4, PartDir
<1> HIDE DEF y, new, e, gone
<1>9. IsDir(new)
  <2>1. IsFiniteSet(DOMAIN new)
    <3>1. IsFiniteSet(DOMAIN d \ {Pending(n)})
      BY <1>4, FS_RemoveElement DEF IsDir
    <3> QED
      BY <3>1, <1>7, FS_AddElement
  <2>2. ASSUME NEW f \in DOMAIN new PROVE IsFile(f) /\ IsState(f, new[f])
    <3>1. CASE f = Segments(n)
      <4>1. IsFile(f) /\ IsCommitFile(f) /\ IsCommitFile(Pending(n))
        BY <3>1, NameFacts
      <4>2. IsState(Pending(n), d[Pending(n)])
        BY <1>4 DEF IsDir
      <4> QED
        BY <3>1, <4>1, <4>2, <1>7 DEF IsState
    <3>2. CASE f # Segments(n)
      BY <3>2, <1>4, <1>7 DEF IsDir
    <3> QED
      BY <3>1, <3>2
  <2> QED
    BY <1>7, <2>1, <2>2 DEF IsDir
<1>10. IsStore(y)
  <2>1. IsSequence(jour) /\ \A i \in 1..Len(jour) : IsDir(jour[i].old)
    BY <1>8, JournalSeq
  <2> HIDE DEF jour
  <2> QED
    BY <1>2, <1>3, <1>9, <2>1 DEF IsStore
<1>11. Good(new) /\ Durable(new, a)
  <2> HIDE DEF d
  <2> QED
    BY <1>4, <1>7, <1>9, RenamedGood DEF d
<1>12. Touched(e) = {Pending(n), Segments(n)}
  BY <1>6, <1>8 DEF Touched
<1>13. \A f \in Touched(e) : At(e.old, f) = At(x.files, f)
  BY <1>5, <1>6, <1>8, <1>12 DEF At
<1>14. \A f : f \notin Touched(e) => At(x.files, f) = At(y.files, f)
  BY <1>3, <1>7, <1>12 DEF At
<1>15. ASSUME NEW z, IsDir(z), Latest(z, y.files, e) PROVE Good(z) /\ Durable(z, a)
  <2>1. \A f : At(z, f) = At(y.files, f)
    BY <1>8, <1>15 DEF Latest
  <2>2. Kept(y.files, z)
    BY <2>1, KeptAtSame DEF Kept
  <2> QED
    BY <2>2, <1>3, <1>9, <1>11, <1>15, KeptGood
<1>16. Safe(y, a)
  <2>1. \A f : f \notin Touched(e) => KeptAt(f, At(x.files, f), At(y.files, f))
    BY <1>14, KeptAtSame
  <2> QED
    BY <1>3, <1>8, <1>10, <1>13, <1>15, <2>1, JournalSafe
<1> QED
  BY <1>3, <1>7, <1>10, <1>16 DEF RenamedTo, y

-----------------------------------------------------------------------------
(* Opening an index. *)

\* The numbers of a finite set, in ascending order.
LEMMA AscendingIs ==
  ASSUME NEW S \in SUBSET Nat, IsFiniteSet(S)
  PROVE  LET c == Cardinality(S)
             A == Ascending(S)
         IN  /\ c \in Nat /\ A \in [1..c -> S]
             /\ \A i, j \in 1..c : i < j => A[i] < A[j]
             /\ \A n \in S : \E i \in 1..c : A[i] = n
<1> DEFINE c == Cardinality(S)
           A == Ascending(S)
           below(n) == {m \in S : m < n}
           rank == [n \in S |-> Cardinality(below(n))]
<1>1. c \in Nat
  BY FS_CardinalityType
<1>2. ASSUME NEW n \in S
      PROVE  IsFiniteSet(below(n)) /\ Cardinality(below(n)) \in Nat /\ rank[n] = Cardinality(below(n))
             /\ n \notin below(n)
  BY FS_Subset, FS_CardinalityType
<1>3. ASSUME NEW n \in S, NEW T \in SUBSET S, below(n) \subseteq T, n \in T
      PROVE  rank[n] < Cardinality(T) /\ Cardinality(T) \in Nat
  <2>1. IsFiniteSet(T) /\ Cardinality(T) \in Nat
    BY FS_Subset, FS_CardinalityType
  <2>2. below(n) \cup {n} \in SUBSET T
    BY <1>3
  <2>3. Cardinality(below(n) \cup {n}) = Cardinality(below(n)) + 1
    BY <1>2, FS_AddElement
  <2>4. Cardinality(below(n) \cup {n}) <= Cardinality(T)
    BY <2>1, <2>2, FS_Subset
  <2> QED
    BY <1>2, <2>1, <2>3, <2>4
<1>4. ASSUME NEW m \in S, NEW n \in S, m < n PROVE rank[m] < rank[n]
  <2>0. \A l \in S : l < m => l < n
    BY <1>4
  <2>1. m \in below(n) /\ below(m) \subseteq below(n) /\ below(n) \in SUBSET S
    BY <1>4, <2>0
  <2>2. rank[m] < Cardinality(below(n))
    BY <2>1, <1>3
  <2> QED
    BY <2>2, <1>2
<1> DEFINE R == 0..c - 1
<1>5. \A n \in S : rank[n] \in R
  <2> TAKE n \in S
  <2>1. rank[n] < c
    BY <1>3
  <2>2. rank[n] \in Nat
    BY <1>2
  <2> HIDE DEF rank, c
  <2> QED
    BY <2>1, <2>2, <1>1
<1>6. \A m, n \in S : m # n => rank[m] # rank[n]
  <2> TAKE m, n \in S
  <2>1. rank[m] \in Nat /\ rank[n] \in Nat
    BY <1>2
  <2>2. m < n => rank[m] < rank[n]
    BY <1>4
  <2>3. n < m => rank[n] < rank[m]
    BY <1>4
  <2>4. m \in Nat /\ n \in Nat
    OBVIOUS
  <2> HIDE DEF rank
  <2> QED
    BY <2>1, <2>2, <2>3, <2>4
<1>7. \A r \in R : \E n \in S : rank[n] = r
  <2>0. rank = [n \in S |-> rank[n]]
    OBVIOUS
  <2> HIDE DEF rank
  <2>1. rank \in [S -> R]
    BY <1>5, <2>0
  <2>2. rank \in Injection(S, R)
    BY <2>1, <1>6 DEF Injection, IsInjective
  <2>3. IsFiniteSet(R) /\ Cardinality(R) = c
    <3> HIDE DEF c
    <3> QED
      BY <1>1, FS_Interval
  <2> HIDE DEF R
  <2>4. rank \in Surjection(S, R)
    BY <2>2, <2>3, FS_Injection
  <2> QED
    BY <2>4 DEF Surjection
<1>8. ASSUME NEW i \in 1..c PROVE A[i] \in S /\ rank[A[i]] = i - 1
  <2>1. i - 1 \in R
    BY <1>1
  <2>2. \E n \in S : Cardinality({m \in S : m < n}) = i - 1
    BY <2>1, <1>7
  <2>3. A[i] = Ith(S, i)
    BY DEF Ascending
  <2>4. Ith(S, i) \in S /\ Cardinality({m \in S : m < Ith(S, i)}) = i - 1
    BY <2>2 DEF Ith
  <2> QED
    BY <2>3, <2>4
<1>9. \A i, j \in 1..c : i < j => A[i] < A[j]
  <2> SUFFICES ASSUME NEW i \in 1..c, NEW j \in 1..c, i < j PROVE A[i] < A[j]
    OBVIOUS
  <2>1. A[i] \in S /\ A[j] \in S /\ rank[A[i]] = i - 1 /\ rank[A[j]] = j - 1
    BY <1>8
  <2>2. A[j] < A[i] => rank[A[j]] < rank[A[i]]
    BY <2>1, <1>4
  <2>a. i \in Int /\ j \in Int
    BY <1>1
  <2> HIDE DEF rank, A, c
  <2>b. A[i] \in S /\ A[j] \in S
    BY <2>1
  <2>3. A[i] \in Nat /\ A[j] \in Nat /\ i \in Int /\ j \in Int
    BY <2>a, <2>b
  <2> QED
    BY <2>1, <2>2, <2>3
<1>10. ASSUME NEW n \in S PROVE \E i \in 1..c : A[i] = n
  <2> DEFINE i == rank[n] + 1
  <2>1. i \in 1..c /\ i - 1 = rank[n]
    <3>1. rank[n] \in R
      BY <1>5
    <3> HIDE DEF rank, c
    <3> QED
      BY <3>1, <1>1
  <2>2. A[i] \in S /\ rank[A[i]] = rank[n]
    <3> HIDE DEF rank, A, c, i
    <3> QED
      BY <2>1, <1>8
  <2> HIDE DEF rank, A, c, i
  <2> QED
    BY <2>1, <2>2, <1>6
<1>11. A \in [1..c -> S]
  <2>1. A = [i \in 1..c |-> A[i]]
    BY DEF Ascending
  <2> HIDE DEF A, c
  <2> QED
    BY <2>1, <1>8
<1> QED
  BY <1>1, <1>9, <1>10, <1>11

\* The generations in a directory are finitely many.
LEMMA GenerationsFinite ==
  ASSUME NEW d, IsDir(d)
  PROVE  IsFiniteSet(GenerationsIn(d)) /\ GenerationsIn(d) \in SUBSET Nat
<1> DEFINE S == {g \in DOMAIN d : IsSegments(g)}
           F == [f \in S |-> f[2]]
<1>1. IsFiniteSet(S)
  BY FS_Subset DEF IsDir
<1>2. GenerationsIn(d) = {f[2] : f \in S}
  BY DEF GenerationsIn
<1>3. F \in Surjection(S, GenerationsIn(d))
  BY <1>2 DEF Surjection
<1> HIDE DEF F, S
<1> QED
  BY <1>1, <1>3, FS_Surjection, GenerationsAre

\* IndexFileDeleter::init keeps what the commits refer to, and protects one of them.
LEMMA InitDeleterStore ==
  ASSUME NEW x, NEW a, IsStore(x), Safe(x, a), NEW segs, IsSegs(segs),
         \A f \in FilesOf(segs) : \E n : Newest(x.files, n) /\ f \in FilesOf(x.files[Segments(n)].val.segs)
  PROVE  LET y == InitDeleter(x, segs)
         IN  /\ Deleter(y, a, 0, 0, FilesOf(segs), {}, {}, {}) /\ y.last = FilesOf(segs)
             /\ Protected(y, FilesOf(segs))
             /\ \A f \in DOMAIN y.files :
                  /\ f \in DOMAIN x.files /\ y.files[f] = x.files[f]
                  /\ \E n \in GenerationsIn(x.files) :
                       f \in FilesOf(x.files[Segments(n)].val.segs) \cup {Segments(n)}
<1> DEFINE d == x.files
           gens == GenerationsIn(d)
           c == Cardinality(gens)
           up == Ascending(gens)
           commits == [i \in 1..c |-> CommitPoint(up[i], d[Segments(up[i])].val.segs)]
           known == DOMAIN d \cup UNION {commits[i].files : i \in DOMAIN commits}
           rc == [f \in known |-> InCommits(commits, f)]
           loaded == [files |-> d, journal |-> x.journal, rc |-> rc, commits |-> commits, last |-> {}]
           F == {f \in known : loaded.rc[f] = 0}
           cleaned == DeleteFiles(loaded, F)
<1>1. InitDeleter(x, segs) = DeleteCommits(Checkpoint(cleaned, segs))
  BY DEF InitDeleter, GenerationsIn
<1>2. IsDir(d) /\ Good(d) /\ Durable(d, a)
  BY FilesSafe DEF IsStore
<1>3. gens \in SUBSET Nat /\ IsFiniteSet(gens)
  BY <1>2, GenerationsFinite
<1> HIDE DEF gens
<1>4. /\ c \in Nat /\ up \in [1..c -> gens]
      /\ \A i, j \in 1..c : i < j => up[i] < up[j]
      /\ \A n \in gens : \E i \in 1..c : up[i] = n
  BY <1>3, AscendingIs
<1> HIDE DEF c, up
<1>5. ASSUME NEW i \in 1..c
      PROVE  /\ commits[i].gen = up[i] /\ up[i] \in gens
             /\ commits[i].files = FilesOf(d[Segments(up[i])].val.segs) \cup {Segments(up[i])}
             /\ IsPoint(d, commits[i]) /\ commits[i].files \subseteq DOMAIN d
  <2>1. commits[i] = CommitPoint(up[i], d[Segments(up[i])].val.segs) /\ up[i] \in gens
    BY <1>4
  <2>2. commits[i].gen = up[i] /\ commits[i].files = FilesOf(d[Segments(up[i])].val.segs) \cup {Segments(up[i])}
    BY <2>1 DEF CommitPoint
  <2>3. up[i] \in Nat /\ Segments(up[i]) \in DOMAIN d /\ Readable(d, up[i])
    BY <2>1, <1>2, <1>3, GenerationsAre DEF Good, gens
  <2> HIDE DEF commits
  <2> QED
    BY <2>1, <2>2, <2>3 DEF IsPoint, Readable
<1>6. DOMAIN commits = 1..c /\ Len(commits) = c /\ IsSequence(commits)
  <2>1. commits \in [1..c -> {commits[i] : i \in 1..c}]
    OBVIOUS
  <2>a. DOMAIN commits = 1..c /\ c \in Nat
    BY <1>4
  <2> HIDE DEF commits
  <2>2. commits \in Seq({commits[i] : i \in 1..c}) /\ DOMAIN commits = 1..c
    BY <2>1, <2>a
  <2>3. Len(commits) = c
    BY <2>2, <1>4
  <2> QED
    BY <2>2, <2>3 DEF IsSequence
<1> HIDE DEF commits
<1>8. loaded = [files |-> d, journal |-> x.journal, rc |-> rc, commits |-> commits, last |-> {}]
  OBVIOUS
<1> HIDE DEF loaded
<1>9. /\ loaded.files = d /\ loaded.journal = x.journal /\ loaded.rc = rc /\ loaded.commits = commits
      /\ loaded.last = {}
  <2> HIDE DEF rc
  <2> QED
    BY <1>8
<1>10. IsStore(loaded)
  <2> HIDE DEF rc
  <2> QED
    BY <1>6, <1>8, <1>9 DEF IsStore
<1>11. Safe(loaded, a)
  BY <1>9, <1>10, SameDisk
<1>12. ASSUME NEW f PROVE Count(loaded, f) = From(commits, 0, f) /\ From(commits, 0, f) \in Nat
  <2>1. InCommits(commits, f) = From(commits, 0, f) /\ From(commits, 0, f) \in Nat
    BY <1>6, FromAll, FromNat
  <2>2. CASE f \in known
    BY <2>1, <2>2, <1>9 DEF Count
  <2>3. CASE f \notin known
    <3>1. \A i \in 0 + 1..Len(commits) : f \notin commits[i].files
      BY <2>3, <1>6
    <3>2. From(commits, 0, f) = 0
      BY <3>1, <1>6, FromNat
    <3>3. f \notin DOMAIN loaded.rc
      BY <2>3, <1>9
    <3> QED
      BY <3>2, <3>3 DEF Count
  <2> QED
    BY <2>1, <2>2, <2>3
<1>13. Consistent(loaded, a, 0, {}, {}, {}, {})
  <2>1. 0 \in 0..Len(loaded.commits)
    BY <1>4, <1>6, <1>9
  <2>2. \A f : Count(loaded, f) = From(loaded.commits, 0, f) + One(f, {}) + One(f, {}) + One(f, {}) + One(f, {})
    BY <1>9, <1>12 DEF One
  <2>3. \A i \in 0 + 1..Len(loaded.commits) : IsPoint(loaded.files, loaded.commits[i])
    BY <1>5, <1>6, <1>9
  <2>4. \A i, j \in 0 + 1..Len(loaded.commits) : i < j => loaded.commits[i].gen < loaded.commits[j].gen
    BY <1>4, <1>5, <1>6, <1>9
  <2> QED
    BY <1>10, <1>11, <2>1, <2>2, <2>3, <2>4 DEF Consistent
<1>14. Covered(loaded, 0, 0, {}, F)
  <2> SUFFICES ASSUME NEW n \in gens PROVE \E i \in 0 + 1..Len(commits) : commits[i].gen = n
    BY <1>9 DEF Covered, gens
  <2> QED
    BY <1>4, <1>5, <1>6
<1>15. \A f \in F : Count(loaded, f) = 0
  BY <1>9 DEF Count
<1>16. \A n \in GenerationsIn(loaded.files) : Segments(n) \notin F
  <2> SUFFICES ASSUME NEW n \in gens, Segments(n) \in F PROVE FALSE
    BY <1>9 DEF gens
  <2>1. PICK i \in 1..c : up[i] = n
    BY <1>4
  <2>2. Segments(n) \in commits[i].files /\ i \in 0 + 1..Len(commits)
    BY <2>1, <1>5, <1>6
  <2>3. From(commits, 0, Segments(n)) # 0
    BY <2>2, <1>6, FromNat
  <2> QED
    BY <2>3, <1>12, <1>15
<1>17. \A f \in DOMAIN d : f \notin F => Count(loaded, f) # 0
  BY <1>9 DEF Count
<1> HIDE DEF F
<1>18. /\ Deleter(cleaned, a, 0, 0, {}, {}, {}, {}) /\ SameCounts(loaded, cleaned)
       /\ Removed(loaded, cleaned, F)
  BY <1>13, <1>14, <1>15, <1>16, DeleteUnused
<1> HIDE DEF cleaned
<1>19. /\ cleaned.last = {} /\ cleaned.commits = commits /\ DOMAIN cleaned.files = DOMAIN d \ F
       /\ \A f \in DOMAIN cleaned.files : cleaned.files[f] = d[f]
  BY <1>9, <1>18 DEF SameCounts, Removed
<1>20. \A f : Count(loaded, f) # 0 <=> \E i \in 1..c : f \in commits[i].files
  <2> TAKE f
  <2>1. From(commits, 0, f) = 0 <=> \A i \in 0 + 1..Len(commits) : f \notin commits[i].files
    BY <1>6, FromNat
  <2> QED
    BY <2>1, <1>6, <1>12
<1>21. ASSUME NEW f \in FilesOf(segs) PROVE c > 0 /\ f \in commits[c].files /\ f \in DOMAIN cleaned.files
  <2>1. PICK n : Newest(d, n) /\ f \in FilesOf(d[Segments(n)].val.segs)
    OBVIOUS
  <2>2. n \in gens /\ \A m \in gens : m <= n
    BY <2>1 DEF Newest, gens
  <2>3. PICK i \in 1..c : up[i] = n
    BY <2>2, <1>4
  <2>4. i = c
    <3>1. c \in 1..c /\ up[c] \in gens
      BY <1>4
    <3>2. up[c] <= n /\ up[c] \in Nat /\ n \in Nat
      BY <2>2, <3>1, <1>3
    <3>3. i < c => up[i] < up[c]
      BY <3>1, <1>4
    <3> QED
      BY <2>3, <3>1, <3>2, <3>3, <1>4
  <2>5. f \in commits[c].files /\ c \in 1..c
    BY <2>1, <2>3, <2>4, <1>5
  <2> QED
    BY <2>5, <1>4, <1>5, <1>15, <1>19, <1>20
<1> DEFINE z == Checkpoint(cleaned, segs)
           y == DeleteCommits(z)
<1>22. /\ Deleter(z, a, 0, 0, FilesOf(segs), {}, {}, {}) /\ z.last = FilesOf(segs)
       /\ z.commits = cleaned.commits /\ Lost(cleaned, z, FilesOf(segs))
  <2>1. Deleter(cleaned, a, 0, 0, cleaned.last, {}, {}, {})
    BY <1>18, <1>19
  <2>2. FilesOf(segs) \subseteq DOMAIN cleaned.files
    BY <1>21
  <2> QED
    BY <2>1, <2>2, CheckpointStore
<1> HIDE DEF z
<1>a. Protected(z, FilesOf(segs))
  BY <1>6, <1>19, <1>21, <1>22 DEF Protected
<1>23. /\ Deleter(y, a, 0, 0, FilesOf(segs), {}, {}, {}) /\ y.last = z.last /\ Lost(z, y, {})
       /\ Protected(y, FilesOf(segs))
  BY <1>22, <1>a, DeleteCommitsStore
<1>24. InitDeleter(x, segs) = y
  BY <1>1 DEF z
<1> HIDE DEF y
<1>25. ASSUME NEW f \in DOMAIN y.files
       PROVE  /\ f \in DOMAIN x.files /\ y.files[f] = x.files[f]
              /\ \E n \in GenerationsIn(x.files) :
                   f \in FilesOf(x.files[Segments(n)].val.segs) \cup {Segments(n)}
  <2>1. f \in DOMAIN cleaned.files /\ y.files[f] = cleaned.files[f]
    BY <1>22, <1>23 DEF Lost
  <2>2. f \in DOMAIN d /\ f \notin F /\ y.files[f] = d[f]
    BY <2>1, <1>19
  <2>3. PICK i \in 1..c : f \in commits[i].files
    BY <2>2, <1>17, <1>20
  <2> QED
    BY <2>2, <2>3, <1>5 DEF gens
<1> QED
  BY <1>22, <1>23, <1>24, <1>25

-----------------------------------------------------------------------------
(* The writer: what it relies on while it is not closed. *)

Committing(p) == p \in {"copied", "prepared", "synced", "renamed"}

\* The generation of a commit that is renamed and not yet the deleter's.
RenamedGen(p, t) == IF p = "renamed" THEN t.gen ELSE 0

\* The names and generations that SegmentInfos i will give to files are new.
FreshFiles(d, i) ==
  /\ \A f \in DOMAIN d : ~ IsCommitFile(f) => f[2] < i.counter
  /\ \A s \in DOMAIN i.segs :
       /\ s < i.counter /\ i.segs[s].del < i.segs[s].nextDel /\ i.segs[s].dv < i.segs[s].nextDv
       /\ \A f \in DOMAIN d : f[2] = s =>
            (f[1] = "liv" => f[3] <= i.segs[s].del) /\ (f[1] = "dv" => f[3] <= i.segs[s].dv)
  /\ \A n \in GenerationsIn(d) : \A s \in Names(d, n) : s < i.counter

\* The segments being built have one file, which nobody refers to.
Unpublished(x, i, b) ==
  \A s \in b :
    /\ s < i.counter /\ s \notin DOMAIN i.segs
    /\ Core(s) \in DOMAIN x.files /\ Count(x, Core(s)) = 0
    /\ \A f \in DOMAIN x.files : ~ IsCommitFile(f) /\ f[2] = s => f = Core(s)

\* The generations there are, when the commit of t has come to p.
GensPhase(x, i, p, t) ==
  /\ \A n \in GenerationsIn(x.files) : n <= i.gen \/ (p = "renamed" /\ n = t.gen)
  /\ \A k \in 1..Len(x.commits) : x.commits[k].gen <= i.gen
  /\ \A f \in DOMAIN x.files : f[1] = "pending_segments" => p \in {"prepared", "synced"} /\ f = Pending(t.gen)
  /\ p = "copied" => t.gen = i.gen
  /\ p \in {"prepared", "synced", "renamed"} => t.gen = i.gen + 1

\* The commit of t gives names that no earlier commit gives again.
NamesPhase(d, i, p, t) ==
  Committing(p) =>
    /\ \A s \in DOMAIN t.segs : s < t.counter
    /\ \A n \in GenerationsIn(d) : /\ \A s \in Names(d, n) : s < t.counter
                                   /\ NotBeyond(d[Segments(n)].val.segs, t.segs)
    /\ t.counter <= i.counter

\* The files of the commit of t.
FilesPhase(d, p, t) ==
  /\ p \in {"prepared", "synced"} =>
       /\ Pending(t.gen) \in DOMAIN d /\ d[Pending(t.gen)].st = "synced"
       /\ d[Pending(t.gen)].val.segs = t.segs /\ d[Pending(t.gen)].val.counter = t.counter
  /\ p = "renamed" => Segments(t.gen) \in DOMAIN d /\ d[Segments(t.gen)].val.segs = t.segs
  /\ p \in {"synced", "renamed"} => \A f \in FilesOf(t.segs) : d[f].st = "synced"
Phase(x, i, p, t) ==
  GensPhase(x, i, p, t) /\ NamesPhase(x.files, i, p, t) /\ FilesPhase(x.files, p, t)

\* The store x of a writer with SegmentInfos i that builds the segments b: a commit of t is at p,
\* C are the files of that commit and R those of the reader.
Writer(x, a, i, b, p, t, C, R) ==
  /\ Deleter(x, a, 0, RenamedGen(p, t), FilesOf(i.segs), C, R, {})
  /\ x.last = FilesOf(i.segs) /\ C = (IF Committing(p) THEN FilesOf(t.segs) ELSE {})
  /\ FreshFiles(x.files, i) /\ Unpublished(x, i, b) /\ Phase(x, i, p, t)

\* Part of the files are left.
Part(d, y) == \A f \in DOMAIN y : f \in DOMAIN d /\ y[f] = d[f]

LEMMA PartGens ==
  ASSUME NEW d, NEW y, IsDir(d), IsDir(y), Part(d, y)
  PROVE  \A n \in GenerationsIn(y) : n \in GenerationsIn(d) /\ y[Segments(n)] = d[Segments(n)]
BY GenerationsAre DEF Part

LEMMA PartFresh ==
  ASSUME NEW d, NEW y, NEW i, IsDir(d), IsDir(y), Part(d, y), FreshFiles(d, i)
  PROVE  FreshFiles(y, i)
<1>1. \A n \in GenerationsIn(y) : n \in GenerationsIn(d) /\ y[Segments(n)] = d[Segments(n)]
  BY PartGens
<1>2. \A n \in GenerationsIn(y) : \A s \in Names(y, n) : s < i.counter
  BY <1>1 DEF FreshFiles, Names
<1> QED
  BY <1>2 DEF FreshFiles, Part

LEMMA LostUnpublished ==
  ASSUME NEW x, NEW y, NEW i, NEW b, NEW F, Lost(x, y, F), Unpublished(x, i, b),
         \A s \in b : Core(s) \notin F
  PROVE  Unpublished(y, i, b)
BY DEF Lost, Unpublished

\* Files that the deleter does not count.
LEMMA NotCounted ==
  ASSUME NEW x, NEW a, NEW k, NEW A, NEW B, NEW C, NEW D, Consistent(x, a, k, A, B, C, D), NEW n
  PROVE  /\ Count(x, Pending(n)) = 0
         /\ (\A i \in k + 1..Len(x.commits) : x.commits[i].gen # n) => Count(x, Segments(n)) = 0
<1>1. IsCommitFile(Pending(n)) /\ IsCommitFile(Segments(n)) /\ \A m : Pending(n) # Segments(m)
  BY DEF IsCommitFile, Pending, Segments
<1>2. \A m : Segments(m) = Segments(n) => m = n
  BY DEF Segments
<1>3. /\ \A i \in k + 1..Len(x.commits) : IsPoint(x.files, x.commits[i])
      /\ \A F \in {A, B, C, D} : \A f \in F : ~ IsCommitFile(f)
  BY DEF Consistent
<1>4. ASSUME NEW i \in k + 1..Len(x.commits), NEW f \in x.commits[i].files
      PROVE  ~ IsCommitFile(f) \/ f = Segments(x.commits[i].gen)
  <2>1. IsSegs(x.files[Segments(x.commits[i].gen)].val.segs)
    BY CountFacts
  <2> QED
    BY <1>3, <2>1, FilesOfData DEF IsPoint
<1>5. \A f : Count(x, f) = 0 <=> /\ \A i \in k + 1..Len(x.commits) : f \notin x.commits[i].files
                                 /\ f \notin A /\ f \notin B /\ f \notin C /\ f \notin D
  BY CountFacts
<1>6. Count(x, Pending(n)) = 0
  BY <1>1, <1>3, <1>4, <1>5
<1>7. ASSUME \A i \in k + 1..Len(x.commits) : x.commits[i].gen # n PROVE Count(x, Segments(n)) = 0
  BY <1>1, <1>2, <1>3, <1>4, <1>5, <1>7
<1> QED
  BY <1>6, <1>7

LEMMA LostPhase ==
  ASSUME NEW x, NEW y, NEW a, NEW i, NEW p, NEW t, NEW A, NEW B, NEW C, NEW D, NEW F,
         Consistent(x, a, 0, A, B, C, D), Lost(x, y, F), IsDir(y.files), \A f \in F : ~ IsCommitFile(f),
         y.commits = x.commits, Phase(x, i, p, t), i.gen \in Nat,
         Committing(p) => FilesOf(t.segs) \subseteq DOMAIN y.files
  PROVE  Phase(y, i, p, t)
<1>1. IsDir(x.files) /\ Part(x.files, y.files)
  BY CountFacts DEF Lost, Part
<1>2. \A n \in GenerationsIn(y.files) : n \in GenerationsIn(x.files) /\ y.files[Segments(n)] = x.files[Segments(n)]
  BY <1>1, PartGens
<1>3. GensPhase(x, i, p, t) /\ NamesPhase(x.files, i, p, t) /\ FilesPhase(x.files, p, t)
  BY DEF Phase
<1>4. GensPhase(y, i, p, t)
  BY <1>1, <1>2, <1>3 DEF GensPhase, Part
<1>5. NamesPhase(y.files, i, p, t)
  BY <1>2, <1>3 DEF NamesPhase, Names
<1>6. FilesPhase(y.files, p, t)
  <2>1. CASE p \in {"prepared", "synced"}
    <3>1. Pending(t.gen) \in DOMAIN x.files /\ Count(x, Pending(t.gen)) = 0 /\ Pending(t.gen) \notin F
      BY <2>1, <1>3, NotCounted DEF FilesPhase, IsCommitFile, Pending
    <3>2. Pending(t.gen) \in DOMAIN y.files
      BY <3>1 DEF Lost
    <3> QED
      BY <2>1, <3>2, <1>1, <1>3 DEF FilesPhase, Part, Committing
  <2>2. CASE p = "renamed"
    <3>1. \A k \in 1..Len(x.commits) : x.commits[k].gen # t.gen
      <4> TAKE k \in 1..Len(x.commits)
      <4>1. x.commits[k].gen <= i.gen /\ t.gen = i.gen + 1
        BY <2>2, <1>3 DEF GensPhase
      <4>2. k \in 0 + 1..Len(x.commits)
        OBVIOUS
      <4>3. x.commits[k].gen \in Nat
        BY <4>2 DEF Consistent, IsPoint
      <4> QED
        BY <4>1, <4>3
    <3>2. Count(x, Segments(t.gen)) = 0
      BY <3>1, NotCounted
    <3>3. Segments(t.gen) \in DOMAIN x.files /\ Segments(t.gen) \notin F
      BY <2>2, <1>3 DEF FilesPhase, IsCommitFile, Segments
    <3>4. Segments(t.gen) \in DOMAIN y.files
      BY <3>2, <3>3 DEF Lost
    <3> QED
      BY <2>2, <3>4, <1>1, <1>3 DEF FilesPhase, Part, Committing
  <2> QED
    BY <2>1, <2>2 DEF FilesPhase
<1> QED
  BY <1>4, <1>5, <1>6 DEF Phase

\* A checkpoint of the segments of i, in a store where nothing refers to them yet.
LEMMA CheckpointWriter ==
  ASSUME NEW x, NEW a, NEW i, NEW b, NEW p, NEW t, NEW C, NEW R,
         Deleter(x, a, 0, RenamedGen(p, t), x.last, C, R, {}),
         C = (IF Committing(p) THEN FilesOf(t.segs) ELSE {}), IsSegs(i.segs), i.gen \in Nat,
         FilesOf(i.segs) \subseteq DOMAIN x.files, FreshFiles(x.files, i), Unpublished(x, i, b),
         Phase(x, i, p, t)
  PROVE  LET y == Checkpoint(x, i.segs)
         IN  Writer(y, a, i, b, p, t, C, R) /\ y.commits = x.commits
<1> DEFINE y == Checkpoint(x, i.segs)
           F == FilesOf(i.segs)
<1>1. /\ Deleter(y, a, 0, RenamedGen(p, t), F, C, R, {}) /\ y.last = F /\ y.commits = x.commits
      /\ Lost(x, y, F)
  BY CheckpointStore
<1> HIDE DEF y
<1>2. Consistent(x, a, 0, x.last, C, R, {}) /\ Consistent(y, a, 0, F, C, R, {})
  BY <1>1 DEF Deleter
<1>3. IsDir(x.files) /\ IsDir(y.files) /\ Part(x.files, y.files)
  BY <1>1, <1>2, CountFacts DEF Lost, Part
<1>4. FreshFiles(y.files, i)
  BY <1>3, PartFresh
<1>5. \A f \in F : ~ IsCommitFile(f) /\ f[2] \in DOMAIN i.segs
  BY FilesOfData
<1>6. Unpublished(y, i, b)
  <2>1. \A s \in b : Core(s) \notin F
    BY <1>5 DEF Unpublished, Core
  <2> QED
    BY <2>1, <1>1, LostUnpublished
<1>7. Phase(y, i, p, t)
  <2>1. C \subseteq DOMAIN y.files
    BY <1>2 DEF Consistent
  <2> QED
    BY <2>1, <1>1, <1>2, <1>3, <1>5, LostPhase
<1> QED
  BY <1>1, <1>4, <1>6, <1>7 DEF Writer, y

\* Files change their state, or come in, and the deleter takes no part in it.
LEMMA Rewritten ==
  ASSUME NEW x, NEW y, NEW a, NEW k, NEW g0, NEW g, NEW A, NEW B, NEW C, NEW D,
         Deleter(x, a, k, g0, A, B, C, D), g0 \in {0, g}, IsStore(y), Safe(y, a), SameCounts(x, y),
         \A f \in DOMAIN x.files : f[1] # "pending_segments" =>
            f \in DOMAIN y.files /\ y.files[f].val = x.files[f].val,
         \A n \in GenerationsIn(y.files) :
            n \in GenerationsIn(x.files) \/ (n = g /\ FilesOf(y.files[Segments(n)].val.segs) \subseteq B)
  PROVE  Deleter(y, a, k, g, A, B, C, D)
<1>1. Consistent(x, a, k, A, B, C, D) /\ Covered(x, k, g0, B, {})
  BY DEF Deleter
<1>2. IsDir(x.files) /\ Good(x.files) /\ y.commits = x.commits /\ \A f : Count(y, f) = Count(x, f)
  BY <1>1, CountFacts DEF SameCounts, Count
<1>3. \A n : Segments(n)[1] # "pending_segments"
  BY DEF Segments
<1>4. \A i \in k + 1..Len(x.commits) : IsPoint(y.files, x.commits[i])
  BY <1>1, <1>3 DEF Consistent, IsPoint
<1>5. \A F \in {A, B, C, D} : \A f \in F : f \in DOMAIN y.files /\ ~ IsCommitFile(f)
  BY <1>1 DEF Consistent, IsCommitFile
<1>6. Consistent(y, a, k, A, B, C, D)
  BY <1>1, <1>2, <1>4, <1>5 DEF Consistent
<1>7. Covered(y, k, g, B, {})
  <2> SUFFICES ASSUME NEW n \in GenerationsIn(y.files), n \in GenerationsIn(x.files)
               PROVE  \/ \E i \in k + 1..Len(x.commits) : x.commits[i].gen = n
                      \/ n = g /\ FilesOf(y.files[Segments(n)].val.segs) \subseteq B
    BY <1>2 DEF Covered
  <2>1. n # 0
    BY <1>2 DEF Good
  <2>2. Segments(n) \in DOMAIN x.files
    BY <1>2, GenerationsAre
  <2>3. y.files[Segments(n)].val = x.files[Segments(n)].val
    BY <2>2, <1>3
  <2> QED
    BY <2>1, <2>3, <1>1 DEF Covered
<1> QED
  BY <1>6, <1>7 DEF Deleter

\* The record of a SegmentInfos.
IsRecord(i) == i = [segs |-> i.segs, counter |-> i.counter, gen |-> i.gen, lastGen |-> i.lastGen]

SetTo(j, segs, counter, gen, lastGen) ==
  IsRecord(j) /\ j.segs = segs /\ j.counter = counter /\ j.gen = gen /\ j.lastGen = lastGen

LEMMA SetSegs ==
  ASSUME NEW i, IsRecord(i), NEW v
  PROVE  SetTo([i EXCEPT !.segs = v], v, i.counter, i.gen, i.lastGen)
<1>1. [i EXCEPT !.segs = v] = [segs |-> v, counter |-> i.counter, gen |-> i.gen, lastGen |-> i.lastGen]
  BY DEF IsRecord
<1> QED
  BY <1>1 DEF IsRecord, SetTo

LEMMA SetCounter ==
  ASSUME NEW i, IsRecord(i), NEW v
  PROVE  SetTo([i EXCEPT !.counter = v], i.segs, v, i.gen, i.lastGen)
<1>1. [i EXCEPT !.counter = v] = [segs |-> i.segs, counter |-> v, gen |-> i.gen, lastGen |-> i.lastGen]
  BY DEF IsRecord
<1> QED
  BY <1>1 DEF IsRecord, SetTo

LEMMA SetGen ==
  ASSUME NEW i, IsRecord(i), NEW v
  PROVE  SetTo([i EXCEPT !.gen = v], i.segs, i.counter, v, i.lastGen)
<1>1. [i EXCEPT !.gen = v] = [segs |-> i.segs, counter |-> i.counter, gen |-> v, lastGen |-> i.lastGen]
  BY DEF IsRecord
<1> QED
  BY <1>1 DEF IsRecord, SetTo

LEMMA UpdateGenerationIs ==
  ASSUME NEW i, IsRecord(i), NEW l, NEW g
  PROVE  SetTo(UpdateGeneration(i, l, g), i.segs, i.counter, g, l)
<1> DEFINE v == i.segs
           c == i.counter
<1>1. i = [segs |-> v, counter |-> c, gen |-> i.gen, lastGen |-> i.lastGen]
  BY DEF IsRecord
<1> DEFINE j == [i EXCEPT !.lastGen = l]
<1>2. j = [segs |-> v, counter |-> c, gen |-> i.gen, lastGen |-> l]
  BY <1>1
<1> HIDE DEF v, c, j
<1>3. [j EXCEPT !.gen = g] = [segs |-> v, counter |-> c, gen |-> g, lastGen |-> l]
  BY <1>2
<1>4. UpdateGeneration(i, l, g) = [segs |-> v, counter |-> c, gen |-> g, lastGen |-> l]
  BY <1>3 DEF UpdateGeneration, j
<1> QED
  BY <1>4 DEF IsRecord, SetTo, v, c

\* The files of segments.
LEMMA FilesOfAre ==
  ASSUME NEW segs, NEW f
  PROVE  f \in FilesOf(segs) <=>
           \E s \in DOMAIN segs : \/ f = Core(s)
                                  \/ segs[s].del > 0 /\ f = Live(s, segs[s].del)
                                  \/ segs[s].dv > 0 /\ f = Dv(s, segs[s].dv)
BY DEF FilesOf, SegmentFiles

LEMMA FilesOfSame ==
  ASSUME NEW v, NEW w, DOMAIN v = DOMAIN w, \A s \in DOMAIN w : v[s].del = w[s].del /\ v[s].dv = w[s].dv
  PROVE  FilesOf(v) = FilesOf(w)
<1>1. \A f : f \in FilesOf(v) <=> f \in FilesOf(w)
  BY FilesOfAre
<1> QED
  BY <1>1

\* What a writer has.
LEMMA WriterFacts ==
  ASSUME NEW x, NEW a, NEW i, NEW b, NEW p, NEW t, NEW C, NEW R, Writer(x, a, i, b, p, t, C, R)
  PROVE  /\ Deleter(x, a, 0, RenamedGen(p, t), x.last, C, R, {}) /\ x.last = FilesOf(i.segs)
         /\ Consistent(x, a, 0, x.last, C, R, {})
         /\ C = (IF Committing(p) THEN FilesOf(t.segs) ELSE {})
         /\ IsStore(x) /\ Safe(x, a) /\ IsDir(x.files) /\ Good(x.files)
         /\ \A f : Count(x, f) \in Nat /\ (Count(x, f) # 0 => f \in DOMAIN x.files)
         /\ \A f \in DOMAIN x.rc : x.rc[f] \in Nat
         /\ FilesOf(i.segs) \subseteq DOMAIN x.files /\ C \subseteq DOMAIN x.files /\ R \subseteq DOMAIN x.files
         /\ FreshFiles(x.files, i) /\ Unpublished(x, i, b) /\ Phase(x, i, p, t)
<1>1. /\ Deleter(x, a, 0, RenamedGen(p, t), x.last, C, R, {}) /\ x.last = FilesOf(i.segs)
      /\ C = (IF Committing(p) THEN FilesOf(t.segs) ELSE {})
      /\ FreshFiles(x.files, i) /\ Unpublished(x, i, b) /\ Phase(x, i, p, t)
  BY DEF Writer
<1>2. Consistent(x, a, 0, x.last, C, R, {})
  BY <1>1 DEF Deleter
<1>3. IsStore(x) /\ Safe(x, a) /\ x.last \subseteq DOMAIN x.files /\ C \subseteq DOMAIN x.files /\ R \subseteq DOMAIN x.files
  BY <1>2 DEF Consistent
<1>4. IsDir(x.files) /\ Good(x.files) /\ \A f : Count(x, f) \in Nat /\ (Count(x, f) # 0 => f \in DOMAIN x.files)
  BY <1>2, CountFacts
<1>5. \A f \in DOMAIN x.rc : x.rc[f] \in Nat
  BY <1>4 DEF Count
<1> QED
  BY <1>1, <1>2, <1>3, <1>4, <1>5

\* New files of segments are written.
Grown(x, y, F) ==
  /\ IsStore(y) /\ SameCounts(x, y) /\ (\A f : Count(y, f) = Count(x, f))
  /\ DOMAIN y.files = DOMAIN x.files \cup F /\ \A f \in DOMAIN x.files : y.files[f] = x.files[f]
  /\ GenerationsIn(y.files) = GenerationsIn(x.files)
  /\ \A n \in GenerationsIn(x.files) : y.files[Segments(n)] = x.files[Segments(n)]

LEMMA GrownStore ==
  ASSUME NEW x, NEW a, NEW g, NEW A, NEW B, NEW C, NEW F, NEW v, IsFiniteSet(F), Deleter(x, a, 0, g, A, B, C, {}),
         \A f \in F : /\ f \notin DOMAIN x.files /\ IsFile(f) /\ ~ IsSegments(f)
                      /\ IsCommitFile(f) => IsInfos(v)
  PROVE  LET y == Create(x, F, v)
         IN  /\ Deleter(y, a, 0, g, A, B, C, {}) /\ Grown(x, y, F)
             /\ \A f \in F : y.files[f] = [st |-> "dirty", val |-> v]
<1> DEFINE y == Create(x, F, v)
<1>1. Consistent(x, a, 0, A, B, C, {}) /\ IsStore(x) /\ Safe(x, a) /\ IsDir(x.files)
  BY DEF Deleter, Consistent, IsStore
<1>2. /\ IsStore(y) /\ Safe(y, a) /\ SameCounts(x, y) /\ DOMAIN y.files = DOMAIN x.files \cup F
      /\ \A f \in DOMAIN x.files : y.files[f] = x.files[f]
      /\ \A f \in F : y.files[f] = [st |-> "dirty", val |-> v]
  BY <1>1, CreateStore
<1> HIDE DEF y
<1>3. \A n : Segments(n) \notin F
  BY DEF IsSegments, Segments
<1>4. \A n : n \in GenerationsIn(y.files) <=> n \in GenerationsIn(x.files)
  BY <1>1, <1>2, <1>3, GenerationsAre DEF IsStore
<1>5. \A n \in GenerationsIn(x.files) : y.files[Segments(n)] = x.files[Segments(n)]
  BY <1>1, <1>2, GenerationsAre
<1>6. \A f : Count(y, f) = Count(x, f)
  BY <1>2 DEF SameCounts, Count
<1>7. Deleter(y, a, 0, g, A, B, C, {})
  BY <1>2, <1>4, Rewritten
<1>8. GenerationsIn(y.files) = GenerationsIn(x.files)
  BY <1>4
<1> QED
  BY <1>2, <1>5, <1>6, <1>7, <1>8 DEF Grown, y

LEMMA GrownPhase ==
  ASSUME NEW x, NEW y, NEW i, NEW j, NEW p, NEW t, NEW F, Phase(x, i, p, t), Grown(x, y, F),
         \A f \in F : ~ IsCommitFile(f), j.gen = i.gen, i.counter <= j.counter, i.counter \in Nat,
         j.counter \in Nat, t.counter \in Nat, Committing(p) => FilesOf(t.segs) \subseteq DOMAIN x.files,
         IsDir(x.files)
  PROVE  Phase(y, j, p, t)
<1>a. \A n \in GenerationsIn(x.files) : y.files[Segments(n)] = x.files[Segments(n)]
  BY GenerationsAre DEF Grown
<1>1. GensPhase(x, i, p, t) /\ NamesPhase(x.files, i, p, t) /\ FilesPhase(x.files, p, t)
  BY DEF Phase
<1>2. \A f \in F : f[1] # "pending_segments"
  BY DEF IsCommitFile
<1>3. GensPhase(y, j, p, t)
  BY <1>1, <1>2 DEF GensPhase, Grown, SameCounts
<1>4. NamesPhase(y.files, j, p, t)
  BY <1>1, <1>a DEF NamesPhase, Grown, Names
<1>5. FilesPhase(y.files, p, t)
  BY <1>1 DEF FilesPhase, Grown, Committing
<1> QED
  BY <1>3, <1>4, <1>5 DEF Phase

LEMMA GrownFresh ==
  ASSUME NEW x, NEW y, NEW i, NEW j, NEW b, NEW F, FreshFiles(x.files, i), Unpublished(x, i, b), Grown(x, y, F),
         i.counter <= j.counter, i.counter \in Nat, j.counter \in Nat, b \subseteq Nat, DOMAIN i.segs \subseteq Nat,
         DOMAIN j.segs = DOMAIN i.segs, IsDir(x.files),
         \A s \in DOMAIN i.segs : j.segs[s] \in Entries /\ i.segs[s] \in Entries
                                  /\ i.segs[s].del <= j.segs[s].del /\ i.segs[s].dv <= j.segs[s].dv
                                  /\ j.segs[s].del < j.segs[s].nextDel /\ j.segs[s].dv < j.segs[s].nextDv,
         \A f \in F : /\ ~ IsCommitFile(f) => f[2] < j.counter /\ f[2] \notin b
                      /\ f[2] \in DOMAIN i.segs => /\ f[1] = "liv" => f[3] <= j.segs[f[2]].del
                                                   /\ f[1] = "dv" => f[3] <= j.segs[f[2]].dv
  PROVE  FreshFiles(y.files, j) /\ Unpublished(y, j, b)
<1>1. /\ DOMAIN y.files = DOMAIN x.files \cup F /\ (\A f : Count(y, f) = Count(x, f))
      /\ GenerationsIn(y.files) = GenerationsIn(x.files)
      /\ \A n \in GenerationsIn(x.files) : Names(y.files, n) = Names(x.files, n)
  BY DEF Grown, Names
<1>2. \A f \in DOMAIN x.files : f[2] \in Nat /\ f[3] \in Nat
  BY FileFacts DEF IsDir
<1>3. \A f \in DOMAIN y.files : ~ IsCommitFile(f) => f[2] < j.counter
  <2> SUFFICES ASSUME NEW f \in DOMAIN x.files, ~ IsCommitFile(f) PROVE f[2] < j.counter
    BY <1>1
  <2>1. f[2] < i.counter /\ f[2] \in Nat
    BY <1>2 DEF FreshFiles
  <2> QED
    BY <2>1
<1>4. ASSUME NEW s \in DOMAIN i.segs
      PROVE  /\ s < j.counter
             /\ \A f \in DOMAIN y.files : f[2] = s =>
                  (f[1] = "liv" => f[3] <= j.segs[s].del) /\ (f[1] = "dv" => f[3] <= j.segs[s].dv)
  <2>1. s < i.counter /\ s \in Nat
    BY DEF FreshFiles
  <2>2. /\ i.segs[s].del \in Nat /\ j.segs[s].del \in Nat /\ i.segs[s].del <= j.segs[s].del
        /\ i.segs[s].dv \in Nat /\ j.segs[s].dv \in Nat /\ i.segs[s].dv <= j.segs[s].dv
    BY DEF Entries
  <2>3. ASSUME NEW f \in DOMAIN x.files, f[2] = s
        PROVE  (f[1] = "liv" => f[3] <= j.segs[s].del) /\ (f[1] = "dv" => f[3] <= j.segs[s].dv)
    <3>1. (f[1] = "liv" => f[3] <= i.segs[s].del) /\ (f[1] = "dv" => f[3] <= i.segs[s].dv) /\ f[3] \in Nat
      BY <2>3, <1>2 DEF FreshFiles
    <3> QED
      BY <2>2, <3>1
  <2> QED
    BY <2>1, <2>3, <1>1
<1>5. \A n \in GenerationsIn(y.files) : \A s \in Names(y.files, n) : s < j.counter
  <2> SUFFICES ASSUME NEW n \in GenerationsIn(x.files), NEW s \in Names(x.files, n) PROVE s < j.counter
    BY <1>1
  <2>1. s < i.counter
    BY DEF FreshFiles
  <2>2. s \in Nat
    <3>1. Segments(n) \in DOMAIN x.files /\ n \in Nat
      BY GenerationsAre
    <3>2. IsCommitFile(Segments(n))
      BY <3>1, NameFacts
    <3>3. IsInfos(x.files[Segments(n)].val)
      BY <3>1, <3>2 DEF IsDir, IsState
    <3> QED
      BY <3>3 DEF IsInfos, IsSegs, Names
  <2> QED
    BY <2>1, <2>2
<1>6. FreshFiles(y.files, j)
  BY <1>3, <1>4, <1>5 DEF FreshFiles
<1>7. Unpublished(y, j, b)
  <2> SUFFICES ASSUME NEW s \in b
               PROVE  /\ s < j.counter /\ s \notin DOMAIN j.segs
                      /\ Core(s) \in DOMAIN y.files /\ Count(y, Core(s)) = 0
                      /\ \A f \in DOMAIN y.files : ~ IsCommitFile(f) /\ f[2] = s => f = Core(s)
    BY DEF Unpublished
  <2>1. /\ s < i.counter /\ s \notin DOMAIN i.segs /\ s \in Nat
        /\ Core(s) \in DOMAIN x.files /\ Count(x, Core(s)) = 0
        /\ \A f \in DOMAIN x.files : ~ IsCommitFile(f) /\ f[2] = s => f = Core(s)
    BY DEF Unpublished
  <2>2. s < j.counter
    BY <2>1
  <2> QED
    BY <2>1, <2>2, <1>1
<1> QED
  BY <1>6, <1>7

\* Segments are taken away, and segments that were built come in.
LEMMA Republish ==
  ASSUME NEW x, NEW a, NEW i, NEW b, NEW p, NEW t, NEW C, NEW R, Writer(x, a, i, b, p, t, C, R),
         IsRecord(i), IsInfos(i), b \subseteq Nat, NEW v, NEW c \in SUBSET b,
         \A s \in DOMAIN v : \/ s \in DOMAIN i.segs /\ v[s] = i.segs[s]
                             \/ s \in b \ c /\ v[s] = NewSegment
  PROVE  LET j == [i EXCEPT !.segs = v]
             y == Checkpoint(x, v)
         IN  /\ Writer(y, a, j, c, p, t, C, R) /\ y.commits = x.commits
             /\ IsRecord(j) /\ IsInfos(j) /\ j.segs = v
<1> DEFINE j == [i EXCEPT !.segs = v]
           y == Checkpoint(x, v)
<1>0. SetTo(j, v, i.counter, i.gen, i.lastGen)
  BY SetSegs
<1> HIDE DEF j
<1>1. IsRecord(j) /\ j.segs = v /\ j.counter = i.counter /\ j.gen = i.gen /\ j.lastGen = i.lastGen
  BY <1>0 DEF SetTo
<1>2. /\ Deleter(x, a, 0, RenamedGen(p, t), x.last, C, R, {}) /\ x.last = FilesOf(i.segs)
      /\ C = (IF Committing(p) THEN FilesOf(t.segs) ELSE {})
      /\ FilesOf(i.segs) \subseteq DOMAIN x.files
      /\ FreshFiles(x.files, i) /\ Unpublished(x, i, b) /\ Phase(x, i, p, t)
  BY WriterFacts
<1>3. NewSegment \in Entries /\ ~ (NewSegment.del > 0) /\ ~ (NewSegment.dv > 0)
  BY DEF NewSegment, Entries
<1>4. IsSegs(v)
  <2>1. DOMAIN i.segs \subseteq Nat /\ \A s \in DOMAIN i.segs : i.segs[s] \in Entries
    BY DEF IsInfos, IsSegs
  <2>2. \A s \in DOMAIN v : s \in Nat /\ v[s] \in Entries
    BY <2>1, <1>3
  <2> QED
    BY <2>2 DEF IsSegs
<1>5. IsInfos(j)
  BY <1>1, <1>4 DEF IsInfos
<1>6. ASSUME NEW f \in FilesOf(v) PROVE f \in DOMAIN x.files
  <2>1. PICK s \in DOMAIN v : \/ f = Core(s)
                              \/ v[s].del > 0 /\ f = Live(s, v[s].del)
                              \/ v[s].dv > 0 /\ f = Dv(s, v[s].dv)
    BY FilesOfAre
  <2>2. CASE s \in DOMAIN i.segs /\ v[s] = i.segs[s]
    <3>1. f \in FilesOf(i.segs)
      BY <2>1, <2>2, FilesOfAre
    <3> QED
      BY <3>1, <1>2
  <2>3. CASE s \in b \ c /\ v[s] = NewSegment
    <3>1. f = Core(s)
      BY <2>1, <2>3, <1>3
    <3> QED
      BY <3>1, <2>3, <1>2 DEF Unpublished
  <2> QED
    BY <2>2, <2>3
<1>7. FreshFiles(x.files, j)
  <2>1. /\ \A f \in DOMAIN x.files : ~ IsCommitFile(f) => f[2] < i.counter
        /\ \A n \in GenerationsIn(x.files) : \A s \in Names(x.files, n) : s < i.counter
    BY <1>2 DEF FreshFiles
  <2>2. ASSUME NEW s \in DOMAIN v
        PROVE  /\ s < i.counter /\ v[s].del < v[s].nextDel /\ v[s].dv < v[s].nextDv
               /\ \A f \in DOMAIN x.files : f[2] = s =>
                    (f[1] = "liv" => f[3] <= v[s].del) /\ (f[1] = "dv" => f[3] <= v[s].dv)
    <3>1. CASE s \in DOMAIN i.segs /\ v[s] = i.segs[s]
      BY <3>1, <1>2 DEF FreshFiles
    <3>2. CASE s \in b \ c /\ v[s] = NewSegment
      <4>1. s < i.counter /\ \A f \in DOMAIN x.files : ~ IsCommitFile(f) /\ f[2] = s => f = Core(s)
        BY <3>2, <1>2 DEF Unpublished
      <4>2. v[s].del < v[s].nextDel /\ v[s].dv < v[s].nextDv
        BY <3>2 DEF NewSegment
      <4> QED
        BY <4>1, <4>2 DEF IsCommitFile, Core
    <3> QED
      BY <3>1, <3>2
  <2> QED
    BY <1>1, <2>1, <2>2 DEF FreshFiles
<1>8. Unpublished(x, j, c)
  <2> SUFFICES ASSUME NEW s \in c
               PROVE  /\ s < j.counter /\ s \notin DOMAIN j.segs
                      /\ Core(s) \in DOMAIN x.files /\ Count(x, Core(s)) = 0
                      /\ \A f \in DOMAIN x.files : ~ IsCommitFile(f) /\ f[2] = s => f = Core(s)
    BY DEF Unpublished
  <2>1. s \in b
    OBVIOUS
  <2>2. /\ s < i.counter /\ s \notin DOMAIN i.segs
        /\ Core(s) \in DOMAIN x.files /\ Count(x, Core(s)) = 0
        /\ \A f \in DOMAIN x.files : ~ IsCommitFile(f) /\ f[2] = s => f = Core(s)
    BY <2>1, <1>2 DEF Unpublished
  <2>3. s \notin DOMAIN v
    BY <2>2
  <2> QED
    BY <2>2, <2>3, <1>1
<1>9. Phase(x, j, p, t)
  BY <1>1, <1>2 DEF Phase, GensPhase, NamesPhase
<1>10. j.gen \in Nat
  BY <1>5 DEF IsInfos
<1>11. Writer(y, a, j, c, p, t, C, R) /\ y.commits = x.commits
  BY <1>1, <1>2, <1>4, <1>6, <1>7, <1>8, <1>9, <1>10, CheckpointWriter
<1> QED
  BY <1>1, <1>5, <1>11 DEF j

-----------------------------------------------------------------------------
(* The invariant. *)

Typed(l, e, p, i, t, v, c, b, d) ==
  /\ l \in {"open", "closing", "closed", "crashed"} /\ e \in BOOLEAN
  /\ p \in {"idle", "copied", "prepared", "synced", "renamed", "locked out"}
  /\ IsInfos(i) /\ IsInfos(t) /\ IsSegs(v) /\ IsRecord(i) /\ IsRecord(t)
  /\ c \in [now : Nat, pend : Nat] /\ b \subseteq Nat /\ d \subseteq DOMAIN i.segs

\* While the writer is open its store is that of a writer, and its deleter keeps the files of
\* the last commit, to which rollback goes back.  A commit finds its changes still there.
Inv ==
  /\ Typed(life, tragedy, pc, infos, toCommit, rollbackSegs, change, building, deletes)
  /\ acked.gen \in Nat /\ IsStore(store) /\ Safe(store, acked)
  /\ ~ NotClosed => pc = "idle" /\ filesToCommit = {} /\ DOMAIN store.rc = {}
  /\ NotClosed => /\ Writer(store, acked, infos, building, pc, toCommit, filesToCommit, reader)
                  /\ Protected(store, FilesOf(rollbackSegs))
  /\ Committing(pc) => change.now >= change.pend

\* A step of an open writer.
LEMMA OpenStep ==
  ASSUME Typed(life, tragedy, pc, infos, toCommit, rollbackSegs, change, building, deletes)',
         (acked.gen \in Nat)', NotClosed',
         Writer(store, acked, infos, building, pc, toCommit, filesToCommit, reader)',
         Protected(store, FilesOf(rollbackSegs))', (Committing(pc) => change.now >= change.pend)'
  PROVE  Inv'
<1>1. (IsStore(store) /\ Safe(store, acked))'
  <2> DEFINE x == store'
             a == acked'
  <2> SUFFICES IsStore(x) /\ Safe(x, a)
    OBVIOUS
  <2>1. \E i, b, p, t, C, R : Writer(x, a, i, b, p, t, C, R)
    OBVIOUS
  <2> HIDE DEF x, a
  <2> QED
    BY <2>1, WriterFacts
<1> QED
  BY <1>1 DEF Inv

LEMMA ChangedIs ==
  ASSUME NEW c \in [now : Nat, pend : Nat]
  PROVE  LET d == Changed(c)
         IN  d \in [now : Nat, pend : Nat] /\ d.now >= d.pend /\ d.pend = c.pend /\ d.now = c.pend + 1
<1>1. Changed(c) = [now |-> c.pend + 1, pend |-> c.pend]
  BY DEF Changed
<1> QED
  BY <1>1

\* The commit under way, if any, stays where it is.
LEMMA KeepStep ==
  ASSUME Inv, NotClosed, Writer(store', acked, infos', building', pc, toCommit, filesToCommit, reader'),
         store'.commits = store.commits, IsRecord(infos'), IsInfos(infos'), building' \subseteq Nat,
         deletes' \subseteq DOMAIN infos'.segs, change' = change \/ change' = Changed(change),
         UNCHANGED <<life, tragedy, rollbackSegs, commitVars, acked>>
  PROVE  Inv'
<1>1. /\ Protected(store, FilesOf(rollbackSegs)) /\ acked.gen \in Nat
      /\ Typed(life, tragedy, pc, infos, toCommit, rollbackSegs, change, building, deletes)
      /\ Committing(pc) => change.now >= change.pend
  BY DEF Inv
<1>2. UNCHANGED <<life, tragedy, rollbackSegs, pc, toCommit, filesToCommit, acked>>
  BY DEF commitVars
<1>3. Protected(store, FilesOf(rollbackSegs))'
  BY <1>1, <1>2 DEF Protected
<1>4. change \in [now : Nat, pend : Nat]
  BY <1>1 DEF Typed
<1>5. change' \in [now : Nat, pend : Nat] /\ (Committing(pc) => change'.now >= change'.pend)
  BY <1>1, <1>4, ChangedIs
<1>6. Typed(life, tragedy, pc, infos, toCommit, rollbackSegs, change, building, deletes)'
  BY <1>1, <1>2, <1>5 DEF Typed
<1>7. NotClosed'
  BY <1>2 DEF NotClosed
<1> QED
  BY <1>1, <1>2, <1>3, <1>5, <1>6, <1>7, OpenStep

LEMMA InvFacts ==
  ASSUME Inv, NotClosed
  PROVE  /\ Writer(store, acked, infos, building, pc, toCommit, filesToCommit, reader)
         /\ IsRecord(infos) /\ IsInfos(infos) /\ building \subseteq Nat /\ deletes \subseteq DOMAIN infos.segs
         /\ IsRecord(toCommit) /\ IsInfos(toCommit) /\ change \in [now : Nat, pend : Nat]
         /\ acked.gen \in Nat /\ Protected(store, FilesOf(rollbackSegs)) /\ IsSegs(rollbackSegs)
         /\ Committing(pc) => change.now >= change.pend
BY DEF Inv, Typed

\* check_point
LEMMA CheckPointInv ==
  ASSUME Inv, NotClosed, NEW v, NEW c \in SUBSET building,
         \A s \in DOMAIN v : \/ s \in DOMAIN infos.segs /\ v[s] = infos.segs[s]
                             \/ s \in building \ c /\ v[s] = NewSegment,
         CheckPoint(store, v), building' = c, deletes' \subseteq DOMAIN v,
         UNCHANGED <<life, tragedy, rollbackSegs, reader, commitVars, acked>>
  PROVE  Inv'
<1>1. infos' = [infos EXCEPT !.segs = v] /\ store' = Checkpoint(store, v) /\ change' = Changed(change)
  BY DEF CheckPoint
<1>2. /\ Writer(store, acked, infos, building, pc, toCommit, filesToCommit, reader)
      /\ IsRecord(infos) /\ IsInfos(infos) /\ building \subseteq Nat
  BY InvFacts
<1>3. /\ Writer(store', acked, infos', c, pc, toCommit, filesToCommit, reader)
      /\ store'.commits = store.commits /\ IsRecord(infos') /\ IsInfos(infos') /\ infos'.segs = v
  BY <1>1, <1>2, Republish
<1>4. reader' = reader /\ c \subseteq Nat
  BY <1>2
<1> QED
  BY <1>1, <1>3, <1>4, KeepStep

LEMMA PublishInv ==
  ASSUME Inv, NEW s, Publish(s)
  PROVE  Inv'
<1> DEFINE v == With(infos.segs, s)
<1>1. NotClosed /\ s \in building /\ CheckPoint(store, v) /\ building' = building \ {s}
  BY DEF Publish
<1>2. UNCHANGED <<life, tragedy, rollbackSegs, reader, commitVars, acked, deletes>>
  BY DEF Publish
<1>3. \A u \in DOMAIN v : \/ u \in DOMAIN infos.segs /\ v[u] = infos.segs[u]
                          \/ u \in building \ (building \ {s}) /\ v[u] = NewSegment
  BY <1>1 DEF With
<1>4. deletes' \subseteq DOMAIN v
  BY <1>2 DEF Inv, Typed, With
<1> HIDE DEF v
<1> QED
  BY <1>1, <1>2, <1>3, <1>4, CheckPointInv

LEMMA CommitMergeInv ==
  ASSUME Inv, NEW s, NEW S, CommitMerge(s, S)
  PROVE  Inv'
<1> DEFINE v == With(Without(infos.segs, S), s)
<1>1. NotClosed /\ s \in building /\ CheckPoint(store, v) /\ building' = building \ {s}
  BY DEF CommitMerge
<1>2. UNCHANGED <<life, tragedy, rollbackSegs, reader, commitVars, acked>>
  BY DEF CommitMerge
<1>3. /\ DOMAIN v = (DOMAIN infos.segs \ S) \cup {s} /\ v[s] = NewSegment
      /\ \A u \in DOMAIN infos.segs \ S : u # s => v[u] = infos.segs[u]
  BY DEF With, Without, Restrict
<1>4. deletes' \subseteq DOMAIN v
  <2>1. deletes \subseteq DOMAIN infos.segs
    BY DEF Inv, Typed
  <2>2. PICK carried \in SUBSET (IF MaxLive > 0 THEN {s} ELSE {}) : deletes' = (deletes \ S) \cup carried
    BY DEF CommitMerge
  <2> QED
    BY <2>1, <2>2, <1>3
<1> HIDE DEF v
<1>5. \A u \in DOMAIN v : \/ u \in DOMAIN infos.segs /\ v[u] = infos.segs[u]
                          \/ u \in building \ (building \ {s}) /\ v[u] = NewSegment
  BY <1>1, <1>3
<1> QED
  BY <1>1, <1>2, <1>4, <1>5, CheckPointInv

LEMMA ApplyDeletesInv ==
  ASSUME Inv, NEW s, ApplyDeletes(s)
  PROVE  Inv'
<1>1. /\ NotClosed /\ CheckPoint(store, infos.segs) /\ deletes' = deletes \cup {s}
      /\ s \in DOMAIN infos.segs /\ building' = building
      /\ UNCHANGED <<life, tragedy, rollbackSegs, reader, commitVars, acked>>
  BY DEF ApplyDeletes
<1>2. deletes' \subseteq DOMAIN infos.segs
  BY <1>1 DEF Inv, Typed
<1> QED
  BY <1>1, <1>2, CheckPointInv

LEMMA DropSegmentInv ==
  ASSUME Inv, NEW s, DropSegment(s)
  PROVE  Inv'
<1> DEFINE v == Without(infos.segs, {s})
<1>1. /\ NotClosed /\ CheckPoint(store, v) /\ deletes' = deletes \ {s} /\ building' = building
      /\ UNCHANGED <<life, tragedy, rollbackSegs, reader, commitVars, acked>>
  BY DEF DropSegment
<1>2. \A u \in DOMAIN v : u \in DOMAIN infos.segs /\ v[u] = infos.segs[u]
  BY DEF Without, Restrict
<1>3. deletes' \subseteq DOMAIN v
  BY <1>1 DEF Inv, Typed, Without, Restrict
<1> HIDE DEF v
<1> QED
  BY <1>1, <1>2, <1>3, CheckPointInv

LEMMA DeleteAllInv ==
  ASSUME Inv, DeleteAll
  PROVE  Inv'
<1>1. /\ life = "open" /\ CheckPoint(store, NoSegments) /\ deletes' = {} /\ building' = building
      /\ UNCHANGED <<life, tragedy, rollbackSegs, reader, commitVars, acked>>
  BY DEF DeleteAll
<1>2. NotClosed
  BY <1>1 DEF NotClosed
<1>3. DOMAIN NoSegments = {}
  BY DEF NoSegments
<1> QED
  BY <1>1, <1>2, <1>3, CheckPointInv

\* A segment is written under the next name.
LEMMA WrittenWriter ==
  ASSUME NEW x, NEW a, NEW i, NEW b, NEW p, NEW t, NEW C, NEW R, Writer(x, a, i, b, p, t, C, R),
         IsRecord(i), IsInfos(i), b \subseteq Nat, t.counter \in Nat
  PROVE  LET s == i.counter
             j == [i EXCEPT !.counter = @ + 1]
             y == Create(x, {Core(s)}, NoSegments)
         IN  /\ Writer(y, a, j, b \cup {s}, p, t, C, R) /\ y.commits = x.commits
             /\ IsRecord(j) /\ IsInfos(j) /\ j.segs = i.segs /\ s \in Nat
<1> DEFINE s == i.counter
           j == [i EXCEPT !.counter = @ + 1]
           y == Create(x, {Core(s)}, NoSegments)
           F == {Core(s)}
<1>1. SetTo(j, i.segs, s + 1, i.gen, i.lastGen)
  BY SetCounter
<1>2. s \in Nat /\ IsSegs(i.segs) /\ DOMAIN i.segs \subseteq Nat /\ i.gen \in Nat /\ i.lastGen \in Nat
  BY DEF IsInfos, IsSegs
<1> HIDE DEF j
<1>3. IsRecord(j) /\ j.segs = i.segs /\ j.counter = s + 1 /\ j.gen = i.gen /\ j.lastGen = i.lastGen
  BY <1>1 DEF SetTo
<1>4. IsInfos(j)
  BY <1>2, <1>3 DEF IsInfos
<1>5. /\ Deleter(x, a, 0, RenamedGen(p, t), x.last, C, R, {}) /\ x.last = FilesOf(i.segs)
      /\ C = (IF Committing(p) THEN FilesOf(t.segs) ELSE {}) /\ C \subseteq DOMAIN x.files /\ IsDir(x.files)
      /\ FreshFiles(x.files, i) /\ Unpublished(x, i, b) /\ Phase(x, i, p, t)
      /\ \A f : Count(x, f) \in Nat /\ (Count(x, f) # 0 => f \in DOMAIN x.files)
  BY WriterFacts
<1>6. IsFile(Core(s)) /\ ~ IsCommitFile(Core(s)) /\ ~ IsSegments(Core(s)) /\ Core(s)[2] = s /\ Core(s)[1] = "core"
  BY <1>2, NameFacts DEF Core
<1>7. \A f \in DOMAIN x.files : ~ IsCommitFile(f) => f[2] # s
  BY <1>2, <1>5 DEF FreshFiles
<1>8. Core(s) \notin DOMAIN x.files
  BY <1>6, <1>7
<1>9. /\ Deleter(y, a, 0, RenamedGen(p, t), x.last, C, R, {}) /\ Grown(x, y, F)
  <2>1. IsFiniteSet(F)
    BY FS_Singleton
  <2>2. \A f \in F : f \notin DOMAIN x.files /\ IsFile(f) /\ ~ IsSegments(f) /\ ~ IsCommitFile(f)
    BY <1>6, <1>8
  <2>3. y = Create(x, F, NoSegments)
    OBVIOUS
  <2> HIDE DEF F, y
  <2> QED
    BY <2>1, <2>2, <2>3, <1>5, GrownStore
<1> HIDE DEF y
<1>10. /\ y.commits = x.commits /\ y.last = x.last /\ (\A f : Count(y, f) = Count(x, f))
       /\ DOMAIN y.files = DOMAIN x.files \cup F
  BY <1>9 DEF Grown, SameCounts
<1>11. Phase(y, j, p, t)
  <2>1. i.counter <= j.counter /\ j.counter \in Nat
    BY <1>2, <1>3
  <2> QED
    BY <2>1, <1>2, <1>3, <1>5, <1>6, <1>9, GrownPhase
<1>12. FreshFiles(y.files, j) /\ Unpublished(y, j, b)
  <2>1. i.counter <= j.counter /\ j.counter \in Nat /\ s < j.counter
    BY <1>2, <1>3
  <2>2. \A u \in DOMAIN i.segs : j.segs[u] \in Entries /\ i.segs[u] \in Entries
           /\ i.segs[u].del <= j.segs[u].del /\ i.segs[u].dv <= j.segs[u].dv
           /\ j.segs[u].del < j.segs[u].nextDel /\ j.segs[u].dv < j.segs[u].nextDv
    BY <1>2, <1>3, <1>5 DEF IsSegs, Entries, FreshFiles
  <2>3. s \notin b
    BY <1>2, <1>5 DEF Unpublished
  <2>4. \A f \in F : /\ ~ IsCommitFile(f) => f[2] < j.counter /\ f[2] \notin b
                     /\ f[2] \in DOMAIN i.segs => /\ f[1] = "liv" => f[3] <= j.segs[f[2]].del
                                                  /\ f[1] = "dv" => f[3] <= j.segs[f[2]].dv
    BY <2>1, <2>3, <1>6
  <2> HIDE DEF s, F
  <2> QED
    BY <2>1, <2>2, <2>4, <1>2, <1>3, <1>5, <1>9, GrownFresh DEF s
<1>13. Unpublished(y, j, b \cup {s})
  <2>1. s < j.counter /\ s \notin DOMAIN j.segs
    BY <1>2, <1>3, <1>5 DEF FreshFiles
  <2>2. Core(s) \in DOMAIN y.files /\ Count(y, Core(s)) = 0
    BY <1>5, <1>8, <1>10
  <2>3. \A f \in DOMAIN y.files : ~ IsCommitFile(f) /\ f[2] = s => f = Core(s)
    BY <1>7, <1>10
  <2> HIDE DEF s
  <2> QED
    BY <2>1, <2>2, <2>3, <1>12 DEF Unpublished
<1>14. Writer(y, a, j, b \cup {s}, p, t, C, R)
  BY <1>3, <1>5, <1>9, <1>10, <1>11, <1>12, <1>13 DEF Writer
<1> QED
  BY <1>2, <1>3, <1>4, <1>10, <1>14 DEF y, j

\* New generations of the live docs and the updates of segments are written.
LEMMA AdvancedWriter ==
  ASSUME NEW x, NEW a, NEW i, NEW b, NEW p, NEW t, NEW C, NEW R, Writer(x, a, i, b, p, t, C, R),
         IsRecord(i), IsInfos(i), b \subseteq Nat, t.counter \in Nat, NEW v, NEW F, IsFiniteSet(F),
         DOMAIN v = DOMAIN i.segs, FilesOf(v) \subseteq FilesOf(i.segs) \cup F,
         \A s \in DOMAIN v : /\ v[s] \in Entries
                             /\ i.segs[s].del <= v[s].del /\ i.segs[s].dv <= v[s].dv
                             /\ v[s].del < v[s].nextDel /\ v[s].dv < v[s].nextDv,
         \A f \in F : \E s \in DOMAIN v :
            \/ f = Live(s, i.segs[s].nextDel) /\ i.segs[s].nextDel = v[s].del
            \/ f = Dv(s, i.segs[s].nextDv) /\ i.segs[s].nextDv = v[s].dv
  PROVE  LET j == [i EXCEPT !.segs = v]
             y == Checkpoint(Create(x, F, NoSegments), v)
         IN  /\ Writer(y, a, j, b, p, t, C, R) /\ y.commits = x.commits
             /\ IsRecord(j) /\ IsInfos(j) /\ j.segs = v
<1> DEFINE j == [i EXCEPT !.segs = v]
           z == Create(x, F, NoSegments)
           y == Checkpoint(z, v)
<1>1. SetTo(j, v, i.counter, i.gen, i.lastGen)
  BY SetSegs
<1>2. /\ i.counter \in Nat /\ DOMAIN i.segs \subseteq Nat /\ i.gen \in Nat /\ i.lastGen \in Nat
      /\ \A s \in DOMAIN i.segs : i.segs[s] \in Entries
  BY DEF IsInfos, IsSegs
<1> HIDE DEF j
<1>3. IsRecord(j) /\ j.segs = v /\ j.counter = i.counter /\ j.gen = i.gen /\ j.lastGen = i.lastGen
  BY <1>1 DEF SetTo
<1>4. IsSegs(v) /\ IsInfos(j)
  BY <1>2, <1>3 DEF IsInfos, IsSegs
<1>5. /\ Deleter(x, a, 0, RenamedGen(p, t), x.last, C, R, {}) /\ x.last = FilesOf(i.segs)
      /\ C = (IF Committing(p) THEN FilesOf(t.segs) ELSE {}) /\ C \subseteq DOMAIN x.files /\ IsDir(x.files)
      /\ FreshFiles(x.files, i) /\ Unpublished(x, i, b) /\ Phase(x, i, p, t)
      /\ FilesOf(i.segs) \subseteq DOMAIN x.files
  BY WriterFacts
<1>6. ASSUME NEW f \in F
      PROVE  /\ f \notin DOMAIN x.files /\ IsFile(f) /\ ~ IsCommitFile(f) /\ ~ IsSegments(f)
             /\ f[2] \in DOMAIN i.segs /\ f[2] < i.counter
             /\ f[1] = "liv" => f[3] <= v[f[2]].del
             /\ f[1] = "dv" => f[3] <= v[f[2]].dv
  <2>1. PICK s \in DOMAIN v :
            \/ f = Live(s, i.segs[s].nextDel) /\ i.segs[s].nextDel = v[s].del
            \/ f = Dv(s, i.segs[s].nextDv) /\ i.segs[s].nextDv = v[s].dv
    OBVIOUS
  <2>2. /\ s \in Nat /\ s \in DOMAIN i.segs /\ i.segs[s].nextDel \in Nat /\ i.segs[s].nextDv \in Nat
        /\ i.segs[s].del \in Nat /\ i.segs[s].dv \in Nat
    BY <1>2 DEF Entries
  <2>3. /\ s < i.counter
        /\ \A h \in DOMAIN x.files : h[2] = s =>
              (h[1] = "liv" => h[3] < i.segs[s].nextDel) /\ (h[1] = "dv" => h[3] < i.segs[s].nextDv)
    <3>1. /\ s < i.counter /\ i.segs[s].del < i.segs[s].nextDel /\ i.segs[s].dv < i.segs[s].nextDv
          /\ \A h \in DOMAIN x.files : h[2] = s =>
                (h[1] = "liv" => h[3] <= i.segs[s].del) /\ (h[1] = "dv" => h[3] <= i.segs[s].dv)
      BY <2>2, <1>5 DEF FreshFiles
    <3>2. \A h \in DOMAIN x.files : h[3] \in Nat
      BY <1>5, FileFacts DEF IsDir
    <3> QED
      BY <2>2, <3>1, <3>2
  <2>4. CASE f = Live(s, i.segs[s].nextDel) /\ i.segs[s].nextDel = v[s].del
    <3>1. IsFile(f) /\ ~ IsCommitFile(f) /\ ~ IsSegments(f)
      BY <2>2, <2>4, NameFacts
    <3>2. f[1] = "liv" /\ f[2] = s /\ f[3] = i.segs[s].nextDel
      BY <2>4 DEF Live
    <3> QED
      BY <2>2, <2>3, <2>4, <3>1, <3>2
  <2>5. CASE f = Dv(s, i.segs[s].nextDv) /\ i.segs[s].nextDv = v[s].dv
    <3>1. IsFile(f) /\ ~ IsCommitFile(f) /\ ~ IsSegments(f)
      BY <2>2, <2>5, NameFacts
    <3>2. f[1] = "dv" /\ f[2] = s /\ f[3] = i.segs[s].nextDv
      BY <2>5 DEF Dv
    <3> QED
      BY <2>2, <2>3, <2>5, <3>1, <3>2
  <2> QED
    BY <2>1, <2>4, <2>5
<1>7. Deleter(z, a, 0, RenamedGen(p, t), x.last, C, R, {}) /\ Grown(x, z, F)
  BY <1>5, <1>6, GrownStore
<1> HIDE DEF z
<1>8. z.commits = x.commits /\ z.last = x.last /\ DOMAIN z.files = DOMAIN x.files \cup F
  BY <1>7 DEF Grown, SameCounts
<1>9. Phase(z, j, p, t)
  <2>1. i.counter <= j.counter /\ j.counter \in Nat
    BY <1>2, <1>3
  <2> QED
    BY <2>1, <1>2, <1>3, <1>5, <1>6, <1>7, GrownPhase
<1>10. FreshFiles(z.files, j) /\ Unpublished(z, j, b)
  <2>1. i.counter <= j.counter /\ j.counter \in Nat
    BY <1>2, <1>3
  <2>2. \A s \in DOMAIN i.segs : j.segs[s] \in Entries /\ i.segs[s] \in Entries
           /\ i.segs[s].del <= j.segs[s].del /\ i.segs[s].dv <= j.segs[s].dv
           /\ j.segs[s].del < j.segs[s].nextDel /\ j.segs[s].dv < j.segs[s].nextDv
    BY <1>2, <1>3
  <2>3. \A s \in b : s \notin DOMAIN i.segs
    BY <1>5 DEF Unpublished
  <2>4. \A f \in F : /\ ~ IsCommitFile(f) => f[2] < j.counter /\ f[2] \notin b
                     /\ f[2] \in DOMAIN i.segs => /\ f[1] = "liv" => f[3] <= j.segs[f[2]].del
                                                  /\ f[1] = "dv" => f[3] <= j.segs[f[2]].dv
    BY <2>3, <1>3, <1>6
  <2> QED
    BY <2>1, <2>2, <2>4, <1>2, <1>3, <1>5, <1>7, GrownFresh
<1>11. FilesOf(v) \subseteq DOMAIN z.files
  BY <1>5, <1>8
<1>12. Writer(y, a, j, b, p, t, C, R) /\ y.commits = z.commits
  BY <1>2, <1>3, <1>4, <1>5, <1>7, <1>8, <1>9, <1>10, <1>11, CheckpointWriter
<1> QED
  BY <1>3, <1>4, <1>8, <1>12 DEF z, j

\* Holders come and go, and files go.
LEMMA ChangedWriter ==
  ASSUME NEW x, NEW a, NEW i, NEW b, NEW p, NEW t, NEW C, NEW R, Writer(x, a, i, b, p, t, C, R),
         i.gen \in Nat, NEW y, NEW F, NEW c \in SUBSET b, NEW S,
         Deleter(y, a, 0, RenamedGen(p, t), FilesOf(i.segs), C, S, {}), y.last = x.last, y.commits = x.commits,
         Lost(x, y, F), \A f \in F : ~ IsCommitFile(f), \A s \in c : Core(s) \notin F
  PROVE  Writer(y, a, i, c, p, t, C, S)
<1>1. /\ Consistent(x, a, 0, x.last, C, R, {}) /\ x.last = FilesOf(i.segs)
      /\ C = (IF Committing(p) THEN FilesOf(t.segs) ELSE {}) /\ IsDir(x.files)
      /\ FreshFiles(x.files, i) /\ Unpublished(x, i, b) /\ Phase(x, i, p, t)
  BY WriterFacts
<1>2. Consistent(y, a, 0, FilesOf(i.segs), C, S, {})
  BY DEF Deleter
<1>3. IsDir(y.files) /\ C \subseteq DOMAIN y.files
  <2>1. C \subseteq DOMAIN y.files
    BY <1>2 DEF Consistent
  <2> QED
    BY <1>2, <2>1, CountFacts
<1>4. FreshFiles(y.files, i)
  BY <1>1, <1>3, PartFresh DEF Part, Lost
<1>5. Unpublished(y, i, c)
  <2>1. Unpublished(x, i, c)
    BY <1>1 DEF Unpublished
  <2> QED
    BY <2>1, LostUnpublished
<1>6. Phase(y, i, p, t)
  BY <1>1, <1>3, LostPhase
<1> QED
  BY <1>1, <1>4, <1>5, <1>6 DEF Writer

-----------------------------------------------------------------------------
(* Changes to the index. *)

LEMMA WriteSegmentInv ==
  ASSUME Inv, WriteSegment
  PROVE  Inv'
<1> DEFINE s == infos.counter
<1>1. /\ NotClosed /\ store' = Create(store, {Core(s)}, NoSegments) /\ building' = building \cup {s}
      /\ infos' = [infos EXCEPT !.counter = @ + 1] /\ change' = change /\ deletes' = deletes
      /\ reader' = reader /\ UNCHANGED <<life, tragedy, rollbackSegs, commitVars, acked>>
  BY DEF WriteSegment, NotClosed
<1>2. /\ Writer(store, acked, infos, building, pc, toCommit, filesToCommit, reader)
      /\ IsRecord(infos) /\ IsInfos(infos) /\ building \subseteq Nat /\ deletes \subseteq DOMAIN infos.segs
      /\ IsInfos(toCommit)
  BY <1>1, InvFacts
<1>3. toCommit.counter \in Nat
  BY <1>2 DEF IsInfos
<1>4. /\ Writer(store', acked, infos', building', pc, toCommit, filesToCommit, reader)
      /\ store'.commits = store.commits /\ IsRecord(infos') /\ IsInfos(infos') /\ infos'.segs = infos.segs
      /\ s \in Nat
  BY <1>1, <1>2, <1>3, WrittenWriter
<1>5. building' \subseteq Nat /\ deletes' \subseteq DOMAIN infos'.segs
  BY <1>1, <1>2, <1>4
<1> QED
  BY <1>1, <1>4, <1>5, KeepStep

\* write_field_updates advances the generation of one segment.
LEMMA UpdatedSegs ==
  ASSUME NEW w, IsSegs(w), NEW s \in DOMAIN w
  PROVE  LET g == w[s].nextDv
             v == [w EXCEPT ![s].dv = g, ![s].nextDv = g + 1]
         IN  /\ DOMAIN v = DOMAIN w /\ \A u \in DOMAIN w : u # s => v[u] = w[u]
             /\ v[s] \in Entries /\ v[s].del = w[s].del /\ v[s].nextDel = w[s].nextDel
             /\ v[s].dv = g /\ v[s].nextDv = g + 1
<1> DEFINE g == w[s].nextDv
           e == w[s]
           z == [w EXCEPT ![s].dv = g]
           v == [w EXCEPT ![s].dv = g, ![s].nextDv = g + 1]
<1>1. e \in Entries
  BY DEF IsSegs
<1>2. /\ e.del \in Nat /\ e.nextDel \in Nat /\ e.dv \in Nat /\ e.nextDv \in Nat
      /\ e = [del |-> e.del, nextDel |-> e.nextDel, dv |-> e.dv, nextDv |-> e.nextDv]
  BY <1>1 DEF Entries
<1>3. DOMAIN z = DOMAIN w /\ z[s] = [e EXCEPT !.dv = g] /\ \A u \in DOMAIN w : u # s => z[u] = w[u]
  OBVIOUS
<1>4. v = [z EXCEPT ![s].nextDv = g + 1]
  OBVIOUS
<1> HIDE DEF e, z
<1>5. z[s] = [del |-> e.del, nextDel |-> e.nextDel, dv |-> g, nextDv |-> e.nextDv]
  BY <1>2, <1>3
<1>6. /\ DOMAIN v = DOMAIN z /\ v[s] = [z[s] EXCEPT !.nextDv = g + 1]
      /\ \A u \in DOMAIN z : u # s => v[u] = z[u]
  <2> HIDE DEF v
  <2> QED
    BY <1>3, <1>4
<1> HIDE DEF v
<1>7. v[s] = [del |-> e.del, nextDel |-> e.nextDel, dv |-> g, nextDv |-> g + 1]
  BY <1>5, <1>6
<1>8. g \in Nat
  BY <1>2 DEF e
<1> HIDE DEF g
<1>9. v[s] \in Entries /\ v[s].del = e.del /\ v[s].nextDel = e.nextDel /\ v[s].dv = g /\ v[s].nextDv = g + 1
  BY <1>2, <1>7, <1>8 DEF Entries
<1> QED
  BY <1>3, <1>6, <1>9 DEF e, g, v

LEMMA UpdateDocValuesInv ==
  ASSUME Inv, NEW s, UpdateDocValues(s)
  PROVE  Inv'
<1> DEFINE w == infos.segs
           g == w[s].nextDv
           v == [w EXCEPT ![s].dv = g, ![s].nextDv = g + 1]
           F == {Dv(s, g)}
<1>1. /\ NotClosed /\ s \in DOMAIN w
      /\ infos' = [infos EXCEPT !.segs = v] /\ store' = Checkpoint(Create(store, F, NoSegments), v)
      /\ change' = Changed(change) /\ building' = building /\ deletes' = deletes
      /\ reader' = reader /\ UNCHANGED <<life, tragedy, rollbackSegs, commitVars, acked>>
  BY DEF UpdateDocValues, CheckPoint
<1>2. /\ Writer(store, acked, infos, building, pc, toCommit, filesToCommit, reader)
      /\ IsRecord(infos) /\ IsInfos(infos) /\ building \subseteq Nat /\ deletes \subseteq DOMAIN w
      /\ IsInfos(toCommit)
  <2>1. NotClosed
    BY <1>1
  <2> QED
    BY <2>1, InvFacts
<1>3. toCommit.counter \in Nat /\ IsSegs(w) /\ (\A u \in DOMAIN w : w[u] \in Entries) /\ g \in Nat
  BY <1>1, <1>2 DEF IsInfos, IsSegs, Entries
<1>4. /\ DOMAIN v = DOMAIN w /\ \A u \in DOMAIN w : u # s => v[u] = w[u]
      /\ v[s] \in Entries /\ v[s].del = w[s].del /\ v[s].nextDel = w[s].nextDel
      /\ v[s].dv = g /\ v[s].nextDv = g + 1
  BY <1>1, <1>3, UpdatedSegs
<1> HIDE DEF v
<1>a. \A u \in DOMAIN w : w[u].del < w[u].nextDel /\ w[u].dv < w[u].nextDv
  BY <1>2 DEF Writer, FreshFiles
<1>5. \A u \in DOMAIN v : /\ v[u] \in Entries /\ w[u].del <= v[u].del /\ w[u].dv <= v[u].dv
                          /\ v[u].del < v[u].nextDel /\ v[u].dv < v[u].nextDv
  <2> TAKE u \in DOMAIN v
  <2>1. w[u].del \in Nat /\ w[u].dv \in Nat /\ w[u].nextDel \in Nat /\ w[u].nextDv \in Nat
    BY <1>3, <1>4 DEF Entries
  <2>2. w[u].del < w[u].nextDel /\ w[u].dv < w[u].nextDv
    BY <1>4, <1>a
  <2> QED
    BY <2>1, <2>2, <1>3, <1>4
<1>6. FilesOf(v) \subseteq FilesOf(w) \cup F
  <2> SUFFICES ASSUME NEW f \in FilesOf(v) PROVE f \in FilesOf(w) \cup F
    OBVIOUS
  <2>1. PICK u \in DOMAIN v : \/ f = Core(u)
                              \/ v[u].del > 0 /\ f = Live(u, v[u].del)
                              \/ v[u].dv > 0 /\ f = Dv(u, v[u].dv)
    BY FilesOfAre
  <2>2. CASE u = s /\ f = Dv(s, g)
    BY <2>2
  <2>3. CASE \/ f = Core(u)
             \/ w[u].del > 0 /\ f = Live(u, w[u].del)
             \/ w[u].dv > 0 /\ f = Dv(u, w[u].dv)
    <3>1. f \in FilesOf(w)
      BY <2>3, <1>4, FilesOfAre
    <3> QED
      BY <3>1
  <2>4. CASE u = s
    BY <2>1, <2>2, <2>3, <2>4, <1>4
  <2>5. CASE u # s
    <3>1. v[u] = w[u]
      BY <2>5, <1>4
    <3> QED
      BY <2>1, <2>3, <3>1
  <2> QED
    BY <2>4, <2>5
<1>7. \A f \in F : \E u \in DOMAIN v :
            \/ f = Live(u, w[u].nextDel) /\ w[u].nextDel = v[u].del
            \/ f = Dv(u, w[u].nextDv) /\ w[u].nextDv = v[u].dv
  BY <1>1, <1>3, <1>4
<1>8. IsFiniteSet(F)
  BY FS_Singleton
<1> HIDE DEF F
<1>9. /\ Writer(store', acked, infos', building, pc, toCommit, filesToCommit, reader)
      /\ store'.commits = store.commits /\ IsRecord(infos') /\ IsInfos(infos') /\ infos'.segs = v
  BY <1>1, <1>2, <1>3, <1>4, <1>5, <1>6, <1>7, <1>8, AdvancedWriter
<1>10. building' \subseteq Nat /\ deletes' \subseteq DOMAIN infos'.segs
  BY <1>1, <1>2, <1>4, <1>9
<1> QED
  BY <1>1, <1>9, <1>10, KeepStep

\* Files go that the deleter does not count.
LEMMA RemovedLost ==
  ASSUME NEW x, NEW y, NEW F, SameCounts(x, y), Removed(x, y, F)
  PROVE  Lost(x, y, F) /\ y.last = x.last /\ y.commits = x.commits
<1>1. \A f : Count(y, f) = Count(x, f)
  BY DEF SameCounts, Count
<1> QED
  BY <1>1 DEF SameCounts, Removed, Lost

LEMMA DiscardSegmentInv ==
  ASSUME Inv, NEW s, DiscardSegment(s)
  PROVE  Inv'
<1> DEFINE F == {Core(s)}
           g == RenamedGen(pc, toCommit)
<1>1. /\ NotClosed /\ s \in building /\ store' = DeleteNewFiles(store, F)
      /\ infos' = infos /\ building' = building \ {s} /\ change' = change /\ deletes' = deletes
      /\ reader' = reader /\ UNCHANGED <<life, tragedy, rollbackSegs, commitVars, acked>>
  BY DEF DiscardSegment
<1>2. /\ Writer(store, acked, infos, building, pc, toCommit, filesToCommit, reader)
      /\ IsRecord(infos) /\ IsInfos(infos) /\ building \subseteq Nat /\ deletes \subseteq DOMAIN infos.segs
  BY <1>1, InvFacts
<1>3. /\ Consistent(store, acked, 0, store.last, filesToCommit, reader, {})
      /\ Deleter(store, acked, 0, g, store.last, filesToCommit, reader, {})
      /\ store.last = FilesOf(infos.segs) /\ Unpublished(store, infos, building)
  BY <1>2, WriterFacts
<1>4. Covered(store, 0, g, filesToCommit, F)
  BY <1>3 DEF Deleter, Covered
<1>5. \A f \in F : Count(store, f) = 0
  BY <1>1, <1>3 DEF Unpublished
<1>6. /\ \A n : Segments(n) \notin F
      /\ \A f \in F : ~ IsCommitFile(f)
      /\ \A u \in building \ {s} : Core(u) \notin F
  BY DEF Core, Segments, IsCommitFile
<1>7. store' = DeleteFiles(store, F)
  <2>1. {f \in F : Count(store, f) = 0} = F
    BY <1>5
  <2> QED
    BY <1>1, <2>1 DEF DeleteNewFiles
<1> HIDE DEF F, g
<1>8. /\ Deleter(store', acked, 0, g, store.last, filesToCommit, reader, {})
      /\ SameCounts(store, store') /\ Removed(store, store', F)
  BY <1>3, <1>4, <1>5, <1>6, <1>7, DeleteUnused
<1>9. Lost(store, store', F) /\ store'.last = store.last /\ store'.commits = store.commits
  BY <1>8, RemovedLost
<1>10. infos.gen \in Nat
  BY <1>2 DEF IsInfos
<1>11. Writer(store', acked, infos, building \ {s}, pc, toCommit, filesToCommit, reader)
  BY <1>2, <1>3, <1>6, <1>8, <1>9, <1>10, ChangedWriter DEF g
<1> QED
  BY <1>1, <1>2, <1>9, <1>11, KeepStep

LEMMA OpenReaderInv ==
  ASSUME Inv, OpenReader
  PROVE  Inv'
<1> DEFINE F == FilesOf(infos.segs)
           g == RenamedGen(pc, toCommit)
<1>1. /\ NotClosed /\ reader = {} /\ store' = IncRefFiles(store, F) /\ reader' = F
      /\ infos' = infos /\ building' = building /\ change' = change /\ deletes' = deletes
      /\ UNCHANGED <<life, tragedy, rollbackSegs, commitVars, acked>>
  BY DEF OpenReader, NotClosed
<1>2. /\ Writer(store, acked, infos, building, pc, toCommit, filesToCommit, {})
      /\ IsRecord(infos) /\ IsInfos(infos) /\ building \subseteq Nat /\ deletes \subseteq DOMAIN infos.segs
  BY <1>1, InvFacts
<1>3. /\ Deleter(store, acked, 0, g, F, filesToCommit, {}, {}) /\ store.last = F
      /\ F \subseteq DOMAIN store.files /\ Unpublished(store, infos, building)
  BY <1>2, WriterFacts
<1>4. IsSegs(infos.segs) /\ infos.gen \in Nat
  BY <1>2 DEF IsInfos
<1>5. \A f \in F : ~ IsCommitFile(f) /\ f[2] \in DOMAIN infos.segs
  BY <1>4, FilesOfData
<1>6. \A s \in building : Core(s) \notin F
  BY <1>3, <1>5 DEF Unpublished, Core
<1> HIDE DEF F, g
<1>7. /\ Deleter(store', acked, 0, g, F, filesToCommit, {}, F) /\ Recounted(store, store', acked)
      /\ \A f : f \notin F => Count(store', f) = Count(store, f)
  BY <1>1, <1>3, <1>5, Acquire
<1>8. Deleter(store', acked, 0, g, F, filesToCommit, F, {})
  BY <1>7, Swap
<1>9. Lost(store, store', F) /\ store'.last = store.last /\ store'.commits = store.commits
  BY <1>7 DEF Recounted, Lost
<1>10. Writer(store', acked, infos, building, pc, toCommit, filesToCommit, F)
  BY <1>2, <1>4, <1>5, <1>6, <1>8, <1>9, ChangedWriter DEF F, g
<1> QED
  BY <1>1, <1>2, <1>9, <1>10, KeepStep

LEMMA CloseReaderInv ==
  ASSUME Inv, CloseReader
  PROVE  Inv'
<1> DEFINE F == FilesOf(infos.segs)
           g == RenamedGen(pc, toCommit)
<1>1. /\ NotClosed /\ store' = DecRefFiles(store, reader) /\ reader' = {}
      /\ infos' = infos /\ building' = building /\ change' = change /\ deletes' = deletes
      /\ UNCHANGED <<life, tragedy, rollbackSegs, commitVars, acked>>
  BY DEF CloseReader, NotClosed
<1>2. /\ Writer(store, acked, infos, building, pc, toCommit, filesToCommit, reader)
      /\ IsRecord(infos) /\ IsInfos(infos) /\ building \subseteq Nat /\ deletes \subseteq DOMAIN infos.segs
  BY <1>1, InvFacts
<1>3. Deleter(store, acked, 0, g, F, filesToCommit, reader, {}) /\ store.last = F
  BY <1>2, WriterFacts
<1>4. infos.gen \in Nat
  BY <1>2 DEF IsInfos
<1> HIDE DEF F, g
<1>5. Deleter(store, acked, 0, g, F, filesToCommit, {}, reader)
  BY <1>3, Swap
<1>6. Deleter(store', acked, 0, g, F, filesToCommit, {}, {}) /\ Shrunk(store, store')
  BY <1>1, <1>5, LetGo
<1>7. Lost(store, store', {}) /\ store'.last = store.last /\ store'.commits = store.commits
  BY <1>6 DEF Shrunk
<1>8. Writer(store', acked, infos, building, pc, toCommit, filesToCommit, {})
  BY <1>2, <1>4, <1>6, <1>7, ChangedWriter DEF F, g
<1> QED
  BY <1>1, <1>2, <1>7, <1>8, KeepStep

-----------------------------------------------------------------------------
(* commit *)

\* The files of segments stay, and the names that commits give.
LEMMA SameDataFresh ==
  ASSUME NEW x, NEW y, NEW i, NEW j, NEW b, FreshFiles(x.files, i), Unpublished(x, i, b),
         j.segs = i.segs, j.counter = i.counter, \A f : Count(y, f) = Count(x, f),
         \A f : ~ IsCommitFile(f) => (f \in DOMAIN y.files <=> f \in DOMAIN x.files),
         \A n \in GenerationsIn(y.files) : \A s \in Names(y.files, n) : s < i.counter
  PROVE  FreshFiles(y.files, j) /\ Unpublished(y, j, b)
<1>1. \A f : f[1] \in {"liv", "dv"} => ~ IsCommitFile(f)
  BY DEF IsCommitFile
<1>2. \A s : ~ IsCommitFile(Core(s))
  BY DEF IsCommitFile, Core
<1>3. FreshFiles(y.files, j)
  BY <1>1 DEF FreshFiles
<1>4. Unpublished(y, j, b)
  BY <1>2 DEF Unpublished
<1> QED
  BY <1>3, <1>4

\* The same segments, as ReaderPool::commit leaves them when it has nothing to write.
LEMMA SameWriter ==
  ASSUME NEW x, NEW a, NEW i, NEW b, NEW p, NEW t, NEW C, NEW R, Writer(x, a, i, b, p, t, C, R),
         IsRecord(i), IsInfos(i), NEW v, DOMAIN v = DOMAIN i.segs, \A s \in DOMAIN v : v[s] = i.segs[s]
  PROVE  LET j == [i EXCEPT !.segs = v]
         IN  Writer(x, a, j, b, p, t, C, R) /\ IsRecord(j) /\ IsInfos(j) /\ j.segs = v
<1> DEFINE j == [i EXCEPT !.segs = v]
<1>1. SetTo(j, v, i.counter, i.gen, i.lastGen)
  BY SetSegs
<1> HIDE DEF j
<1>2. IsRecord(j) /\ j.segs = v /\ j.counter = i.counter /\ j.gen = i.gen /\ j.lastGen = i.lastGen
  BY <1>1 DEF SetTo
<1>3. IsInfos(j)
  BY <1>2 DEF IsInfos, IsSegs
<1>4. FilesOf(v) = FilesOf(i.segs)
  BY FilesOfSame
<1>5. /\ Deleter(x, a, 0, RenamedGen(p, t), FilesOf(i.segs), C, R, {})
      /\ x.last = FilesOf(i.segs) /\ C = (IF Committing(p) THEN FilesOf(t.segs) ELSE {})
      /\ FreshFiles(x.files, i) /\ Unpublished(x, i, b) /\ Phase(x, i, p, t)
  BY DEF Writer
<1>6. FreshFiles(x.files, j) /\ Unpublished(x, j, b)
  BY <1>2, <1>5 DEF FreshFiles, Unpublished
<1>7. Phase(x, j, p, t)
  BY <1>2, <1>5 DEF Phase, GensPhase, NamesPhase
<1>8. Writer(x, a, j, b, p, t, C, R)
  BY <1>2, <1>4, <1>5, <1>6, <1>7 DEF Writer
<1> QED
  BY <1>2, <1>3, <1>8 DEF j

\* A commit begins with a copy of the segments, whose files it holds.
LEMMA CopiedWriter ==
  ASSUME NEW x, NEW a, NEW i, NEW b, NEW t, NEW C, NEW R, Writer(x, a, i, b, "idle", t, C, R), IsInfos(i)
  PROVE  LET y == IncRefFiles(x, FilesOf(i.segs))
         IN  Writer(y, a, i, b, "copied", i, FilesOf(i.segs), R) /\ y.commits = x.commits
<1> DEFINE F == FilesOf(i.segs)
           y == IncRefFiles(x, F)
<1>0. C = {} /\ RenamedGen("idle", t) = 0 /\ RenamedGen("copied", i) = 0
  BY DEF Writer, Committing, RenamedGen
<1>1. /\ Deleter(x, a, 0, 0, F, {}, R, {}) /\ x.last = F
      /\ F \subseteq DOMAIN x.files /\ IsDir(x.files) /\ Good(x.files)
      /\ FreshFiles(x.files, i) /\ Unpublished(x, i, b) /\ Phase(x, i, "idle", t)
  BY <1>0, WriterFacts
<1>2. IsSegs(i.segs) /\ i.gen \in Nat /\ i.counter \in Nat
  BY DEF IsInfos
<1>3. \A f \in F : ~ IsCommitFile(f) /\ f[2] \in DOMAIN i.segs
  BY <1>2, FilesOfData
<1>4. \A s \in b : Core(s) \notin F
  BY <1>1, <1>3 DEF Unpublished, Core
<1>5. /\ Deleter(y, a, 0, 0, F, {}, R, F) /\ Recounted(x, y, a)
      /\ \A f : f \notin F => Count(y, f) = Count(x, f)
  BY <1>1, <1>3, Acquire
<1> HIDE DEF y
<1>6. y.files = x.files /\ y.commits = x.commits /\ y.last = x.last
  BY <1>5 DEF Recounted
<1>7. Deleter(y, a, 0, 0, F, F, R, {})
  BY <1>5, Swap
<1>8. FreshFiles(y.files, i) /\ Unpublished(y, i, b)
  <2>1. Unpublished(y, i, b)
    BY <1>1, <1>4, <1>5, <1>6 DEF Unpublished
  <2> QED
    BY <2>1, <1>1, <1>6
<1>9. GensPhase(y, i, "copied", i)
  <2>1. GensPhase(x, i, "idle", t)
    BY <1>1 DEF Phase
  <2> QED
    BY <2>1, <1>6 DEF GensPhase
<1>10. NamesPhase(y.files, i, "copied", i)
  <2>1. ASSUME NEW n \in GenerationsIn(y.files) PROVE NotBeyond(y.files[Segments(n)].val.segs, i.segs)
    <3> DEFINE v == y.files[Segments(n)].val.segs
    <3> SUFFICES ASSUME NEW s \in DOMAIN v, s \in DOMAIN i.segs
                 PROVE  v[s].del <= i.segs[s].del /\ v[s].dv <= i.segs[s].dv
      BY DEF NotBeyond
    <3>1. Segments(n) \in DOMAIN y.files /\ n \in Nat /\ Readable(y.files, n)
      BY <1>1, <1>6, GenerationsAre DEF Good
    <3>2. IsSegs(v)
      BY <3>1, <1>1, <1>6, NameFacts DEF IsDir, IsState, IsInfos
    <3>3. \A f \in FilesOf(v) : f \in DOMAIN y.files
      BY <3>1 DEF Readable
    <3>4. v[s].del \in Nat /\ v[s].dv \in Nat /\ i.segs[s].del \in Nat /\ i.segs[s].dv \in Nat
      BY <3>2, <1>2 DEF IsSegs, Entries
    <3> HIDE DEF v
    <3>5. \A f \in DOMAIN y.files : f[2] = s =>
              (f[1] = "liv" => f[3] <= i.segs[s].del) /\ (f[1] = "dv" => f[3] <= i.segs[s].dv)
      BY <1>8 DEF FreshFiles
    <3>6. ASSUME v[s].del > 0 PROVE v[s].del <= i.segs[s].del
      <4>1. Live(s, v[s].del) \in DOMAIN y.files
        BY <3>3, <3>6, FilesOfAre
      <4>2. LET f == Live(s, v[s].del) IN f[1] = "liv" /\ f[2] = s /\ f[3] = v[s].del
        BY DEF Live
      <4> QED
        BY <3>5, <4>1, <4>2
    <3>7. ASSUME v[s].dv > 0 PROVE v[s].dv <= i.segs[s].dv
      <4>1. Dv(s, v[s].dv) \in DOMAIN y.files
        BY <3>3, <3>7, FilesOfAre
      <4>2. LET f == Dv(s, v[s].dv) IN f[1] = "dv" /\ f[2] = s /\ f[3] = v[s].dv
        BY DEF Dv
      <4> QED
        BY <3>5, <4>1, <4>2
    <3> QED
      BY <3>4, <3>6, <3>7
  <2> QED
    BY <2>1, <1>2, <1>8 DEF NamesPhase, FreshFiles
<1>11. FilesPhase(y.files, "copied", i)
  BY DEF FilesPhase
<1>12. Committing("copied")
  BY DEF Committing
<1>13. Writer(y, a, i, b, "copied", i, F, R)
  BY <1>0, <1>1, <1>6, <1>7, <1>8, <1>9, <1>10, <1>11, <1>12 DEF Writer, Phase
<1> QED
  BY <1>6, <1>13 DEF y

\* pending_segments_N is written and synced.
LEMMA PreparedWriter ==
  ASSUME NEW x, NEW a, NEW i, NEW b, NEW t, NEW C, NEW R, Writer(x, a, i, b, "copied", t, C, R),
         IsInfos(i), IsInfos(t), IsRecord(t)
  PROVE  LET n == t.gen + 1
             u == [t EXCEPT !.gen = n]
             y == Sync(Create(x, {Pending(n)}, t), {Pending(n)})
         IN  /\ Writer(y, a, i, b, "prepared", u, C, R) /\ y.commits = x.commits
             /\ IsRecord(u) /\ IsInfos(u)
<1> DEFINE n == t.gen + 1
           u == [t EXCEPT !.gen = n]
           F == {Pending(n)}
           z == Create(x, F, t)
           y == Sync(z, F)
<1>1. SetTo(u, t.segs, t.counter, n, t.lastGen)
  BY SetGen
<1> HIDE DEF u
<1>2. IsRecord(u) /\ u.segs = t.segs /\ u.counter = t.counter /\ u.gen = n /\ u.lastGen = t.lastGen
  BY <1>1 DEF SetTo
<1>3. n \in Nat /\ i.counter \in Nat /\ i.gen \in Nat
  BY DEF IsInfos
<1>4. IsInfos(u)
  BY <1>2, <1>3 DEF IsInfos
<1>5. /\ RenamedGen("copied", t) = 0 /\ RenamedGen("prepared", u) = 0
      /\ Committing("copied") /\ Committing("prepared")
  BY DEF RenamedGen, Committing
<1>6. /\ Deleter(x, a, 0, 0, x.last, C, R, {}) /\ x.last = FilesOf(i.segs) /\ C = FilesOf(t.segs) /\ IsDir(x.files)
      /\ FreshFiles(x.files, i) /\ Unpublished(x, i, b) /\ Phase(x, i, "copied", t)
  BY <1>5, WriterFacts
<1>7. GensPhase(x, i, "copied", t) /\ NamesPhase(x.files, i, "copied", t)
  BY <1>6 DEF Phase
<1>8. /\ \A m \in GenerationsIn(x.files) : m <= i.gen
      /\ \A k \in 1..Len(x.commits) : x.commits[k].gen <= i.gen
      /\ \A f \in DOMAIN x.files : f[1] # "pending_segments"
      /\ t.gen = i.gen
  BY <1>7 DEF GensPhase
<1>9. \A f \in F : /\ f \notin DOMAIN x.files /\ IsFile(f) /\ ~ IsSegments(f) /\ IsCommitFile(f)
                   /\ f[1] = "pending_segments" /\ IsInfos(t)
  BY <1>3, <1>8, NameFacts DEF Pending
<1>10. IsFiniteSet(F)
  BY FS_Singleton
<1>11. Pending(n) \in F
  OBVIOUS
<1> HIDE DEF F
<1>12. /\ Deleter(z, a, 0, 0, x.last, C, R, {}) /\ Grown(x, z, F)
       /\ \A f \in F : z.files[f] = [st |-> "dirty", val |-> t]
  BY <1>6, <1>9, <1>10, GrownStore
<1> HIDE DEF z
<1>13. /\ IsStore(z) /\ Safe(z, a) /\ DOMAIN z.files = DOMAIN x.files \cup F
       /\ \A f : Count(z, f) = Count(x, f)
       /\ \A f \in DOMAIN x.files : z.files[f] = x.files[f]
       /\ SameCounts(x, z) /\ GenerationsIn(z.files) = GenerationsIn(x.files)
       /\ \A m \in GenerationsIn(x.files) : Names(z.files, m) = Names(x.files, m)
  BY <1>12 DEF Deleter, Consistent, Grown, Names
<1>a. \A m \in GenerationsIn(x.files) : z.files[Segments(m)] = x.files[Segments(m)]
  BY <1>6, <1>13, GenerationsAre
<1>14. /\ IsStore(y) /\ Safe(y, a) /\ SameCounts(z, y) /\ DOMAIN y.files = DOMAIN z.files
       /\ \A f \in DOMAIN z.files :
            /\ y.files[f].val = z.files[f].val
            /\ y.files[f].st = IF f \in F THEN "synced" ELSE z.files[f].st
  BY <1>13, SyncStore
<1> HIDE DEF y
<1>15. /\ IsDir(z.files) /\ IsDir(y.files) /\ \A f : Count(y, f) = Count(x, f)
       /\ y.commits = x.commits /\ y.last = x.last
  BY <1>13, <1>14 DEF IsStore, SameCounts, Count
<1>16. \A m \in GenerationsIn(y.files) : /\ m \in GenerationsIn(x.files) /\ Names(y.files, m) = Names(x.files, m)
                                         /\ y.files[Segments(m)].val = x.files[Segments(m)].val
  <2> TAKE m \in GenerationsIn(y.files)
  <2>1. Segments(m) \in DOMAIN z.files
    BY <1>14, <1>15, GenerationsAre
  <2>2. m \in GenerationsIn(x.files)
    BY <2>1, <1>13, <1>15, GenerationsAre
  <2>3. y.files[Segments(m)].val = z.files[Segments(m)].val
    BY <2>1, <1>14
  <2> QED
    BY <2>2, <2>3, <1>13, <1>a DEF Names
<1>17. Deleter(y, a, 0, 0, x.last, C, R, {})
  <2>1. \A m \in GenerationsIn(y.files) : m \in GenerationsIn(z.files)
    BY <1>13, <1>16
  <2> QED
    BY <2>1, <1>12, <1>14, Rewritten
<1>18. FreshFiles(y.files, i) /\ Unpublished(y, i, b)
  <2>1. \A f : ~ IsCommitFile(f) => (f \in DOMAIN y.files <=> f \in DOMAIN x.files)
    BY <1>9, <1>13, <1>14
  <2>2. \A m \in GenerationsIn(y.files) : \A s \in Names(y.files, m) : s < i.counter
    BY <1>6, <1>16 DEF FreshFiles
  <2> QED
    BY <2>1, <2>2, <1>6, <1>15, SameDataFresh
<1>19. GensPhase(y, i, "prepared", u)
  <2>1. \A f \in DOMAIN y.files : f[1] = "pending_segments" => f = Pending(u.gen)
    BY <1>2, <1>8, <1>13, <1>14 DEF F
  <2> QED
    BY <2>1, <1>2, <1>8, <1>15, <1>16 DEF GensPhase
<1>20. NamesPhase(y.files, i, "prepared", u)
  BY <1>2, <1>5, <1>7, <1>16 DEF NamesPhase
<1>21. FilesPhase(y.files, "prepared", u)
  <2>1. Pending(u.gen) \in DOMAIN z.files /\ z.files[Pending(u.gen)].val = t /\ Pending(u.gen) \in F
    BY <1>2, <1>11, <1>12, <1>13
  <2> QED
    BY <2>1, <1>2, <1>14 DEF FilesPhase
<1>22. Writer(y, a, i, b, "prepared", u, C, R)
  BY <1>2, <1>5, <1>6, <1>15, <1>17, <1>18, <1>19, <1>20, <1>21 DEF Writer, Phase
<1> QED
  BY <1>2, <1>4, <1>15, <1>22 DEF F, u, y, z

\* The files of the commit are synced.
LEMMA SyncedWriter ==
  ASSUME NEW x, NEW a, NEW i, NEW b, NEW t, NEW C, NEW R, Writer(x, a, i, b, "prepared", t, C, R),
         IsInfos(i), IsRecord(i), IsInfos(t)
  PROVE  LET j == UpdateGeneration(i, t.lastGen, t.gen - 1)
             y == Sync(x, FilesOf(t.segs))
         IN  /\ Writer(y, a, j, b, "synced", t, C, R) /\ y.commits = x.commits
             /\ IsRecord(j) /\ IsInfos(j) /\ j.segs = i.segs
<1> DEFINE j == UpdateGeneration(i, t.lastGen, t.gen - 1)
           F == FilesOf(t.segs)
           y == Sync(x, F)
<1>1. SetTo(j, i.segs, i.counter, t.gen - 1, t.lastGen)
  BY UpdateGenerationIs
<1> HIDE DEF j
<1>2. /\ RenamedGen("prepared", t) = 0 /\ RenamedGen("synced", t) = 0
      /\ Committing("prepared") /\ Committing("synced")
  BY DEF RenamedGen, Committing
<1>3. /\ Deleter(x, a, 0, 0, x.last, C, R, {}) /\ x.last = FilesOf(i.segs) /\ C = F /\ C \subseteq DOMAIN x.files
      /\ IsDir(x.files) /\ IsStore(x) /\ Safe(x, a)
      /\ FreshFiles(x.files, i) /\ Unpublished(x, i, b) /\ Phase(x, i, "prepared", t)
  BY <1>2, WriterFacts
<1>4. /\ GensPhase(x, i, "prepared", t) /\ NamesPhase(x.files, i, "prepared", t)
      /\ FilesPhase(x.files, "prepared", t)
  BY <1>3 DEF Phase
<1>5. i.gen \in Nat /\ t.gen = i.gen + 1 /\ i.counter \in Nat /\ IsSegs(i.segs) /\ t.lastGen \in Nat
  BY <1>4 DEF IsInfos, GensPhase
<1>6. IsRecord(j) /\ j.segs = i.segs /\ j.counter = i.counter /\ j.gen = i.gen /\ j.lastGen = t.lastGen
  BY <1>1, <1>5 DEF SetTo
<1>7. IsInfos(j)
  BY <1>5, <1>6 DEF IsInfos
<1>8. /\ IsStore(y) /\ Safe(y, a) /\ SameCounts(x, y) /\ DOMAIN y.files = DOMAIN x.files
      /\ \A f \in DOMAIN x.files :
            /\ y.files[f].val = x.files[f].val
            /\ y.files[f].st = IF f \in F THEN "synced" ELSE x.files[f].st
  BY <1>3, SyncStore
<1> HIDE DEF y
<1>9. /\ IsDir(y.files) /\ \A f : Count(y, f) = Count(x, f)
      /\ y.commits = x.commits /\ y.last = x.last
  BY <1>8 DEF IsStore, SameCounts, Count
<1>10. \A m \in GenerationsIn(y.files) : /\ m \in GenerationsIn(x.files) /\ Names(y.files, m) = Names(x.files, m)
                                         /\ y.files[Segments(m)].val = x.files[Segments(m)].val
  BY <1>3, <1>8, <1>9, GenerationsAre DEF Names
<1>11. Deleter(y, a, 0, 0, x.last, C, R, {})
  BY <1>3, <1>8, <1>10, Rewritten
<1>12. FreshFiles(y.files, j) /\ Unpublished(y, j, b)
  <2>1. \A m \in GenerationsIn(y.files) : \A s \in Names(y.files, m) : s < i.counter
    BY <1>3, <1>10 DEF FreshFiles
  <2> QED
    BY <2>1, <1>3, <1>6, <1>8, <1>9, SameDataFresh
<1>13. GensPhase(y, j, "synced", t)
  BY <1>4, <1>6, <1>8, <1>9, <1>10 DEF GensPhase
<1>14. NamesPhase(y.files, j, "synced", t)
  BY <1>2, <1>4, <1>6, <1>10 DEF NamesPhase
<1>15. FilesPhase(y.files, "synced", t)
  <2>1. /\ Pending(t.gen) \in DOMAIN x.files /\ x.files[Pending(t.gen)].st = "synced"
        /\ x.files[Pending(t.gen)].val.segs = t.segs /\ x.files[Pending(t.gen)].val.counter = t.counter
    BY <1>4 DEF FilesPhase
  <2>2. \A f \in F : y.files[f].st = "synced"
    BY <1>3, <1>8
  <2> QED
    BY <2>1, <2>2, <1>8 DEF FilesPhase
<1>16. Writer(y, a, j, b, "synced", t, C, R)
  BY <1>2, <1>3, <1>6, <1>9, <1>11, <1>12, <1>13, <1>14, <1>15 DEF Writer, Phase
<1> QED
  BY <1>6, <1>7, <1>9, <1>16 DEF y, j

\* The rename.
LEMMA RenamedWriter ==
  ASSUME NEW x, NEW a, NEW i, NEW b, NEW t, NEW C, NEW R, Writer(x, a, i, b, "synced", t, C, R),
         IsInfos(i), IsInfos(t), a.gen \in Nat
  PROVE  LET y == Rename(x, t.gen)
         IN  Writer(y, a, i, b, "renamed", t, C, R) /\ y.commits = x.commits
<1> DEFINE n == t.gen
           y == Rename(x, n)
<1>2. /\ RenamedGen("synced", t) = 0 /\ RenamedGen("renamed", t) = n
      /\ Committing("synced") /\ Committing("renamed")
  BY DEF RenamedGen, Committing
<1>3. /\ Deleter(x, a, 0, 0, x.last, C, R, {}) /\ x.last = FilesOf(i.segs) /\ C = FilesOf(t.segs)
      /\ C \subseteq DOMAIN x.files /\ IsDir(x.files) /\ IsStore(x) /\ Safe(x, a)
      /\ FreshFiles(x.files, i) /\ Unpublished(x, i, b) /\ Phase(x, i, "synced", t)
  BY <1>2, WriterFacts
<1>4. /\ GensPhase(x, i, "synced", t) /\ NamesPhase(x.files, i, "synced", t)
      /\ FilesPhase(x.files, "synced", t)
  BY <1>3 DEF Phase
<1>5. /\ i.gen \in Nat /\ n = i.gen + 1 /\ n \in Nat /\ n > 0
      /\ i.counter \in Nat /\ t.counter \in Nat /\ IsSegs(t.segs)
  BY <1>4 DEF IsInfos, GensPhase
<1>6. /\ Pending(n) \in DOMAIN x.files /\ x.files[Pending(n)].st = "synced"
      /\ x.files[Pending(n)].val.segs = t.segs /\ x.files[Pending(n)].val.counter = t.counter
      /\ \A f \in C : x.files[f].st = "synced"
  BY <1>3, <1>4 DEF FilesPhase
<1>7. \A m \in GenerationsIn(x.files) : /\ m < n /\ m <= i.gen /\ \A s \in Names(x.files, m) : s < t.counter
                                        /\ NotBeyond(x.files[Segments(m)].val.segs, t.segs)
  <2> TAKE m \in GenerationsIn(x.files)
  <2>1. m <= i.gen /\ m \in Nat
    BY <1>3, <1>4, GenerationsAre DEF GensPhase
  <2> QED
    BY <2>1, <1>2, <1>4, <1>5 DEF NamesPhase
<1>8. (\A s \in DOMAIN t.segs : s < t.counter) /\ t.counter <= i.counter
  BY <1>2, <1>4 DEF NamesPhase
<1> HIDE DEF n
<1>9. IsStore(y) /\ Safe(y, a) /\ RenamedTo(x, y, n)
  BY <1>3, <1>5, <1>6, <1>7, <1>8, RenameStore
<1> HIDE DEF y
<1>10. /\ SameCounts(x, y) /\ y.files[Segments(n)] = x.files[Pending(n)]
       /\ DOMAIN y.files = (DOMAIN x.files \ {Pending(n)}) \cup {Segments(n)}
       /\ \A f \in DOMAIN x.files : f # Pending(n) => y.files[f] = x.files[f]
  BY <1>9 DEF RenamedTo
<1>11. /\ IsDir(y.files) /\ \A f : Count(y, f) = Count(x, f)
       /\ y.commits = x.commits /\ y.last = x.last
  BY <1>9, <1>10 DEF IsStore, SameCounts, Count
<1>12. \A m : Segments(m) # Pending(n) /\ (Segments(m) = Segments(n) => m = n)
  BY DEF Segments, Pending
<1>13. \A m \in GenerationsIn(y.files) :
          m = n \/ (m \in GenerationsIn(x.files) /\ y.files[Segments(m)] = x.files[Segments(m)])
  <2> TAKE m \in GenerationsIn(y.files)
  <2>1. Segments(m) \in DOMAIN y.files
    BY <1>11, GenerationsAre
  <2>2. m = n \/ Segments(m) \in DOMAIN x.files
    BY <2>1, <1>10, <1>12
  <2> QED
    BY <2>2, <1>3, <1>10, <1>12, GenerationsAre
<1>14. y.files[Segments(n)].val.segs = t.segs /\ Segments(n) \in DOMAIN y.files
  BY <1>6, <1>10
<1>15. Deleter(y, a, 0, n, x.last, C, R, {})
  <2>1. \A f \in DOMAIN x.files : f[1] # "pending_segments" =>
            f \in DOMAIN y.files /\ y.files[f].val = x.files[f].val
    <3>1. Pending(n)[1] = "pending_segments"
      BY DEF Pending
    <3> QED
      BY <3>1, <1>10
  <2>2. \A m \in GenerationsIn(y.files) :
           m \in GenerationsIn(x.files) \/ (m = n /\ FilesOf(y.files[Segments(m)].val.segs) \subseteq C)
    BY <1>3, <1>13, <1>14
  <2> QED
    BY <2>1, <2>2, <1>3, <1>9, <1>10, Rewritten
<1>16. \A m \in GenerationsIn(y.files) : \A s \in Names(y.files, m) : s < t.counter /\ s < i.counter
  <2> TAKE m \in GenerationsIn(y.files)
  <2> TAKE s \in Names(y.files, m)
  <2>1. CASE m = n
    <3>1. s \in DOMAIN t.segs
      BY <2>1, <1>14 DEF Names
    <3>2. s \in Nat
      BY <3>1, <1>5 DEF IsSegs
    <3> QED
      BY <3>1, <3>2, <1>5, <1>8
  <2>2. CASE m \in GenerationsIn(x.files) /\ y.files[Segments(m)] = x.files[Segments(m)]
    <3>1. s \in Names(x.files, m)
      BY <2>2 DEF Names
    <3> QED
      BY <3>1, <2>2, <1>3, <1>7 DEF FreshFiles
  <2> QED
    BY <2>1, <2>2, <1>13
<1>17. FreshFiles(y.files, i) /\ Unpublished(y, i, b)
  <2>1. IsCommitFile(Pending(n)) /\ IsCommitFile(Segments(n))
    BY DEF IsCommitFile, Pending, Segments
  <2>2. \A f : ~ IsCommitFile(f) => (f \in DOMAIN y.files <=> f \in DOMAIN x.files)
    BY <2>1, <1>10
  <2> QED
    BY <2>2, <1>3, <1>11, <1>16, SameDataFresh
<1>18. GensPhase(y, i, "renamed", t)
  <2>1. \A m \in GenerationsIn(y.files) : m <= i.gen \/ m = t.gen
    BY <1>7, <1>13 DEF n
  <2>2. \A f \in DOMAIN y.files : f[1] # "pending_segments"
    <3> SUFFICES ASSUME NEW f \in DOMAIN y.files, f[1] = "pending_segments" PROVE FALSE
      OBVIOUS
    <3>1. f # Segments(n)
      BY DEF Segments
    <3>2. f \in DOMAIN x.files /\ f # Pending(n)
      BY <3>1, <1>10, <1>12
    <3> QED
      BY <3>2, <1>4 DEF GensPhase, n
  <2>3. \A k \in 1..Len(x.commits) : x.commits[k].gen <= i.gen
    BY <1>4 DEF GensPhase
  <2> QED
    BY <2>1, <2>2, <2>3, <1>5, <1>11 DEF GensPhase, n
<1>19. NamesPhase(y.files, i, "renamed", t)
  <2>1. ASSUME NEW m \in GenerationsIn(y.files) PROVE NotBeyond(y.files[Segments(m)].val.segs, t.segs)
    <3>1. CASE m = n
      BY <3>1, <1>5, <1>14 DEF NotBeyond, IsSegs, Entries
    <3>2. CASE m \in GenerationsIn(x.files) /\ y.files[Segments(m)] = x.files[Segments(m)]
      BY <3>2, <1>7
    <3> QED
      BY <3>1, <3>2, <1>13
  <2> QED
    BY <2>1, <1>8, <1>16 DEF NamesPhase
<1>20. FilesPhase(y.files, "renamed", t)
  <2>1. \A f \in C : y.files[f].st = "synced"
    <3> TAKE f \in C
    <3>1. f # Pending(n)
      BY <1>3, <1>5, FilesOfData DEF IsCommitFile, Pending
    <3> QED
      BY <3>1, <1>3, <1>6, <1>10
  <2> QED
    BY <2>1, <1>3, <1>14 DEF FilesPhase, n
<1>21. Writer(y, a, i, b, "renamed", t, C, R)
  BY <1>2, <1>3, <1>11, <1>15, <1>17, <1>18, <1>19, <1>20 DEF Writer, Phase
<1> QED
  BY <1>11, <1>21 DEF n, y

\* No commit is under way.
LEMMA IdlePhase ==
  ASSUME NEW x, NEW i, NEW p, NEW t, ~ Committing(p), \A n \in GenerationsIn(x.files) : n <= i.gen,
         \A k \in 1..Len(x.commits) : x.commits[k].gen <= i.gen,
         \A f \in DOMAIN x.files : f[1] # "pending_segments"
  PROVE  Phase(x, i, p, t) /\ RenamedGen(p, t) = 0
<1>1. p \notin {"copied", "prepared", "synced", "renamed"}
  BY DEF Committing
<1>2. GensPhase(x, i, p, t)
  BY <1>1 DEF GensPhase
<1>3. NamesPhase(x.files, i, p, t)
  BY DEF NamesPhase
<1>4. FilesPhase(x.files, p, t)
  BY <1>1 DEF FilesPhase
<1> QED
  BY <1>1, <1>2, <1>3, <1>4 DEF Phase, RenamedGen

\* The commits of a deleter are in the directory.
LEMMA CommitGens ==
  ASSUME NEW x, NEW a, NEW A, NEW B, NEW C, NEW D, Consistent(x, a, 0, A, B, C, D)
  PROVE  \A k \in 1..Len(x.commits) : x.commits[k].gen \in GenerationsIn(x.files)
<1> TAKE k \in 1..Len(x.commits)
<1>1. k \in 0 + 1..Len(x.commits)
  OBVIOUS
<1>2. IsPoint(x.files, x.commits[k])
  BY <1>1 DEF Consistent
<1>3. IsDir(x.files)
  BY CountFacts
<1> QED
  BY <1>2, <1>3, GenerationsAre DEF IsPoint

\* The commit is durable, and it is now the deleter's.
LEMMA CompletedWriter ==
  ASSUME NEW x, NEW a, NEW i, NEW b, NEW t, NEW C, NEW R, Writer(x, a, i, b, "renamed", t, C, R),
         IsInfos(i), IsRecord(i), IsInfos(t), NEW e, NEW i2, i2 = UpdateGeneration(i, t.gen, t.gen),
         NEW y2, y2 = DecRefFiles(CommitCheckpoint(SyncMetaData(x), t.gen, t.segs), C),
         NEW a2, a2 = [gen |-> t.gen, segs |-> t.segs]
  PROVE  /\ Writer(y2, a2, i2, b, "idle", e, {}, R) /\ Protected(y2, FilesOf(t.segs))
         /\ IsRecord(i2) /\ IsInfos(i2) /\ i2.segs = i.segs
<1> DEFINE n == t.gen
           j == UpdateGeneration(i, n, n)
           d == [gen |-> n, segs |-> t.segs]
           x1 == SyncMetaData(x)
           x2 == CommitCheckpoint(x1, n, t.segs)
           y == DecRefFiles(x2, C)
           F == FilesOf(t.segs) \cup {Segments(n)}
<1>1. SetTo(j, i.segs, i.counter, n, n)
  BY UpdateGenerationIs
<1> HIDE DEF j
<1>2. RenamedGen("renamed", t) = n /\ Committing("renamed") /\ ~ Committing("idle")
  BY DEF RenamedGen, Committing
<1>3. /\ Deleter(x, a, 0, n, x.last, C, R, {}) /\ x.last = FilesOf(i.segs) /\ C = FilesOf(t.segs)
      /\ Consistent(x, a, 0, x.last, C, R, {}) /\ IsDir(x.files)
      /\ FreshFiles(x.files, i) /\ Unpublished(x, i, b) /\ Phase(x, i, "renamed", t)
  BY <1>2, WriterFacts
<1>4. GensPhase(x, i, "renamed", t) /\ FilesPhase(x.files, "renamed", t)
  BY <1>3 DEF Phase
<1>5. /\ i.gen \in Nat /\ n = i.gen + 1 /\ n \in Nat
      /\ i.counter \in Nat /\ IsSegs(i.segs) /\ IsSegs(t.segs)
  BY <1>4 DEF IsInfos, GensPhase
<1>6. IsRecord(j) /\ j.segs = i.segs /\ j.counter = i.counter /\ j.gen = n /\ j.lastGen = n
  BY <1>1 DEF SetTo
<1>7. IsInfos(j)
  BY <1>5, <1>6 DEF IsInfos
<1>8. Segments(n) \in DOMAIN x.files /\ x.files[Segments(n)].val.segs = t.segs
  BY <1>4 DEF FilesPhase
<1>9. \A m \in GenerationsIn(x.files) : m <= n
  <2> TAKE m \in GenerationsIn(x.files)
  <2>1. m \in Nat /\ (m <= i.gen \/ m = n)
    BY <1>3, <1>4, GenerationsAre DEF GensPhase
  <2> QED
    BY <2>1, <1>5
<1>10. Durable(x.files, d)
  <2>1. n \in GenerationsIn(x.files)
    BY <1>3, <1>8, GenerationsAre
  <2>2. Newest(x.files, n) /\ n >= d.gen /\ x.files[Segments(n)].val.segs = d.segs
    BY <2>1, <1>5, <1>8, <1>9 DEF Newest
  <2> HIDE DEF d, n
  <2> QED
    BY <2>2 DEF Durable
<1> HIDE DEF d
<1>11. Deleter(x1, d, 0, n, x.last, C, R, {}) /\ x1.files = x.files /\ SameCounts(x, x1)
  BY <1>3, <1>10, SyncMetaDataStore
<1> HIDE DEF x1
<1>12. x1.commits = x.commits /\ x1.last = x.last /\ \A f : Count(x1, f) = Count(x, f)
  BY <1>11 DEF SameCounts, Count
<1>13. \A k \in 1..Len(x.commits) : x.commits[k].gen < n
  <2> TAKE k \in 1..Len(x.commits)
  <2>1. x.commits[k].gen \in GenerationsIn(x.files)
    BY <1>3, CommitGens
  <2>2. x.commits[k].gen \in Nat
    BY <2>1, <1>3, GenerationsAre
  <2>3. x.commits[k].gen <= i.gen
    BY <1>4 DEF GensPhase
  <2> QED
    BY <2>2, <2>3, <1>5
<1> HIDE DEF n
<1>14. /\ Deleter(x2, d, 0, 0, x.last, C, R, {}) /\ x2.last = x1.last
       /\ Lost(x1, x2, F) /\ Protected(x2, FilesOf(t.segs))
  <2>1. n \in Nat /\ IsSegs(t.segs) /\ Deleter(x1, d, 0, n, x.last, C, R, {})
    BY <1>5, <1>11
  <2>2. /\ Segments(n) \in DOMAIN x1.files /\ x1.files[Segments(n)].val.segs = t.segs
        /\ \A k \in 1..Len(x1.commits) : x1.commits[k].gen < n
    BY <1>8, <1>11, <1>12, <1>13
  <2> QED
    BY <2>1, <2>2, CommitCheckpointStore
<1> HIDE DEF x2, F
<1>15. Deleter(x2, d, 0, 0, x.last, {}, R, C)
  BY <1>14, Swap
<1>16. Deleter(y, d, 0, 0, x.last, {}, R, {}) /\ Shrunk(x2, y)
  BY <1>15, LetGo
<1> HIDE DEF y
<1>17. Lost(x, y, F) /\ y.last = x.last /\ y.commits = x2.commits
  <2>1. Lost(x, x2, F)
    BY <1>11, <1>12, <1>14 DEF Lost
  <2> QED
    BY <2>1, <1>12, <1>14, <1>16, LostTwice DEF Shrunk
<1>18. Protected(y, FilesOf(t.segs))
  BY <1>14, <1>17 DEF Protected
<1>19. Consistent(y, d, 0, x.last, {}, R, {}) /\ IsDir(y.files) /\ Part(x.files, y.files)
  <2>1. Consistent(y, d, 0, x.last, {}, R, {})
    BY <1>16 DEF Deleter
  <2>2. IsDir(y.files)
    BY <2>1, CountFacts
  <2> QED
    BY <2>1, <2>2, <1>17 DEF Lost, Part
<1>20. FreshFiles(y.files, j)
  <2>1. FreshFiles(x.files, j)
    BY <1>3, <1>6 DEF FreshFiles
  <2> QED
    BY <2>1, <1>3, <1>19, PartFresh
<1>21. Unpublished(y, j, b)
  <2>1. Unpublished(x, j, b)
    BY <1>3, <1>6 DEF Unpublished
  <2>2. \A s \in b : Core(s) \notin C
    <3>1. \A s \in b : Count(x, Core(s)) = 0
      BY <1>3 DEF Unpublished
    <3> QED
      BY <3>1, <1>3, CountFacts
  <2>3. \A s : Core(s) # Segments(n)
    BY DEF Core, Segments
  <2>4. \A s \in b : Core(s) \notin F
    BY <2>2, <2>3, <1>3 DEF F
  <2> QED
    BY <2>1, <2>4, <1>17, LostUnpublished
<1>22. Phase(y, j, "idle", e) /\ RenamedGen("idle", e) = 0
  <2>1. \A m \in GenerationsIn(y.files) : m <= j.gen
    BY <1>3, <1>6, <1>9, <1>19, PartGens
  <2>2. \A k \in 1..Len(y.commits) : y.commits[k].gen <= j.gen
    BY <2>1, <1>19, CommitGens
  <2>3. \A f \in DOMAIN y.files : f[1] # "pending_segments"
    BY <1>4, <1>19 DEF GensPhase, Part
  <2> QED
    BY <2>1, <2>2, <2>3, <1>2, IdlePhase
<1>23. Writer(y, d, j, b, "idle", e, {}, R)
  BY <1>2, <1>3, <1>6, <1>16, <1>17, <1>20, <1>21, <1>22 DEF Writer
<1>24. y2 = y /\ a2 = d /\ i2 = j
  BY DEF n, y, d, j, x1, x2
<1> QED
  BY <1>6, <1>7, <1>18, <1>23, <1>24

\* The commit fails before the rename: its pending_segments_N is deleted, if there is one, and it
\* holds nothing any more.
LEMMA AbortedWriter ==
  ASSUME NEW x, NEW a, NEW i, NEW b, NEW p \in {"copied", "prepared", "synced"}, NEW t, NEW C, NEW R,
         Writer(x, a, i, b, p, t, C, R), i.gen \in Nat, NEW P \in SUBSET {Pending(t.gen)},
         p # "copied" => Pending(t.gen) \in P, NEW j, j.segs = i.segs, j.counter = i.counter, j.gen = i.gen,
         NEW q, ~ Committing(q), NEW u
  PROVE  LET y == DecRefFiles(DeleteFiles(x, P), C)
         IN  Writer(y, a, j, b, q, u, {}, R) /\ y.commits = x.commits
<1> DEFINE z == DeleteFiles(x, P)
           y == DecRefFiles(z, C)
<1>1. RenamedGen(p, t) = 0
  BY DEF RenamedGen
<1>2. /\ Deleter(x, a, 0, 0, x.last, C, R, {}) /\ x.last = FilesOf(i.segs)
      /\ Consistent(x, a, 0, x.last, C, R, {}) /\ IsDir(x.files)
      /\ FreshFiles(x.files, i) /\ Unpublished(x, i, b) /\ Phase(x, i, p, t)
  BY <1>1, WriterFacts
<1>3. GensPhase(x, i, p, t)
  BY <1>2 DEF Phase
<1>4. \A f \in P : f = Pending(t.gen) /\ Count(x, f) = 0
  BY <1>2, NotCounted
<1>5. /\ \A n : Segments(n) \notin P
      /\ \A s : Core(s) \notin P
  BY <1>4 DEF Segments, Core, Pending
<1>6. Covered(x, 0, 0, C, P)
  BY <1>2 DEF Deleter, Covered
<1>7. Deleter(z, a, 0, 0, x.last, C, R, {}) /\ SameCounts(x, z) /\ Removed(x, z, P)
  BY <1>2, <1>4, <1>5, <1>6, DeleteUnused
<1> HIDE DEF z
<1>8. Lost(x, z, P) /\ z.last = x.last /\ z.commits = x.commits
  BY <1>7, RemovedLost
<1>9. Deleter(z, a, 0, 0, x.last, {}, R, C)
  BY <1>7, Swap
<1>10. Deleter(y, a, 0, 0, x.last, {}, R, {}) /\ Shrunk(z, y)
  BY <1>9, LetGo
<1> HIDE DEF y
<1>11. Lost(x, y, P) /\ y.last = x.last /\ y.commits = x.commits
  BY <1>8, <1>10, LostTwice DEF Shrunk
<1>12. Consistent(y, a, 0, x.last, {}, R, {}) /\ IsDir(y.files) /\ Part(x.files, y.files)
  <2>1. Consistent(y, a, 0, x.last, {}, R, {})
    BY <1>10 DEF Deleter
  <2>2. IsDir(y.files)
    BY <2>1, CountFacts
  <2> QED
    BY <2>1, <2>2, <1>11 DEF Lost, Part
<1>13. FreshFiles(y.files, j)
  <2>1. FreshFiles(x.files, j)
    BY <1>2 DEF FreshFiles
  <2> QED
    BY <2>1, <1>2, <1>12, PartFresh
<1>14. Unpublished(y, j, b)
  <2>1. Unpublished(x, j, b)
    BY <1>2 DEF Unpublished
  <2> QED
    BY <2>1, <1>5, <1>11, LostUnpublished
<1>15. Phase(y, j, q, u) /\ RenamedGen(q, u) = 0
  <2>1. \A m \in GenerationsIn(y.files) : m <= j.gen
    BY <1>2, <1>3, <1>12, PartGens DEF GensPhase
  <2>2. \A k \in 1..Len(y.commits) : y.commits[k].gen <= j.gen
    BY <2>1, <1>12, CommitGens
  <2>3. \A f \in DOMAIN y.files : f[1] # "pending_segments"
    <3> SUFFICES ASSUME NEW f \in DOMAIN y.files, f[1] = "pending_segments" PROVE FALSE
      OBVIOUS
    <3>1. f \in DOMAIN x.files
      BY <1>12 DEF Part
    <3>2. p # "copied" /\ f = Pending(t.gen)
      BY <3>1, <1>3 DEF GensPhase
    <3>3. f \in P
      BY <3>2
    <3>4. f \notin DOMAIN z.files
      BY <3>3, <1>7 DEF Removed
    <3> QED
      BY <3>4, <1>10 DEF Shrunk, Lost
  <2> QED
    BY <2>1, <2>2, <2>3, IdlePhase
<1>16. Writer(y, a, j, b, q, u, {}, R)
  BY <1>2, <1>10, <1>11, <1>13, <1>14, <1>15 DEF Writer
<1> QED
  BY <1>11, <1>16 DEF y, z

\* write_live_docs advances the generation of the segments in S.
LEMMA AdvancedSegs ==
  ASSUME NEW w, IsSegs(w), NEW S
  PROVE  LET v == AdvanceDelGen(w, S)
         IN  /\ DOMAIN v = DOMAIN w /\ \A s \in DOMAIN w : s \notin S => v[s] = w[s]
             /\ \A s \in DOMAIN w : s \in S =>
                  /\ v[s] \in Entries /\ v[s].dv = w[s].dv /\ v[s].nextDv = w[s].nextDv
                  /\ v[s].del = w[s].nextDel /\ v[s].nextDel = w[s].nextDel + 1
<1> DEFINE v == AdvanceDelGen(w, S)
<1>1. DOMAIN v = DOMAIN w /\ \A s \in DOMAIN w : s \notin S => v[s] = w[s]
  BY DEF AdvanceDelGen
<1>2. ASSUME NEW s \in DOMAIN w, s \in S
      PROVE  /\ v[s] \in Entries /\ v[s].dv = w[s].dv /\ v[s].nextDv = w[s].nextDv
             /\ v[s].del = w[s].nextDel /\ v[s].nextDel = w[s].nextDel + 1
  <2> DEFINE e == w[s]
             z == [e EXCEPT !.del = e.nextDel]
  <2>1. e \in Entries
    BY DEF IsSegs
  <2>2. /\ e.del \in Nat /\ e.nextDel \in Nat /\ e.dv \in Nat /\ e.nextDv \in Nat
        /\ e = [del |-> e.del, nextDel |-> e.nextDel, dv |-> e.dv, nextDv |-> e.nextDv]
    BY <2>1 DEF Entries
  <2>3. v[s] = [z EXCEPT !.nextDel = z.nextDel + 1]
    BY <1>2 DEF AdvanceDelGen
  <2> HIDE DEF e, v
  <2>4. z = [del |-> e.nextDel, nextDel |-> e.nextDel, dv |-> e.dv, nextDv |-> e.nextDv]
    BY <2>2
  <2> HIDE DEF z
  <2>5. v[s] = [del |-> e.nextDel, nextDel |-> e.nextDel + 1, dv |-> e.dv, nextDv |-> e.nextDv]
    BY <2>3, <2>4
  <2>6. /\ v[s] \in Entries /\ v[s].dv = e.dv /\ v[s].nextDv = e.nextDv
        /\ v[s].del = e.nextDel /\ v[s].nextDel = e.nextDel + 1
    BY <2>2, <2>5 DEF Entries
  <2> QED
    BY <2>6 DEF e
<1> QED
  BY <1>1, <1>2

\* The live docs of the segments with deletes are written.
LEMMA LiveDocsWriter ==
  ASSUME NEW x, NEW a, NEW i, NEW b, NEW p, NEW t, NEW C, NEW R, Writer(x, a, i, b, p, t, C, R),
         IsRecord(i), IsInfos(i), b \subseteq Nat, t.counter \in Nat, NEW S \in SUBSET DOMAIN i.segs
  PROVE  LET v == AdvanceDelGen(i.segs, S)
             j == [i EXCEPT !.segs = v]
             y == Checkpoint(WriteLiveDocs(x, i.segs, S), v)
         IN  /\ Writer(y, a, j, b, p, t, C, R) /\ y.commits = x.commits
             /\ IsRecord(j) /\ IsInfos(j) /\ j.segs = v
<1> DEFINE w == i.segs
           v == AdvanceDelGen(w, S)
           F == {Live(s, w[s].nextDel) : s \in S}
<1>1. IsSegs(w) /\ i.counter \in Nat /\ \A s \in DOMAIN w : s \in Nat /\ w[s] \in Entries
  BY DEF IsInfos, IsSegs
<1>2. /\ DOMAIN v = DOMAIN w /\ \A s \in DOMAIN w : s \notin S => v[s] = w[s]
      /\ \A s \in DOMAIN w : s \in S =>
            /\ v[s] \in Entries /\ v[s].dv = w[s].dv /\ v[s].nextDv = w[s].nextDv
            /\ v[s].del = w[s].nextDel /\ v[s].nextDel = w[s].nextDel + 1
  BY <1>1, AdvancedSegs
<1>3. WriteLiveDocs(x, w, S) = Create(x, F, NoSegments)
  BY DEF WriteLiveDocs
<1>4. IsFiniteSet(F)
  <2>1. S \subseteq 0..i.counter
    <3> SUFFICES ASSUME NEW s \in S PROVE s \in 0..i.counter
      OBVIOUS
    <3>1. FreshFiles(x.files, i)
      BY WriterFacts
    <3>2. s < i.counter /\ s \in Nat
      BY <3>1, <1>1 DEF FreshFiles
    <3> QED
      BY <3>2, <1>1
  <2>2. IsFiniteSet(S)
    <3>1. IsFiniteSet(0..i.counter)
      BY <1>1, FS_Interval
    <3> QED
      BY <3>1, <2>1, FS_Subset
  <2> DEFINE h == [s \in S |-> Live(s, w[s].nextDel)]
  <2>3. h \in Surjection(S, F)
    BY DEF Surjection
  <2> HIDE DEF h, F
  <2> QED
    BY <2>2, <2>3, FS_Surjection
<1> HIDE DEF v
<1>a. \A s \in DOMAIN w : w[s].del < w[s].nextDel /\ w[s].dv < w[s].nextDv
  BY DEF Writer, FreshFiles
<1>5. \A s \in DOMAIN v : /\ v[s] \in Entries /\ w[s].del <= v[s].del /\ w[s].dv <= v[s].dv
                          /\ v[s].del < v[s].nextDel /\ v[s].dv < v[s].nextDv
  <2> TAKE s \in DOMAIN v
  <2>1. /\ w[s].nextDel \in Nat /\ w[s].nextDv \in Nat /\ w[s].del \in Nat /\ w[s].dv \in Nat
        /\ w[s] \in Entries /\ w[s].del < w[s].nextDel /\ w[s].dv < w[s].nextDv
    BY <1>1, <1>2, <1>a DEF Entries
  <2>2. CASE s \in S
    BY <2>1, <2>2, <1>2
  <2>3. CASE s \notin S
    <3>1. v[s] = w[s]
      BY <2>3, <1>2
    <3> QED
      BY <2>1, <3>1
  <2> QED
    BY <2>2, <2>3
<1>6. FilesOf(v) \subseteq FilesOf(w) \cup F
  <2> SUFFICES ASSUME NEW f \in FilesOf(v) PROVE f \in FilesOf(w) \cup F
    OBVIOUS
  <2>1. PICK s \in DOMAIN v : \/ f = Core(s)
                              \/ v[s].del > 0 /\ f = Live(s, v[s].del)
                              \/ v[s].dv > 0 /\ f = Dv(s, v[s].dv)
    BY FilesOfAre
  <2>2. ASSUME \/ f = Core(s)
               \/ w[s].del > 0 /\ f = Live(s, w[s].del)
               \/ w[s].dv > 0 /\ f = Dv(s, w[s].dv)
        PROVE  f \in FilesOf(w)
    BY <2>2, <1>2, FilesOfAre
  <2>3. CASE s \in S
    <3>1. v[s].del = w[s].nextDel /\ v[s].dv = w[s].dv
      BY <2>3, <1>2
    <3>2. CASE f = Live(s, w[s].nextDel)
      BY <3>2, <2>3
    <3> QED
      BY <2>1, <2>2, <3>1, <3>2
  <2>4. CASE s \notin S
    <3>1. v[s] = w[s]
      BY <2>4, <1>2
    <3> QED
      BY <2>1, <2>2, <3>1
  <2> QED
    BY <2>3, <2>4
<1>7. \A f \in F : \E s \in DOMAIN v :
          \/ f = Live(s, w[s].nextDel) /\ w[s].nextDel = v[s].del
          \/ f = Dv(s, w[s].nextDv) /\ w[s].nextDv = v[s].dv
  <2> TAKE f \in F
  <2>1. PICK s \in S : f = Live(s, w[s].nextDel)
    OBVIOUS
  <2>2. s \in DOMAIN v /\ v[s].del = w[s].nextDel
    BY <1>2
  <2> QED
    BY <2>1, <2>2
<1> HIDE DEF F
<1> DEFINE j == [i EXCEPT !.segs = v]
           y == Checkpoint(Create(x, F, NoSegments), v)
<1>8. /\ Writer(y, a, j, b, p, t, C, R) /\ y.commits = x.commits
      /\ IsRecord(j) /\ IsInfos(j) /\ j.segs = v
  BY <1>2, <1>4, <1>5, <1>6, <1>7, AdvancedWriter
<1> QED
  BY <1>3, <1>8 DEF v

LEMMA SnapshotInv ==
  ASSUME Inv, Snapshot
  PROVE  Inv'
<1> DEFINE v == AdvanceDelGen(infos.segs, deletes)
           written == Checkpoint(WriteLiveDocs(store, infos.segs, deletes), v)
           x == IF deletes = {} THEN store ELSE written
<1>1. /\ NotClosed /\ pc = "idle" /\ infos' = [infos EXCEPT !.segs = v] /\ toCommit' = infos'
      /\ filesToCommit' = FilesOf(v) /\ store' = IncRefFiles(x, FilesOf(v))
      /\ deletes' = {} /\ pc' = "copied"
      /\ UNCHANGED <<life, tragedy, rollbackSegs, building, reader, acked>>
  BY DEF Snapshot
<1>2. \E n \in {0, 2} : change' = [now |-> n, pend |-> n]
  BY DEF Snapshot
<1>3. /\ Writer(store, acked, infos, building, "idle", toCommit, filesToCommit, reader)
      /\ IsRecord(infos) /\ IsInfos(infos) /\ building \subseteq Nat /\ deletes \subseteq DOMAIN infos.segs
      /\ IsInfos(toCommit) /\ acked.gen \in Nat /\ Protected(store, FilesOf(rollbackSegs))
  BY <1>1, InvFacts
<1>4. toCommit.counter \in Nat /\ IsSegs(infos.segs)
  BY <1>3 DEF IsInfos
<1>5. /\ Writer(x, acked, infos', building, "idle", toCommit, filesToCommit, reader)
      /\ IsRecord(infos') /\ IsInfos(infos') /\ infos'.segs = v /\ x.commits = store.commits
  <2>1. CASE deletes = {}
    <3>1. DOMAIN v = DOMAIN infos.segs /\ \A s \in DOMAIN v : v[s] = infos.segs[s]
      BY <2>1, <1>4, AdvancedSegs
    <3>2. x = store
      BY <2>1
    <3> HIDE DEF v, x
    <3> QED
      BY <3>1, <3>2, <1>1, <1>3, SameWriter
  <2>2. CASE deletes # {}
    <3>1. x = written
      BY <2>2
    <3> HIDE DEF x
    <3> QED
      BY <3>1, <1>1, <1>3, <1>4, LiveDocsWriter
  <2> QED
    BY <2>1, <2>2
<1> HIDE DEF v, x
<1>6. /\ Writer(store', acked, infos', building, "copied", infos', filesToCommit', reader)
      /\ store'.commits = x.commits
  BY <1>1, <1>5, CopiedWriter
<1>7. Writer(store, acked, infos, building, pc, toCommit, filesToCommit, reader)'
  BY <1>1, <1>6
<1>8. Protected(store, FilesOf(rollbackSegs))'
  BY <1>1, <1>3, <1>5, <1>6 DEF Protected
<1>9. Typed(life, tragedy, pc, infos, toCommit, rollbackSegs, change, building, deletes)'
  BY <1>1, <1>2, <1>5 DEF Inv, Typed
<1>10. NotClosed' /\ change'.now >= change'.pend
  BY <1>1, <1>2 DEF NotClosed
<1> QED
  BY <1>1, <1>3, <1>7, <1>8, <1>9, <1>10, OpenStep

\* The steps of a commit: the segments stay.
LEMMA CommitInv ==
  ASSUME Inv, NotClosed, Writer(store', acked, infos', building, pc', toCommit', filesToCommit', reader),
         store'.commits = store.commits, IsRecord(infos'), IsInfos(infos'), infos'.segs = infos.segs,
         IsRecord(toCommit'), IsInfos(toCommit'), tragedy' \in BOOLEAN, life' \in {"open", "closing"},
         pc' \in {"prepared", "synced", "renamed", "idle", "locked out"},
         UNCHANGED <<rollbackSegs, change, building, deletes, reader, acked>>,
         Committing(pc') => Committing(pc)
  PROVE  Inv'
<1>1. /\ acked.gen \in Nat /\ Protected(store, FilesOf(rollbackSegs))
      /\ Committing(pc) => change.now >= change.pend
      /\ Typed(life, tragedy, pc, infos, toCommit, rollbackSegs, change, building, deletes)
  BY DEF Inv
<1>2. Writer(store, acked, infos, building, pc, toCommit, filesToCommit, reader)'
  OBVIOUS
<1>3. Protected(store, FilesOf(rollbackSegs))'
  BY <1>1 DEF Protected
<1>4. Typed(life, tragedy, pc, infos, toCommit, rollbackSegs, change, building, deletes)'
  BY <1>1 DEF Typed
<1>5. NotClosed' /\ (Committing(pc) => change.now >= change.pend)'
  BY <1>1 DEF NotClosed
<1> QED
  BY <1>1, <1>2, <1>3, <1>4, <1>5, OpenStep

\* A commit is under way only in a writer that is not closed.
LEMMA InCommit ==
  ASSUME Inv, pc # "idle"
  PROVE  /\ NotClosed /\ life \in {"open", "closing"} /\ tragedy \in BOOLEAN
         /\ Writer(store, acked, infos, building, pc, toCommit, filesToCommit, reader)
         /\ IsRecord(infos) /\ IsInfos(infos) /\ IsRecord(toCommit) /\ IsInfos(toCommit)
         /\ acked.gen \in Nat /\ change \in [now : Nat, pend : Nat] /\ building \subseteq Nat
         /\ infos.gen \in Nat
         /\ Committing(pc) => change.now >= change.pend
<1>1. NotClosed
  BY DEF Inv
<1>2. life \in {"open", "closing"}
  BY <1>1 DEF NotClosed
<1>3. infos.gen \in Nat
  BY <1>1, InvFacts DEF IsInfos
<1> QED
  BY <1>1, <1>2, <1>3 DEF Inv, Typed

LEMMA EmptyFacts ==
  /\ IsInfos(EmptyInfos) /\ IsRecord(EmptyInfos) /\ IsSegs(NoSegments) /\ DOMAIN NoSegments = {}
  /\ EmptyInfos.segs = NoSegments /\ EmptyInfos.counter = 0 /\ EmptyInfos.gen = 0
  /\ NoChange \in [now : Nat, pend : Nat]
<1>1. IsSegs(NoSegments) /\ DOMAIN NoSegments = {}
  BY DEF IsSegs, NoSegments
<1>2. /\ EmptyInfos.segs = NoSegments /\ EmptyInfos.counter = 0 /\ EmptyInfos.gen = 0
      /\ EmptyInfos.lastGen = 0 /\ IsRecord(EmptyInfos)
  BY DEF EmptyInfos, IsRecord
<1>3. NoChange \in [now : Nat, pend : Nat]
  BY DEF NoChange
<1> QED
  BY <1>1, <1>2, <1>3 DEF IsInfos

LEMMA PrepareInv ==
  ASSUME Inv, Prepare
  PROVE  Inv'
<1> DEFINE n == toCommit.gen + 1
<1>1. pc = "copied" /\ pc # "idle" /\ Committing(pc)
  BY DEF Prepare, Committing
<1>2. /\ NotClosed /\ life \in {"open", "closing"} /\ tragedy \in BOOLEAN
      /\ Writer(store, acked, infos, building, "copied", toCommit, filesToCommit, reader)
      /\ IsRecord(infos) /\ IsInfos(infos) /\ IsRecord(toCommit) /\ IsInfos(toCommit)
      /\ change \in [now : Nat, pend : Nat] /\ change.now >= change.pend
  BY <1>1, InCommit
<1>3. ~ NoChangesPending
  BY <1>2 DEF NoChangesPending
<1>4. /\ toCommit' = [toCommit EXCEPT !.gen = n]
      /\ store' = Sync(Create(store, {Pending(n)}, toCommit), {Pending(n)})
      /\ pc' = "prepared" /\ filesToCommit' = filesToCommit
  BY <1>3 DEF Prepare
<1>5. UNCHANGED <<life, tragedy, infos, rollbackSegs, change, building, deletes, reader, acked>>
  BY DEF Prepare
<1>6. /\ Writer(store', acked, infos, building, "prepared", toCommit', filesToCommit, reader)
      /\ store'.commits = store.commits /\ IsRecord(toCommit') /\ IsInfos(toCommit')
  <2> DEFINE u == [toCommit EXCEPT !.gen = n]
             y == Sync(Create(store, {Pending(n)}, toCommit), {Pending(n)})
  <2>1. /\ Writer(y, acked, infos, building, "prepared", u, filesToCommit, reader)
        /\ y.commits = store.commits /\ IsRecord(u) /\ IsInfos(u)
    BY <1>2, PreparedWriter
  <2>2. store' = y /\ toCommit' = u
    BY <1>4
  <2> HIDE DEF y, u
  <2> QED
    BY <2>1, <2>2
<1> QED
  BY <1>1, <1>2, <1>4, <1>5, <1>6, CommitInv

LEMMA SyncFilesInv ==
  ASSUME Inv, SyncFiles
  PROVE  Inv'
<1>1. pc = "prepared" /\ pc # "idle" /\ Committing(pc)
  BY DEF SyncFiles, Committing
<1>2. /\ NotClosed /\ life \in {"open", "closing"} /\ tragedy \in BOOLEAN
      /\ Writer(store, acked, infos, building, "prepared", toCommit, filesToCommit, reader)
      /\ IsRecord(infos) /\ IsInfos(infos) /\ IsRecord(toCommit) /\ IsInfos(toCommit)
  BY <1>1, InCommit
<1>3. /\ store' = Sync(store, FilesOf(toCommit.segs)) /\ pc' = "synced"
      /\ infos' = UpdateGeneration(infos, toCommit.lastGen, toCommit.gen - 1)
      /\ UNCHANGED <<life, tragedy, rollbackSegs, change, building, deletes, reader, acked,
                     toCommit, filesToCommit>>
  BY DEF SyncFiles
<1>4. /\ Writer(store', acked, infos', building, "synced", toCommit, filesToCommit, reader)
      /\ store'.commits = store.commits /\ IsRecord(infos') /\ IsInfos(infos') /\ infos'.segs = infos.segs
  BY <1>2, <1>3, SyncedWriter
<1> QED
  BY <1>1, <1>2, <1>3, <1>4, CommitInv

LEMMA RenamePendingInv ==
  ASSUME Inv, RenamePending
  PROVE  Inv'
<1>1. pc = "synced" /\ pc # "idle" /\ Committing(pc)
  BY DEF RenamePending, Committing
<1>2. /\ NotClosed /\ life \in {"open", "closing"} /\ tragedy \in BOOLEAN
      /\ Writer(store, acked, infos, building, "synced", toCommit, filesToCommit, reader)
      /\ IsRecord(infos) /\ IsInfos(infos) /\ IsRecord(toCommit) /\ IsInfos(toCommit) /\ acked.gen \in Nat
  BY <1>1, InCommit
<1>3. /\ store' = Rename(store, toCommit.gen) /\ pc' = "renamed"
      /\ UNCHANGED <<life, tragedy, infos, rollbackSegs, change, building, deletes, reader, acked,
                     toCommit, filesToCommit>>
  BY DEF RenamePending
<1>4. /\ Writer(store', acked, infos, building, "renamed", toCommit, filesToCommit, reader)
      /\ store'.commits = store.commits
  BY <1>2, <1>3, RenamedWriter
<1> QED
  BY <1>1, <1>2, <1>3, <1>4, CommitInv

LEMMA StartCommitFailsInv ==
  ASSUME Inv, pc \in {"copied", "prepared"}, NEW P \in SUBSET {Pending(toCommit.gen)},
         pc # "copied" => Pending(toCommit.gen) \in P, NEW l \in Nat,
         StartCommitFails(P, l, infos.gen)
  PROVE  Inv'
<1>1. pc # "idle" /\ Committing(pc) /\ ~ Committing("idle") /\ ~ Committing("locked out")
  BY DEF Committing
<1>2. /\ NotClosed /\ life \in {"open", "closing"} /\ tragedy \in BOOLEAN
      /\ Writer(store, acked, infos, building, pc, toCommit, filesToCommit, reader)
      /\ IsRecord(infos) /\ IsInfos(infos) /\ infos.gen \in Nat
  BY <1>1, InCommit
<1>3. /\ store' = DecRefFiles(DeleteFiles(store, P), filesToCommit) /\ filesToCommit' = {}
      /\ infos' = UpdateGeneration(infos, l, infos.gen) /\ tragedy' = TRUE /\ life' = "closing"
      /\ pc' \in {"idle", "locked out"} /\ toCommit' = EmptyInfos
      /\ UNCHANGED <<rollbackSegs, change, building, deletes, reader, acked>>
  BY DEF StartCommitFails
<1>4. SetTo(infos', infos.segs, infos.counter, infos.gen, l)
  BY <1>2, <1>3, UpdateGenerationIs
<1>5. /\ IsRecord(infos') /\ infos'.segs = infos.segs /\ infos'.counter = infos.counter
      /\ infos'.gen = infos.gen /\ infos'.lastGen = l
  BY <1>4 DEF SetTo
<1>6. IsInfos(infos')
  BY <1>2, <1>5 DEF IsInfos
<1>7. /\ Writer(store', acked, infos', building, pc', toCommit', {}, reader)
      /\ store'.commits = store.commits
  <2>1. ~ Committing(pc') /\ pc \in {"copied", "prepared", "synced"}
    BY <1>1, <1>3
  <2> DEFINE y == DecRefFiles(DeleteFiles(store, P), filesToCommit)
             j == infos'
             q == pc'
             u == toCommit'
  <2>2. j.segs = infos.segs /\ j.counter = infos.counter /\ j.gen = infos.gen /\ ~ Committing(q)
    BY <2>1, <1>5
  <2> HIDE DEF j, q, u
  <2>3. Writer(y, acked, j, building, q, u, {}, reader) /\ y.commits = store.commits
    BY <2>1, <2>2, <1>2, AbortedWriter
  <2> HIDE DEF y
  <2>4. store' = y
    BY <1>3 DEF y
  <2> QED
    BY <2>3, <2>4 DEF j, q, u
<1> QED
  BY <1>1, <1>2, <1>3, <1>5, <1>6, <1>7, EmptyFacts, CommitInv

\* Where the commit is among generations.
LEMMA CommitGeneration ==
  ASSUME Inv, pc # "idle"
  PROVE  /\ pc = "copied" => toCommit.gen = infos.gen
         /\ pc \in {"prepared", "synced", "renamed"} => toCommit.gen - 1 = infos.gen
         /\ toCommit.lastGen \in Nat
<1>1. Phase(store, infos, pc, toCommit)
  BY InCommit, WriterFacts
<1>2. infos.gen \in Nat /\ toCommit.gen \in Nat /\ toCommit.lastGen \in Nat
  BY InCommit DEF IsInfos
<1> QED
  BY <1>1, <1>2 DEF Phase, GensPhase

LEMMA PrepareFailsInv ==
  ASSUME Inv, PrepareFails
  PROVE  Inv'
<1>1. pc = "copied" /\ StartCommitFails({}, toCommit.lastGen, toCommit.gen)
  BY DEF PrepareFails
<1>2. toCommit.gen = infos.gen /\ toCommit.lastGen \in Nat
  BY <1>1, CommitGeneration
<1> QED
  BY <1>1, <1>2, StartCommitFailsInv

LEMMA SyncFailsInv ==
  ASSUME Inv, SyncFails
  PROVE  Inv'
<1>1. /\ pc = "prepared"
      /\ StartCommitFails({Pending(toCommit.gen)}, toCommit.lastGen, toCommit.gen - 1)
  BY DEF SyncFails
<1>2. toCommit.gen - 1 = infos.gen /\ toCommit.lastGen \in Nat
  BY <1>1, CommitGeneration
<1>3. StartCommitFails({Pending(toCommit.gen)}, toCommit.lastGen, infos.gen)
  BY <1>1, <1>2
<1> QED
  BY <1>1, <1>2, <1>3, StartCommitFailsInv

LEMMA FinishCommitFailsInv ==
  ASSUME Inv, FinishCommitFails, "meta" \notin Failing
  PROVE  Inv'
<1> DEFINE P == {Pending(toCommit.gen)}
<1>1. pc = "synced" /\ pc # "idle" /\ Committing(pc) /\ ~ Committing("idle")
  BY DEF FinishCommitFails, Committing
<1>2. /\ NotClosed /\ life \in {"open", "closing"} /\ tragedy \in BOOLEAN
      /\ Writer(store, acked, infos, building, "synced", toCommit, filesToCommit, reader)
      /\ IsRecord(infos) /\ IsInfos(infos) /\ infos.gen \in Nat
  BY <1>1, InCommit
<1>3. /\ store' = DecRefFiles(DeleteFiles(store, P), filesToCommit) /\ filesToCommit' = {}
      /\ pc' = "idle" /\ toCommit' = EmptyInfos
      /\ UNCHANGED <<life, tragedy, infos, rollbackSegs, change, building, deletes, reader, acked>>
  BY DEF FinishCommitFails
<1>4. /\ Writer(store', acked, infos, building, pc', toCommit', {}, reader)
      /\ store'.commits = store.commits
  BY <1>1, <1>2, <1>3, AbortedWriter
<1> QED
  BY <1>1, <1>2, <1>3, <1>4, EmptyFacts, CommitInv

LEMMA CompleteInv ==
  ASSUME Inv, Complete
  PROVE  Inv'
<1>1. pc = "renamed" /\ pc # "idle" /\ Committing(pc) /\ ~ Committing("idle")
  BY DEF Complete, Committing
<1>2. /\ NotClosed /\ life \in {"open", "closing"} /\ tragedy \in BOOLEAN
      /\ Writer(store, acked, infos, building, "renamed", toCommit, filesToCommit, reader)
      /\ IsRecord(infos) /\ IsInfos(infos) /\ IsInfos(toCommit) /\ building \subseteq Nat
      /\ change \in [now : Nat, pend : Nat] /\ change.now >= change.pend
  BY <1>1, InCommit
<1>3. /\ store' = DecRefFiles(CommitCheckpoint(SyncMetaData(store), toCommit.gen, toCommit.segs),
                              filesToCommit)
      /\ infos' = UpdateGeneration(infos, toCommit.gen, toCommit.gen)
      /\ change' = [now |-> change.now - change.pend, pend |-> 0]
      /\ rollbackSegs' = toCommit.segs /\ toCommit' = EmptyInfos /\ filesToCommit' = {}
      /\ acked' = [gen |-> toCommit.gen, segs |-> toCommit.segs] /\ pc' = "idle"
      /\ UNCHANGED <<life, tragedy, building, deletes, reader>>
  BY DEF Complete
<1>4. /\ Writer(store', acked', infos', building, "idle", toCommit', {}, reader)
      /\ Protected(store', FilesOf(toCommit.segs))
      /\ IsRecord(infos') /\ IsInfos(infos') /\ infos'.segs = infos.segs
  BY <1>2, <1>3, CompletedWriter
<1>5. change' \in [now : Nat, pend : Nat]
  BY <1>2, <1>3
<1>6. IsSegs(toCommit.segs) /\ acked'.gen \in Nat
  BY <1>2, <1>3 DEF IsInfos
<1>7. Typed(life, tragedy, pc, infos, toCommit, rollbackSegs, change, building, deletes)'
  <2>1. deletes \subseteq DOMAIN infos.segs
    BY DEF Inv, Typed
  <2> QED
    BY <2>1, <1>2, <1>3, <1>4, <1>5, <1>6, EmptyFacts DEF Typed
<1>8. NotClosed'
  BY <1>2, <1>3 DEF NotClosed
<1>9. Writer(store, acked, infos, building, pc, toCommit, filesToCommit, reader)'
  BY <1>3, <1>4
<1>10. Protected(store, FilesOf(rollbackSegs))'
  BY <1>3, <1>4
<1>11. (Committing(pc) => change.now >= change.pend)'
  BY <1>1, <1>3
<1> QED
  BY <1>6, <1>7, <1>8, <1>9, <1>10, <1>11, OpenStep

-----------------------------------------------------------------------------
(* rollback and crashes *)

LEMMA BeginRollbackInv ==
  ASSUME Inv, BeginRollback
  PROVE  Inv'
<1>1. /\ NotClosed /\ life' = "closing"
      /\ UNCHANGED <<store, tragedy, infos, rollbackSegs, change, building, deletes, reader, commitVars, acked>>
  BY DEF BeginRollback, NotClosed
<1>2. NotClosed' /\ UNCHANGED <<pc, toCommit, filesToCommit>>
  BY <1>1 DEF NotClosed, commitVars
<1>3. Typed(life, tragedy, pc, infos, toCommit, rollbackSegs, change, building, deletes)'
  BY <1>1, <1>2 DEF Inv, Typed
<1> QED
  BY <1>1, <1>2, <1>3 DEF Inv

\* A store that no deleter looks after any more.
LEMMA AbandonedStore ==
  ASSUME NEW x, NEW a, IsStore(x), Safe(x, a)
  PROVE  LET y == Abandoned(x.files, x.journal)
         IN  IsStore(y) /\ Safe(y, a) /\ DOMAIN y.rc = {}
<1> DEFINE y == Abandoned(x.files, x.journal)
<1>1. y = [files |-> x.files, journal |-> x.journal, rc |-> [f \in {} |-> 0], commits |-> <<>>, last |-> {}]
  BY DEF Abandoned
<1> HIDE DEF y
<1>2. IsSequence(<<>>)
  BY DEF IsSequence
<1>3. /\ y.files = x.files /\ y.journal = x.journal /\ y.commits = <<>> /\ DOMAIN y.rc = {}
      /\ y = [files |-> y.files, journal |-> y.journal, rc |-> y.rc, commits |-> y.commits, last |-> y.last]
  BY <1>1
<1>4. IsStore(y)
  BY <1>2, <1>3 DEF IsStore
<1>5. Safe(y, a)
  BY <1>3, <1>4, SameDisk
<1> QED
  BY <1>3, <1>4, <1>5 DEF y

\* The writer is gone.
LEMMA ClosedStep ==
  ASSUME Inv, IsStore(store'), Safe(store', acked), DOMAIN store'.rc = {},
         life' \in {"closed", "crashed"}, tragedy' \in BOOLEAN, infos' = EmptyInfos,
         rollbackSegs' = NoSegments, change' = NoChange, building' = {}, deletes' = {},
         pc' = "idle", IsRecord(toCommit'), IsInfos(toCommit'), filesToCommit' = {}, acked' = acked
  PROVE  Inv'
<1>1. Typed(life, tragedy, pc, infos, toCommit, rollbackSegs, change, building, deletes)'
  BY EmptyFacts DEF Typed
<1>2. ~ NotClosed'
  BY DEF NotClosed
<1>3. ~ Committing(pc')
  BY DEF Committing
<1> QED
  BY <1>1, <1>2, <1>3 DEF Inv

\* rollback_internal: back to the last commit, and the deleter is closed.
LEMMA RolledBackStore ==
  ASSUME NEW x, NEW a, NEW i, NEW b, NEW t, NEW C, NEW R, Writer(x, a, i, b, "idle", t, C, R),
         NEW v, IsSegs(v), Protected(x, FilesOf(v))
  PROVE  LET y == Close(Refresh(Checkpoint(x, v)))
         IN  IsStore(y) /\ Safe(y, a) /\ Deleter(y, a, 0, 0, {}, {}, R, {})
<1> DEFINE x1 == Checkpoint(x, v)
           F == DOMAIN x1.files \ DOMAIN x1.rc
           x2 == DeleteFiles(x1, F)
           x3 == DecRefFiles(x2, x2.last)
           y == [x3 EXCEPT !.last = {}]
           A == FilesOf(v)
<1>0. C = {} /\ RenamedGen("idle", t) = 0
  BY DEF Writer, Committing, RenamedGen
<1>1. Deleter(x, a, 0, 0, x.last, {}, R, {}) /\ Consistent(x, a, 0, x.last, {}, R, {})
  BY <1>0, WriterFacts
<1>2. A \subseteq DOMAIN x.files
  <2> SUFFICES ASSUME NEW f \in A PROVE f \in DOMAIN x.files
    OBVIOUS
  <2> DEFINE n == Len(x.commits)
  <2>1. n > 0 /\ f \in x.commits[n].files
    BY DEF Protected
  <2>2. n \in Nat
    BY <1>1, CountFacts
  <2>3. n \in 0 + 1..n
    BY <2>1, <2>2
  <2> QED
    BY <2>1, <2>3, <1>1, CountFacts
<1>3. Deleter(x1, a, 0, 0, A, {}, R, {}) /\ x1.last = A
  BY <1>1, <1>2, CheckpointStore
<1> HIDE DEF x1, A
<1>4. Consistent(x1, a, 0, A, {}, R, {}) /\ Covered(x1, 0, 0, {}, {})
  BY <1>3 DEF Deleter
<1>5. \A f \in F : Count(x1, f) = 0
  BY DEF Count
<1>6. ASSUME NEW n \in GenerationsIn(x1.files) PROVE Segments(n) \notin F
  <2>1. n # 0
    <3>1. Good(x1.files)
      BY <1>4, CountFacts
    <3> QED
      BY <3>1 DEF Good
  <2>2. PICK k \in 0 + 1..Len(x1.commits) : x1.commits[k].gen = n
    BY <2>1, <1>4 DEF Covered
  <2>3. Segments(n) \in x1.commits[k].files
    BY <2>2, <1>4 DEF Consistent, IsPoint
  <2>4. Count(x1, Segments(n)) # 0
    BY <2>3, <1>4, CountFacts
  <2> HIDE DEF F
  <2> QED
    BY <2>4, <1>5
<1>7. Covered(x1, 0, 0, {}, F)
  BY <1>4 DEF Covered
<1>8. Refresh(x1) = x2
  BY DEF Refresh
<1> HIDE DEF F
<1>9. Deleter(x2, a, 0, 0, A, {}, R, {}) /\ SameCounts(x1, x2)
  BY <1>4, <1>5, <1>6, <1>7, DeleteUnused
<1>10. Close(x2) = y
  BY DEF Close
<1> HIDE DEF x2
<1>11. x2.last = A /\ Deleter(x2, a, 0, 0, {}, {}, R, A)
  BY <1>3, <1>9, Swap DEF SameCounts
<1>12. Deleter(x3, a, 0, 0, {}, {}, R, {})
  BY <1>11, LetGo
<1> HIDE DEF x3
<1>13. Deleter(y, a, 0, 0, {}, {}, R, {})
  BY <1>12, SetLast
<1> HIDE DEF y
<1> QED
  BY <1>8, <1>10, <1>13 DEF Deleter, Consistent, x1

LEMMA RollbackInv ==
  ASSUME Inv, Rollback
  PROVE  Inv'
<1> DEFINE x == IF tragedy THEN store ELSE Close(Refresh(Checkpoint(store, rollbackSegs)))
<1>1. /\ NotClosed /\ pc = "idle" /\ store' = Abandoned(x.files, x.journal)
      /\ life' = "closed" /\ infos' = EmptyInfos /\ rollbackSegs' = NoSegments /\ change' = NoChange
      /\ building' = {} /\ deletes' = {}
      /\ UNCHANGED <<tragedy, reader, commitVars, acked>>
  BY DEF Rollback, NotClosed
<1>2. /\ Writer(store, acked, infos, building, "idle", toCommit, filesToCommit, reader)
      /\ IsSegs(rollbackSegs) /\ Protected(store, FilesOf(rollbackSegs))
      /\ IsRecord(toCommit) /\ IsInfos(toCommit)
  BY <1>1, InvFacts
<1>3. IsStore(x) /\ Safe(x, acked)
  <2>1. CASE tragedy
    BY <2>1 DEF Inv
  <2>2. CASE ~ tragedy
    <3>1. x = Close(Refresh(Checkpoint(store, rollbackSegs)))
      BY <2>2
    <3> HIDE DEF x
    <3> QED
      BY <3>1, <1>2, RolledBackStore
  <2> QED
    BY <2>1, <2>2
<1> HIDE DEF x
<1>4. IsStore(store') /\ Safe(store', acked) /\ DOMAIN store'.rc = {}
  BY <1>1, <1>3, AbandonedStore
<1>5. filesToCommit = {}
  BY <1>2 DEF Writer, Committing
<1>6. UNCHANGED <<pc, toCommit, filesToCommit>> /\ tragedy' \in BOOLEAN
  BY <1>1 DEF commitVars, Inv, Typed
<1> QED
  BY <1>1, <1>2, <1>4, <1>5, <1>6, ClosedStep

LEMMA CrashInv ==
  ASSUME Inv, Crash
  PROVE  Inv'
<1>1. /\ life' = "crashed" /\ tragedy' = FALSE /\ infos' = EmptyInfos /\ rollbackSegs' = NoSegments
      /\ change' = NoChange /\ building' = {} /\ deletes' = {} /\ reader' = {}
      /\ pc' = "idle" /\ toCommit' = EmptyInfos /\ filesToCommit' = {} /\ acked' = acked
  BY DEF Crash
<1>2. PICK d \in AfterCrash(store) : store' = Abandoned(d, <<>>)
  BY DEF Crash
<1>3. IsStore(store) /\ Safe(store, acked)
  BY DEF Inv
<1>4. IsDir(d) /\ Good(d) /\ Durable(d, acked)
  BY <1>2, <1>3, CrashStore
<1> DEFINE y == Abandoned(d, <<>>)
<1>5. y = [files |-> d, journal |-> <<>>, rc |-> [f \in {} |-> 0], commits |-> <<>>, last |-> {}]
  BY DEF Abandoned
<1> HIDE DEF y
<1>6. IsSequence(<<>>) /\ Len(<<>>) = 0
  BY DEF IsSequence
<1>7. /\ y.files = d /\ y.journal = <<>> /\ y.commits = <<>> /\ DOMAIN y.rc = {}
      /\ y = [files |-> y.files, journal |-> y.journal, rc |-> y.rc, commits |-> y.commits, last |-> y.last]
  BY <1>5
<1>8. IsStore(y)
  BY <1>4, <1>6, <1>7 DEF IsStore
<1>9. Safe(y, acked)
  BY <1>4, <1>6, <1>7, <1>8, CleanSafe
<1>10. store' = y
  BY <1>2 DEF y
<1> QED
  BY <1>1, <1>7, <1>8, <1>9, <1>10, EmptyFacts, ClosedStep

-----------------------------------------------------------------------------
(* IndexWriterInner::new *)

\* The greatest of finitely many numbers.
LEMMA MaxIs ==
  ASSUME NEW S \in SUBSET (Nat \cup {-1}), IsFiniteSet(S), S # {}
  PROVE  Max(S) \in S /\ \A n \in S : n <= Max(S)
<1> DEFINE T == S \cap Nat
<1>1. \E m \in S : \A n \in S : m >= n
  <2>1. CASE T = {}
    <3>1. \A n \in S : n = -1
      BY <2>1
    <3>2. PICK m \in S : TRUE
      OBVIOUS
    <3>3. \A n \in S : m >= n
      BY <3>1, <3>2
    <3> QED
      BY <3>3
  <2>2. CASE T # {}
    <3> DEFINE c == Cardinality(T)
               A == Ascending(T)
    <3>1. IsFiniteSet(T) /\ T \in SUBSET Nat
      <4>1. T \subseteq S /\ T \in SUBSET Nat
        OBVIOUS
      <4> HIDE DEF T
      <4> QED
        BY <4>1, FS_Subset
    <3> HIDE DEF T
    <3>2. /\ c \in Nat /\ A \in [1..c -> T]
          /\ \A i, j \in 1..c : i < j => A[i] < A[j]
          /\ \A n \in T : \E i \in 1..c : A[i] = n
      BY <3>1, AscendingIs
    <3> HIDE DEF c, A
    <3>3. c \in 1..c
      <4>1. PICK n \in T : TRUE
        BY <2>2
      <4>2. PICK i \in 1..c : A[i] = n
        BY <3>2
      <4> QED
        BY <4>2, <3>2
    <3>4. A[c] \in T /\ \A n \in T : A[c] >= n
      <4>1. ASSUME NEW n \in T PROVE A[c] >= n
        <5>1. PICK i \in 1..c : A[i] = n
          BY <3>2
        <5>2. A[c] \in Nat /\ n \in Nat
          BY <3>1, <3>2, <3>3
        <5>3. i = c \/ A[i] < A[c]
          BY <3>2, <3>3
        <5> QED
          BY <5>1, <5>2, <5>3
      <4> QED
        BY <3>2, <3>3, <4>1
    <3>5. A[c] \in S /\ A[c] \in Nat /\ \A n \in S : A[c] >= n
      <4>1. A[c] \in S /\ A[c] \in Nat
        BY <3>4 DEF T
      <4>2. ASSUME NEW n \in S PROVE A[c] >= n
        <5>1. n = -1 \/ n \in T
          BY DEF T
        <5> QED
          BY <5>1, <4>1, <3>4
      <4> QED
        BY <4>1, <4>2
    <3> QED
      BY <3>5
  <2> QED
    BY <2>1, <2>2
<1>2. Max(S) \in S /\ \A n \in S : Max(S) >= n
  BY <1>1 DEF Max
<1>3. \A n \in S : n \in Int
  OBVIOUS
<1> QED
  BY <1>2, <1>3

\* The numbers in names.
LEMMA NumbersFinite ==
  ASSUME NEW S, IsFiniteSet(S)
  PROVE  IsFiniteSet({f[2] : f \in S}) /\ IsFiniteSet({ParseGeneration[f[3]] : f \in S})
<1> DEFINE T == {f[2] : f \in S}
           U == {ParseGeneration[f[3]] : f \in S}
           F == [f \in S |-> f[2]]
           G == [f \in S |-> ParseGeneration[f[3]]]
<1>1. F \in Surjection(S, T) /\ G \in Surjection(S, U)
  BY DEF Surjection
<1> HIDE DEF F, G, T, U
<1>2. IsFiniteSet(T) /\ IsFiniteSet(U)
  BY <1>1, FS_Surjection
<1> QED
  BY <1>2 DEF T, U

LEMMA MaxWith ==
  ASSUME NEW S \in SUBSET Nat, IsFiniteSet(S), NEW k \in Nat \cup {-1}
  PROVE  LET m == Max({k} \cup S)
         IN  m \in {k} \cup S /\ m \in Nat \cup {-1} /\ k <= m /\ \A n \in S : n <= m
<1> DEFINE T == {k} \cup S
<1>1. IsFiniteSet(T)
  <2>1. IsFiniteSet({k})
    BY FS_Singleton
  <2> QED
    BY <2>1, FS_Union
<1>2. T \in SUBSET (Nat \cup {-1}) /\ T # {} /\ k \in T /\ S \subseteq T
  OBVIOUS
<1> HIDE DEF T
<1>3. Max(T) \in T /\ \A n \in T : n <= Max(T)
  BY <1>1, <1>2, MaxIs
<1> QED
  BY <1>2, <1>3 DEF T

\* An entry whose next generations are set.
NextSet(e, m, n) == [e EXCEPT !.nextDel = m, !.nextDv = n]

LEMMA EntrySet ==
  ASSUME NEW e, e \in Entries, NEW m, NEW n, m \in Nat /\ n \in Nat, NEW z, z = NextSet(e, m, n)
  PROVE  z \in Entries /\ z.del = e.del /\ z.dv = e.dv /\ z.nextDel = m /\ z.nextDv = n
<1> DEFINE y == [e EXCEPT !.nextDel = m]
<1>0. z = [y EXCEPT !.nextDv = n]
  BY DEF NextSet
<1>1. /\ e.del \in Nat /\ e.nextDel \in Nat /\ e.dv \in Nat /\ e.nextDv \in Nat
      /\ e = [del |-> e.del, nextDel |-> e.nextDel, dv |-> e.dv, nextDv |-> e.nextDv]
  BY DEF Entries
<1>2. y = [del |-> e.del, nextDel |-> m, dv |-> e.dv, nextDv |-> e.nextDv]
  BY <1>1
<1> HIDE DEF y
<1>3. z = [del |-> e.del, nextDel |-> m, dv |-> e.dv, nextDv |-> n]
  BY <1>0, <1>2
<1> QED
  BY <1>1, <1>3 DEF Entries

LEMMA InflatedIs ==
  ASSUME NEW e \in Entries, NEW n \in Nat
  PROVE  LET z == Inflated(e, n)
         IN  /\ z \in Entries /\ z.del = e.del /\ z.dv = e.dv
             /\ e.nextDel <= z.nextDel /\ e.nextDv <= z.nextDv
<1> DEFINE y == [e EXCEPT !.nextDel = Max({e.nextDel, n})]
           a == Max({e.nextDel, n})
           b == Max({e.nextDv, n})
<1>1. /\ e.nextDel \in Nat /\ e.nextDv \in Nat
      /\ e = [del |-> e.del, nextDel |-> e.nextDel, dv |-> e.dv, nextDv |-> e.nextDv]
  BY DEF Entries
<1>2. a \in Nat /\ b \in Nat /\ e.nextDel <= a /\ e.nextDv <= b
  BY <1>1, MaxOfTwo
<1>3. y.nextDv = e.nextDv
  BY <1>1
<1>4. Inflated(e, n) = [y EXCEPT !.nextDv = Max({y.nextDv, n})]
  BY DEF Inflated
<1>5. Inflated(e, n) = [e EXCEPT !.nextDel = a, !.nextDv = b]
  BY <1>3, <1>4
<1> DEFINE z == Inflated(e, n)
<1> HIDE DEF a, b, z
<1>6. z \in Entries /\ z.del = e.del /\ z.dv = e.dv /\ z.nextDel = a /\ z.nextDv = b
  <2>1. z = NextSet(e, a, b)
    BY <1>5 DEF z, NextSet
  <2> QED
    BY <2>1, <1>2, EntrySet
<1> QED
  BY <1>2, <1>6 DEF z

\* read_commit of the newest commit, if there is one.
LEMMA ReadIs ==
  ASSUME NEW d, IsDir(d), Good(d), NEW r,
         r = IF LastGeneration(d) = 0 THEN EmptyInfos ELSE ReadCommit(d, LastGeneration(d))
  PROVE  /\ IsInfos(r)
         /\ \A f \in FilesOf(r.segs) : \E n : Newest(d, n) /\ f \in FilesOf(d[Segments(n)].val.segs)
         /\ \A m \in GenerationsIn(d) : \A s \in Names(d, m) : s < r.counter
         /\ \A s \in DOMAIN r.segs : /\ s < r.counter /\ r.segs[s].del < r.segs[s].nextDel
                                      /\ r.segs[s].dv < r.segs[s].nextDv
         /\ \A m \in GenerationsIn(d) : NotBeyond(d[Segments(m)].val.segs, r.segs)
<1> DEFINE n == LastGeneration(d)
           gens == GenerationsIn(d)
<1>1. IsFiniteSet(gens) /\ gens \in SUBSET Nat /\ \A m \in gens : m > 0
  BY GenerationsFinite DEF Good
<1>2. n \in {0} \cup gens /\ \A m \in gens : m <= n
  BY <1>1, MaxWith DEF LastGeneration
<1> HIDE DEF n
<1>3. CASE n = 0
  <2>1. gens = {}
    BY <1>1, <1>2, <1>3
  <2>2. r = EmptyInfos
    BY <1>3 DEF n
  <2>3. IsInfos(r) /\ DOMAIN r.segs = {}
    BY <2>2, EmptyFacts
  <2>4. FilesOf(r.segs) = {}
    BY <2>3, FilesOfAre
  <2> QED
    BY <2>1, <2>3, <2>4
<1>4. CASE n # 0
  <2> DEFINE v == d[Segments(n)].val
  <2>1. n \in gens /\ Newest(d, n) /\ n \in Nat
    BY <1>1, <1>2, <1>4 DEF Newest
  <2>2. Segments(n) \in DOMAIN d /\ IsCommitFile(Segments(n))
    BY <2>1, GenerationsAre, NameFacts
  <2>3. IsInfos(v)
    BY <2>2 DEF IsDir, IsState
  <2>4. IsSegs(v.segs) /\ v.counter \in Nat /\ \A s \in DOMAIN v.segs : s \in Nat /\ v.segs[s] \in Entries
    BY <2>3 DEF IsInfos, IsSegs
  <2>5. r = ReadCommit(d, n)
    BY <1>4 DEF n
  <2> DEFINE opened(e) == [e EXCEPT !.nextDel = e.del + 1, !.nextDv = e.dv + 1]
  <2>6. /\ DOMAIN r.segs = DOMAIN v.segs /\ r.counter = v.counter /\ r.gen = n /\ r.lastGen = n
        /\ \A s \in DOMAIN v.segs : r.segs[s] = opened(v.segs[s])
    <3>1. r = [segs |-> [s \in DOMAIN v.segs |-> opened(v.segs[s])],
               counter |-> v.counter, gen |-> n, lastGen |-> n]
      BY <2>5 DEF ReadCommit
    <3> HIDE DEF v, opened
    <3> DEFINE w == [s \in DOMAIN v.segs |-> opened(v.segs[s])]
    <3>2. r = [segs |-> w, counter |-> v.counter, gen |-> n, lastGen |-> n]
      BY <3>1
    <3>3. DOMAIN w = DOMAIN v.segs /\ \A s \in DOMAIN v.segs : w[s] = opened(v.segs[s])
      OBVIOUS
    <3> HIDE DEF w
    <3> QED
      BY <3>2, <3>3
  <2>7. \A m \in gens : \A s \in Names(d, m) : s < v.counter
    BY <2>1, <1>2 DEF Good
  <2>8. \A s \in DOMAIN v.segs : s < v.counter
    BY <2>1, <2>7 DEF Names
  <2>9. FilesOf(v.segs) = FilesOf(d[Segments(n)].val.segs)
    OBVIOUS
  <2>13. \A m \in gens : NotBeyond(d[Segments(m)].val.segs, v.segs)
    BY <2>1, <1>2 DEF Good
  <2> HIDE DEF v
  <2>10. \A s \in DOMAIN v.segs :
            /\ r.segs[s] \in Entries /\ r.segs[s].del = v.segs[s].del /\ r.segs[s].dv = v.segs[s].dv
            /\ r.segs[s].del < r.segs[s].nextDel /\ r.segs[s].dv < r.segs[s].nextDv
    <3> TAKE s \in DOMAIN v.segs
    <3> DEFINE e == v.segs[s]
    <3>1. /\ e \in Entries /\ e.del + 1 \in Nat /\ e.dv + 1 \in Nat
          /\ e.del < e.del + 1 /\ e.dv < e.dv + 1
      BY <2>4 DEF Entries
    <3> DEFINE z == r.segs[s]
               k1 == e.del + 1
               k2 == e.dv + 1
    <3>2. z = NextSet(e, k1, k2) /\ k1 \in Nat /\ k2 \in Nat /\ e.del < k1 /\ e.dv < k2
      BY <2>6, <3>1 DEF NextSet
    <3> HIDE DEF e, z, k1, k2
    <3>3. z \in Entries /\ z.del = e.del /\ z.dv = e.dv /\ z.nextDel = k1 /\ z.nextDv = k2
      <4>1. e \in Entries
        BY <3>1
      <4> QED
        BY <4>1, <3>2, EntrySet
    <3> QED
      BY <3>2, <3>3 DEF e, z
  <2> HIDE DEF opened
  <2>11. IsInfos(r)
    BY <2>1, <2>4, <2>6, <2>10 DEF IsInfos, IsSegs
  <2>12. FilesOf(r.segs) = FilesOf(v.segs)
    BY <2>6, <2>10, FilesOfSame
  <2>14. \A m \in gens : NotBeyond(d[Segments(m)].val.segs, r.segs)
    BY <2>6, <2>10, <2>13 DEF NotBeyond
  <2> QED
    BY <2>1, <2>6, <2>7, <2>8, <2>9, <2>10, <2>11, <2>12, <2>14
<1> QED
  BY <1>3, <1>4

\* inflate_gens
LEMMA InflateGensIs ==
  ASSUME NEW d, IsDir(d), NEW i, IsInfos(i), NEW j, j = InflateGens(i, d)
  PROVE  /\ IsInfos(j) /\ IsRecord(j) /\ i.counter <= j.counter /\ FilesOf(j.segs) = FilesOf(i.segs)
         /\ DOMAIN j.segs = DOMAIN i.segs
         /\ \A s \in DOMAIN i.segs :
              /\ j.segs[s] \in Entries /\ j.segs[s].del = i.segs[s].del /\ j.segs[s].dv = i.segs[s].dv
              /\ i.segs[s].nextDel <= j.segs[s].nextDel /\ i.segs[s].nextDv <= j.segs[s].nextDv
         /\ \A f \in DOMAIN d : IsCommitFile(f) => f[2] <= j.gen
<1> DEFINE S == {g \in DOMAIN d : IsCommitFile(g)}
           T == {g \in DOMAIN d : ~ IsCommitFile(g)}
           G == {f[2] : f \in S}
           N == {f[2] : f \in T}
           m == Max({-1} \cup N)
           U(s) == {g \in DOMAIN d : ~ IsCommitFile(g) /\ g[2] = s}
           P(s) == {ParseGeneration[f[3]] : f \in U(s)}
           V(s) == {g \in P(s) : g \in Nat}
<1>1. \A f \in DOMAIN d : IsFile(f) /\ f[2] \in Nat /\ f[3] \in Nat
  BY FileFacts DEF IsDir
<1>2. IsFiniteSet(G) /\ IsFiniteSet(N) /\ G \in SUBSET Nat /\ N \in SUBSET Nat
  <2>1. IsFiniteSet(S) /\ IsFiniteSet(T)
    BY FS_Subset DEF IsDir
  <2>2. G \in SUBSET Nat /\ N \in SUBSET Nat
    BY <1>1
  <2> HIDE DEF S, T
  <2> QED
    BY <2>1, <2>2, NumbersFinite
<1>3. i.gen \in Nat /\ i.counter \in Nat /\ i.lastGen \in Nat /\ \A s \in DOMAIN i.segs : s \in Nat /\ i.segs[s] \in Entries
  BY DEF IsInfos, IsSegs
<1>4. j = [segs |-> [s \in DOMAIN i.segs |-> Inflated(i.segs[s], NextGeneration(d, s))],
           counter |-> IF i.counter < m + 1 THEN m ELSE i.counter,
           gen |-> Max({i.gen} \cup G), lastGen |-> i.lastGen]
  BY DEF InflateGens
<1>5. /\ DOMAIN j.segs = DOMAIN i.segs /\ j.counter = (IF i.counter < m + 1 THEN m ELSE i.counter)
      /\ j.gen = Max({i.gen} \cup G) /\ j.lastGen = i.lastGen /\ IsRecord(j)
      /\ \A s \in DOMAIN i.segs : j.segs[s] = Inflated(i.segs[s], NextGeneration(d, s))
  BY <1>4 DEF IsRecord
<1>6. ASSUME NEW s PROVE NextGeneration(d, s) \in Nat
  <2>1. IsFiniteSet(U(s))
    BY FS_Subset DEF IsDir
  <2>2. IsFiniteSet(P(s))
    <3> HIDE DEF U
    <3> QED
      BY <2>1, NumbersFinite
  <2>3. V(s) \in SUBSET Nat /\ IsFiniteSet(V(s))
    <3> HIDE DEF P
    <3> QED
      BY <2>2, FS_Subset
  <2>4. NextGeneration(d, s) = 1 + Max({0} \cup V(s))
    BY DEF NextGeneration
  <2> HIDE DEF V
  <2> DEFINE x == Max({0} \cup V(s))
  <2>5. x \in Nat \cup {-1} /\ 0 <= x
    BY <2>3, MaxWith
  <2> HIDE DEF x
  <2>6. NextGeneration(d, s) = 1 + x
    BY <2>4 DEF x
  <2> QED
    BY <2>5, <2>6
<1>7. j.counter \in Nat /\ i.counter <= j.counter
  <2>1. m \in Nat \cup {-1}
    BY <1>2, MaxWith
  <2> HIDE DEF m
  <2> QED
    BY <2>1, <1>3, <1>5
<1>8. j.gen \in Nat /\ \A n \in G : n <= j.gen
  <2> DEFINE x == Max({i.gen} \cup G)
  <2>1. x \in Nat \cup {-1} /\ i.gen <= x /\ \A n \in G : n <= x
    BY <1>2, <1>3, MaxWith
  <2> HIDE DEF x, G
  <2>2. j.gen = x
    BY <1>5 DEF x
  <2> QED
    BY <2>1, <2>2, <1>3
<1>9. ASSUME NEW s \in DOMAIN i.segs
      PROVE  /\ j.segs[s] \in Entries /\ j.segs[s].del = i.segs[s].del /\ j.segs[s].dv = i.segs[s].dv
             /\ i.segs[s].nextDel <= j.segs[s].nextDel /\ i.segs[s].nextDv <= j.segs[s].nextDv
  <2> DEFINE e == i.segs[s]
             n == NextGeneration(d, s)
  <2>1. e \in Entries /\ n \in Nat /\ j.segs[s] = Inflated(e, n)
    BY <1>3, <1>5, <1>6
  <2> HIDE DEF e, n
  <2>2. /\ j.segs[s] \in Entries /\ j.segs[s].del = e.del /\ j.segs[s].dv = e.dv
        /\ e.nextDel <= j.segs[s].nextDel /\ e.nextDv <= j.segs[s].nextDv
    BY <2>1, InflatedIs
  <2> QED
    BY <2>2 DEF e
<1> HIDE DEF m
<1>10. IsInfos(j)
  BY <1>3, <1>5, <1>7, <1>8, <1>9 DEF IsInfos, IsSegs
<1>11. FilesOf(j.segs) = FilesOf(i.segs)
  BY <1>5, <1>9, FilesOfSame
<1>12. ASSUME NEW f \in DOMAIN d, IsCommitFile(f) PROVE f[2] <= j.gen
  <2>1. f[2] \in G
    BY <1>12
  <2> QED
    BY <2>1, <1>8
<1> QED
  BY <1>5, <1>7, <1>9, <1>10, <1>11, <1>12

\* What a writer has when it is open: the newest commit, and names that are new.
LEMMA OpenedWriter ==
  ASSUME NEW x, NEW a, IsStore(x), Safe(x, a), NEW r,
         r = IF LastGeneration(x.files) = 0 THEN EmptyInfos ELSE ReadCommit(x.files, LastGeneration(x.files)),
         NEW j, j = InflateGens(r, x.files), NEW y, y = InitDeleter(x, r.segs), NEW p, p = "idle", NEW t
  PROVE  /\ Writer(y, a, j, {}, p, t, {}, {}) /\ Protected(y, FilesOf(r.segs))
         /\ IsInfos(j) /\ IsRecord(j) /\ IsSegs(r.segs)
<1> DEFINE d == x.files
<1>1. IsDir(d) /\ Good(d)
  BY FilesSafe DEF IsStore
<1>2. /\ IsInfos(r)
      /\ \A f \in FilesOf(r.segs) : \E n : Newest(d, n) /\ f \in FilesOf(d[Segments(n)].val.segs)
      /\ \A m \in GenerationsIn(d) : \A s \in Names(d, m) : s < r.counter
      /\ \A s \in DOMAIN r.segs : /\ s < r.counter /\ r.segs[s].del < r.segs[s].nextDel
                                   /\ r.segs[s].dv < r.segs[s].nextDv
      /\ \A m \in GenerationsIn(d) : NotBeyond(d[Segments(m)].val.segs, r.segs)
  BY <1>1, ReadIs
<1>3. /\ IsInfos(j) /\ IsRecord(j) /\ r.counter <= j.counter /\ FilesOf(j.segs) = FilesOf(r.segs)
      /\ DOMAIN j.segs = DOMAIN r.segs
      /\ \A s \in DOMAIN r.segs :
           /\ j.segs[s] \in Entries /\ j.segs[s].del = r.segs[s].del /\ j.segs[s].dv = r.segs[s].dv
           /\ r.segs[s].nextDel <= j.segs[s].nextDel /\ r.segs[s].nextDv <= j.segs[s].nextDv
      /\ \A f \in DOMAIN d : IsCommitFile(f) => f[2] <= j.gen
  BY <1>1, <1>2, InflateGensIs
<1>4. IsSegs(r.segs) /\ r.counter \in Nat /\ j.counter \in Nat /\ j.gen \in Nat /\ DOMAIN r.segs \subseteq Nat
  BY <1>2, <1>3 DEF IsInfos, IsSegs
<1>5. /\ Deleter(y, a, 0, 0, FilesOf(r.segs), {}, {}, {}) /\ y.last = FilesOf(r.segs)
      /\ Protected(y, FilesOf(r.segs))
      /\ \A f \in DOMAIN y.files :
           /\ f \in DOMAIN x.files /\ y.files[f] = x.files[f]
           /\ \E n \in GenerationsIn(x.files) :
                f \in FilesOf(x.files[Segments(n)].val.segs) \cup {Segments(n)}
  <2>1. \A f \in FilesOf(r.segs) : \E n : Newest(x.files, n) /\ f \in FilesOf(x.files[Segments(n)].val.segs)
    BY <1>2
  <2> QED
    BY <2>1, <1>4, InitDeleterStore
<1> DEFINE e == y.files
<1>6. Consistent(y, a, 0, FilesOf(r.segs), {}, {}, {}) /\ IsDir(e)
  BY <1>5, CountFacts DEF Deleter
<1>7. Part(d, e)
  BY <1>5 DEF Part
<1>8. \A n \in GenerationsIn(e) : n \in GenerationsIn(d) /\ e[Segments(n)] = d[Segments(n)]
  BY <1>1, <1>6, <1>7, PartGens
<1>9. ASSUME NEW n \in GenerationsIn(d)
      PROVE  /\ n \in Nat /\ IsSegs(d[Segments(n)].val.segs) /\ n <= j.gen
             /\ \A s \in Names(d, n) : s \in Nat /\ s < j.counter
  <2>1. n \in Nat /\ Segments(n) \in DOMAIN d
    BY <1>1, GenerationsAre
  <2>2. IsCommitFile(Segments(n)) /\ Segments(n)[2] = n
    BY <2>1, NameFacts DEF Segments
  <2>3. IsSegs(d[Segments(n)].val.segs)
    BY <2>1, <2>2, <1>1 DEF IsDir, IsState, IsInfos
  <2>4. n <= j.gen
    BY <2>1, <2>2, <1>3
  <2>5. \A s \in Names(d, n) : s \in Nat /\ s < j.counter
    BY <2>3, <1>2, <1>3, <1>4 DEF Names, IsSegs
  <2> QED
    BY <2>1, <2>3, <2>4, <2>5
<1>10. ASSUME NEW f \in DOMAIN e
       PROVE  /\ f[1] # "pending_segments" /\ f \in DOMAIN d
              /\ ~ IsCommitFile(f) => f[2] < j.counter
  <2>1. PICK n \in GenerationsIn(d) : f \in FilesOf(d[Segments(n)].val.segs) \cup {Segments(n)}
    BY <1>5
  <2>2. CASE f = Segments(n)
    BY <2>2, <1>5 DEF Segments, IsCommitFile
  <2>3. CASE f \in FilesOf(d[Segments(n)].val.segs)
    <3>1. ~ IsCommitFile(f) /\ f[2] \in DOMAIN d[Segments(n)].val.segs
      BY <2>3, <1>9, FilesOfData
    <3> QED
      BY <3>1, <1>5, <1>9 DEF Names, IsCommitFile
  <2> QED
    BY <2>1, <2>2, <2>3
<1>11. FreshFiles(e, j)
  <2>1. \A f \in DOMAIN e : ~ IsCommitFile(f) => f[2] < j.counter
    BY <1>10
  <2>2. \A n \in GenerationsIn(e) : \A s \in Names(e, n) : s < j.counter
    BY <1>8, <1>9 DEF Names
  <2>3. ASSUME NEW s \in DOMAIN j.segs
        PROVE  s < j.counter /\ j.segs[s].del < j.segs[s].nextDel /\ j.segs[s].dv < j.segs[s].nextDv
    <3>1. s \in DOMAIN r.segs /\ s \in Nat /\ r.segs[s] \in Entries /\ j.segs[s] \in Entries
      BY <1>3, <1>4 DEF IsSegs
    <3>2. s < j.counter
      BY <3>1, <1>2, <1>3, <1>4
    <3>3. /\ j.segs[s].del \in Nat /\ j.segs[s].nextDel \in Nat /\ r.segs[s].nextDel \in Nat
          /\ j.segs[s].dv \in Nat /\ j.segs[s].nextDv \in Nat /\ r.segs[s].nextDv \in Nat
      BY <3>1 DEF Entries
    <3>4. /\ j.segs[s].del < r.segs[s].nextDel /\ r.segs[s].nextDel <= j.segs[s].nextDel
          /\ j.segs[s].dv < r.segs[s].nextDv /\ r.segs[s].nextDv <= j.segs[s].nextDv
      BY <3>1, <1>2, <1>3
    <3> QED
      BY <3>2, <3>3, <3>4
  <2>4. ASSUME NEW s \in DOMAIN j.segs, NEW f \in DOMAIN e, f[2] = s
        PROVE  (f[1] = "liv" => f[3] <= j.segs[s].del) /\ (f[1] = "dv" => f[3] <= j.segs[s].dv)
    <3>1. PICK n \in GenerationsIn(d) : f \in FilesOf(d[Segments(n)].val.segs) \cup {Segments(n)}
      BY <1>5
    <3> DEFINE v == d[Segments(n)].val.segs
    <3>2. NotBeyond(v, r.segs) /\ s \in DOMAIN r.segs /\ j.segs[s].del = r.segs[s].del /\ j.segs[s].dv = r.segs[s].dv
      BY <1>2, <1>3
    <3>3. CASE f = Segments(n)
      BY <3>3 DEF Segments
    <3>4. CASE f \in FilesOf(v)
      <4> HIDE DEF v
      <4>1. PICK u \in DOMAIN v : \/ f = Core(u)
                                  \/ v[u].del > 0 /\ f = Live(u, v[u].del)
                                  \/ v[u].dv > 0 /\ f = Dv(u, v[u].dv)
        BY <3>4, FilesOfAre
      <4>2. u = s
        BY <4>1, <2>4 DEF Core, Live, Dv
      <4>3. v[s].del <= j.segs[s].del /\ v[s].dv <= j.segs[s].dv
        BY <4>1, <4>2, <3>2 DEF NotBeyond
      <4>4. (f[1] = "liv" => f[3] = v[s].del) /\ (f[1] = "dv" => f[3] = v[s].dv)
        BY <4>1, <4>2 DEF Core, Live, Dv
      <4> QED
        BY <4>3, <4>4
    <3> QED
      BY <3>1, <3>3, <3>4
  <2> QED
    BY <2>1, <2>2, <2>3, <2>4 DEF FreshFiles
<1>12. Phase(y, j, p, t) /\ RenamedGen(p, t) = 0
  <2>1. \A n \in GenerationsIn(y.files) : n <= j.gen
    BY <1>8, <1>9
  <2>2. \A k \in 1..Len(y.commits) : y.commits[k].gen <= j.gen
    BY <2>1, <1>6, CommitGens
  <2>3. \A f \in DOMAIN y.files : f[1] # "pending_segments"
    BY <1>10
  <2>4. ~ Committing(p)
    BY DEF Committing
  <2> QED
    BY <2>1, <2>2, <2>3, <2>4, IdlePhase
<1>13. Unpublished(y, j, {})
  BY DEF Unpublished
<1>14. Writer(y, a, j, {}, p, t, {}, {})
  BY <1>3, <1>5, <1>11, <1>12, <1>13 DEF Writer, Committing
<1> QED
  BY <1>3, <1>4, <1>5, <1>14

LEMMA OpenInv ==
  ASSUME Inv, Open
  PROVE  Inv'
<1> DEFINE n == LastGeneration(store.files)
           r == IF n = 0 THEN EmptyInfos ELSE ReadCommit(store.files, n)
<1>1. /\ life \in {"closed", "crashed"} /\ life' = "open" /\ tragedy' = FALSE
      /\ building' = {} /\ deletes' = {} /\ reader' = {}
      /\ UNCHANGED <<commitVars, crashes, acked>>
  BY DEF Open
<1>2. /\ infos' = InflateGens(r, store.files) /\ store' = InitDeleter(store, r.segs)
      /\ rollbackSegs' = r.segs
  BY DEF Open
<1>3. change' \in [now : Nat, pend : Nat]
  <2>1. \E b : change' = [now |-> IF b THEN 1 ELSE 0, pend |-> 0]
    BY DEF Open
  <2> QED
    BY <2>1
<1>4. ~ NotClosed /\ NotClosed'
  BY <1>1 DEF NotClosed
<1>5. /\ pc = "idle" /\ filesToCommit = {} /\ IsStore(store) /\ Safe(store, acked)
      /\ acked.gen \in Nat /\ IsRecord(toCommit) /\ IsInfos(toCommit)
  BY <1>4 DEF Inv, Typed
<1>6. UNCHANGED <<pc, toCommit, filesToCommit, acked>>
  BY <1>1 DEF commitVars
<1> DEFINE i == infos'
           y == store'
           v == rollbackSegs'
<1>7. r = IF LastGeneration(store.files) = 0 THEN EmptyInfos
          ELSE ReadCommit(store.files, LastGeneration(store.files))
  OBVIOUS
<1> HIDE DEF r, n
<1>8. i = InflateGens(r, store.files) /\ y = InitDeleter(store, r.segs) /\ v = r.segs
  BY <1>2
<1> HIDE DEF i, y, v
<1>9. /\ Writer(y, acked, i, {}, pc, toCommit, {}, {}) /\ Protected(y, FilesOf(r.segs))
      /\ IsInfos(i) /\ IsRecord(i) /\ IsSegs(r.segs)
  BY <1>5, <1>7, <1>8, OpenedWriter
<1>10. Writer(store, acked, infos, building, pc, toCommit, filesToCommit, reader)'
  BY <1>1, <1>5, <1>6, <1>9 DEF i, y
<1>11. Protected(store, FilesOf(rollbackSegs))'
  BY <1>8, <1>9 DEF y, v
<1>12. Typed(life, tragedy, pc, infos, toCommit, rollbackSegs, change, building, deletes)'
  BY <1>1, <1>3, <1>5, <1>6, <1>8, <1>9 DEF Typed, i, v
<1>13. ~ Committing(pc')
  BY <1>5, <1>6 DEF Committing
<1> QED
  BY <1>4, <1>5, <1>6, <1>10, <1>11, <1>12, <1>13, OpenStep

-----------------------------------------------------------------------------
(* The theorems. *)

LEMMA InitInv ==
  ASSUME Init
  PROVE  Inv
<1> DEFINE d == [f \in {} |-> 0]
           x == Abandoned(d, <<>>)
<1>1. /\ store = x /\ life = "closed" /\ tragedy = FALSE /\ infos = EmptyInfos
      /\ rollbackSegs = NoSegments /\ change = NoChange /\ building = {} /\ deletes = {}
      /\ pc = "idle" /\ toCommit = EmptyInfos /\ filesToCommit = {}
      /\ acked = [gen |-> 0, segs |-> NoSegments]
  BY DEF Init
<1>2. DOMAIN d = {} /\ d = [f \in DOMAIN d |-> d[f]]
  OBVIOUS
<1>3. x = [files |-> d, journal |-> <<>>, rc |-> [f \in {} |-> 0], commits |-> <<>>, last |-> {}]
  BY DEF Abandoned
<1> HIDE DEF x, d
<1>4. IsDir(d)
  BY <1>2, FS_EmptySet DEF IsDir
<1>5. GenerationsIn(d) = {}
  BY <1>2, <1>4, GenerationsAre
<1>6. acked.gen = 0
  BY <1>1
<1>7. Good(d) /\ Durable(d, acked)
  BY <1>5, <1>6 DEF Good, Durable
<1>8. IsSequence(<<>>) /\ Len(<<>>) = 0
  BY DEF IsSequence
<1>9. /\ x.files = d /\ x.journal = <<>> /\ x.commits = <<>> /\ DOMAIN x.rc = {}
      /\ x = [files |-> x.files, journal |-> x.journal, rc |-> x.rc, commits |-> x.commits, last |-> x.last]
  BY <1>3
<1>10. IsStore(x)
  BY <1>4, <1>8, <1>9 DEF IsStore
<1>11. Safe(x, acked)
  BY <1>7, <1>8, <1>9, <1>10, CleanSafe
<1>12. Typed(life, tragedy, pc, infos, toCommit, rollbackSegs, change, building, deletes)
  BY <1>1, EmptyFacts DEF Typed
<1>13. ~ NotClosed /\ ~ Committing(pc)
  BY <1>1 DEF NotClosed, Committing
<1> QED
  BY <1>1, <1>6, <1>9, <1>10, <1>11, <1>12, <1>13 DEF Inv

LEMMA NextInv ==
  ASSUME Inv, [Next]_vars, "meta" \notin Failing
  PROVE  Inv'
<1>1. CASE Open
  BY <1>1, OpenInv
<1>2. CASE WriteSegment
  BY <1>2, WriteSegmentInv
<1>3. CASE DeleteAll
  BY <1>3, DeleteAllInv
<1>4. CASE OpenReader
  BY <1>4, OpenReaderInv
<1>5. CASE CloseReader
  BY <1>5, CloseReaderInv
<1>6. ASSUME NEW s \in 0..MaxSegments,
             \/ Publish(s) \/ DiscardSegment(s) \/ ApplyDeletes(s)
             \/ DropSegment(s) \/ UpdateDocValues(s)
             \/ \E S \in SUBSET (0..MaxSegments) : CommitMerge(s, S)
      PROVE  Inv'
  <2>1. CASE Publish(s)
    BY <2>1, PublishInv
  <2>2. CASE DiscardSegment(s)
    BY <2>2, DiscardSegmentInv
  <2>3. CASE ApplyDeletes(s)
    BY <2>3, ApplyDeletesInv
  <2>4. CASE DropSegment(s)
    BY <2>4, DropSegmentInv
  <2>5. CASE UpdateDocValues(s)
    BY <2>5, UpdateDocValuesInv
  <2>6. CASE \E S \in SUBSET (0..MaxSegments) : CommitMerge(s, S)
    BY <2>6, CommitMergeInv
  <2> QED
    BY <1>6, <2>1, <2>2, <2>3, <2>4, <2>5, <2>6
<1>7. CASE Snapshot
  BY <1>7, SnapshotInv
<1>8. CASE CommitStep
  <2>1. CASE Prepare
    BY <2>1, PrepareInv
  <2>2. CASE PrepareFails
    BY <2>2, PrepareFailsInv
  <2>3. CASE SyncFiles
    BY <2>3, SyncFilesInv
  <2>4. CASE SyncFails
    BY <2>4, SyncFailsInv
  <2>5. CASE RenamePending
    BY <2>5, RenamePendingInv
  <2>6. CASE FinishCommitFails
    BY <2>6, FinishCommitFailsInv
  <2>7. CASE Complete
    BY <2>7, CompleteInv
  <2> QED
    BY <1>8, <2>1, <2>2, <2>3, <2>4, <2>5, <2>6, <2>7 DEF CommitStep
<1>9. CASE BeginRollback
  BY <1>9, BeginRollbackInv
<1>10. CASE Rollback
  BY <1>10, RollbackInv
<1>11. CASE Crash
  BY <1>11, CrashInv
<1>12. CASE UNCHANGED vars
  <2>1. UNCHANGED <<store, life, tragedy, infos, rollbackSegs, change, building, deletes, reader,
                    pc, toCommit, filesToCommit, acked>>
    BY <1>12 DEF vars, commitVars
  <2> QED
    BY <2>1 DEF Inv, NotClosed
<1> QED
  BY <1>1, <1>2, <1>3, <1>4, <1>5, <1>6, <1>7, <1>8, <1>9, <1>10, <1>11, <1>12 DEF Next

\* The inductive invariant of the writer, its deleter and its directory holds in every state, for
\* any bounds and any of the failures of write, sync and rename in a commit (start_commit,
\* finish_commit), with crashes at any step.
THEOREM Invariance ==
  ASSUME "meta" \notin Failing
  PROVE  Spec => []Inv
<1>1. Init => Inv
  BY InitInv
<1>2. Inv /\ [Next]_vars => Inv'
  BY NextInv
<1> QED
  BY <1>1, <1>2, PTL DEF Spec

\* Type correctness: the SegmentInfos of the writer and of the commit are well-formed, and no
\* reference count is negative (RefCount::dec_ref).
THEOREM TypeCorrect ==
  ASSUME "meta" \notin Failing
  PROVE  Spec => []TypeOK
<1>1. Inv => TypeOK
  <2> SUFFICES ASSUME Inv PROVE TypeOK
    OBVIOUS
  <2>1. \A f \in DOMAIN store.rc : store.rc[f] \in Nat
    <3>1. CASE NotClosed
      <4>1. Writer(store, acked, infos, building, pc, toCommit, filesToCommit, reader)
        BY <3>1, InvFacts
      <4> QED
        BY <4>1, WriterFacts
    <3>2. CASE ~ NotClosed
      BY <3>2 DEF Inv
    <3> QED
      BY <3>1, <3>2
  <2> QED
    BY <2>1 DEF Inv, Typed, TypeOK
<1> QED
  BY <1>1, Invariance, PTL

\* How many of three holders have f.
LEMMA HoldersAre ==
  ASSUME NEW f, NEW A, NEW B, NEW C
  PROVE  Cardinality({F \in {<<1, A>>, <<2, B>>, <<3, C>>} : f \in F[2]}) = One(f, A) + One(f, B) + One(f, C)
<1> DEFINE Has(i, F) == IF f \in F THEN {<<i, F>>} ELSE {}
           S == Has(1, A)
           T == Has(2, B)
           U == Has(3, C)
<1>1. ASSUME NEW i, NEW F PROVE IsFiniteSet(Has(i, F)) /\ Cardinality(Has(i, F)) = One(f, F)
  <2>1. CASE f \in F
    BY <2>1, FS_Singleton DEF One
  <2>2. CASE f \notin F
    BY <2>2, FS_EmptySet DEF One
  <2> QED
    BY <2>1, <2>2
<1>2. {F \in {<<1, A>>, <<2, B>>, <<3, C>>} : f \in F[2]} = (S \cup T) \cup U
  OBVIOUS
<1>3. S \cap T = {} /\ (S \cup T) \cap U = {}
  OBVIOUS
<1>4. /\ IsFiniteSet(S) /\ IsFiniteSet(T) /\ IsFiniteSet(U)
      /\ Cardinality(S) = One(f, A) /\ Cardinality(T) = One(f, B) /\ Cardinality(U) = One(f, C)
  BY <1>1
<1>5. One(f, A) \in Nat /\ One(f, B) \in Nat /\ One(f, C) \in Nat
  BY DEF One
<1> HIDE DEF S, T, U
<1>6. IsFiniteSet(S \cup T) /\ Cardinality(S \cup T) = One(f, A) + One(f, B)
  <2>1. /\ IsFiniteSet(S \cup T)
        /\ Cardinality(S \cup T) = Cardinality(S) + Cardinality(T) - Cardinality(S \cap T)
    BY <1>4, FS_Union
  <2>2. Cardinality(S \cap T) = 0
    BY <1>3, FS_EmptySet
  <2> QED
    BY <2>1, <2>2, <1>4, <1>5
<1> DEFINE V == S \cup T
<1>7. V \cap U = {} /\ IsFiniteSet(V) /\ Cardinality(V) = One(f, A) + One(f, B)
  BY <1>3, <1>6
<1> HIDE DEF V
<1>8. Cardinality(V \cup U) = Cardinality(V) + Cardinality(U) - Cardinality(V \cap U)
  BY <1>4, <1>7, FS_Union
<1>9. Cardinality(V \cap U) = 0
  BY <1>7, FS_EmptySet
<1>10. Cardinality(V \cup U) = One(f, A) + One(f, B) + One(f, C)
  BY <1>4, <1>5, <1>7, <1>8, <1>9
<1> QED
  BY <1>2, <1>10 DEF V

\* The count of a file in IndexFileDeleter is the number of commits, current segments, commits under
\* way and readers that use it, after any sequence of inc_ref_files, dec_ref_files and checkpoint.
THEOREM RefCountsCorrect ==
  ASSUME "meta" \notin Failing
  PROVE  Spec => []RefCountsExact
<1>1. Inv => RefCountsExact
  <2> SUFFICES ASSUME Inv, NotClosed, NEW f PROVE Count(store, f) = Holders(f)
    BY DEF RefCountsExact
  <2>1. Writer(store, acked, infos, building, pc, toCommit, filesToCommit, reader)
    BY InvFacts
  <2>2. Consistent(store, acked, 0, store.last, filesToCommit, reader, {}) /\ IsStore(store)
    BY <2>1, WriterFacts
  <2>3. Count(store, f) = From(store.commits, 0, f) + One(f, store.last) + One(f, filesToCommit)
                            + One(f, reader) + One(f, {})
    BY <2>2 DEF Consistent
  <2>4. InCommits(store.commits, f) = From(store.commits, 0, f) /\ From(store.commits, 0, f) \in Nat
    BY <2>2, FromAll, CountFacts DEF IsStore
  <2>5. Holders(f) = InCommits(store.commits, f) + (One(f, store.last) + One(f, filesToCommit) + One(f, reader))
    BY HoldersAre DEF Holders
  <2>6. \A F : One(f, F) \in Nat /\ One(f, {}) = 0
    BY DEF One
  <2> QED
    BY <2>3, <2>4, <2>5, <2>6
<1> QED
  BY <1>1, Invariance, PTL

\* No file that something refers to has been deleted, whatever merges, updates, readers and commits
\* come between (IndexFileDeleter::delete_files).
THEOREM RefsExistCorrect ==
  ASSUME "meta" \notin Failing
  PROVE  Spec => []RefsExist
<1>1. Inv => RefsExist
  <2> SUFFICES ASSUME Inv, NotClosed, NEW f \in DOMAIN store.rc, store.rc[f] > 0
               PROVE  f \in DOMAIN store.files
    BY DEF RefsExist
  <2>1. Writer(store, acked, infos, building, pc, toCommit, filesToCommit, reader)
    BY InvFacts
  <2>2. Count(store, f) # 0 => f \in DOMAIN store.files
    BY <2>1, WriterFacts
  <2>3. Count(store, f) # 0
    BY DEF Count
  <2> QED
    BY <2>2, <2>3
<1> QED
  BY <1>1, Invariance, PTL

\* Every segments_N in the directory can be read: its files are there and synced, at every step of
\* a commit and after a crash at any of them (SegmentInfos::prepare_commit, finish_commit).
THEOREM CommitsReadableCorrect ==
  ASSUME "meta" \notin Failing
  PROVE  Spec => []CommitsReadable
<1>1. Inv => CommitsReadable
  <2> SUFFICES ASSUME Inv PROVE CommitsReadable
    OBVIOUS
  <2>1. Good(store.files)
    BY FilesSafe DEF Inv
  <2> QED
    BY <2>1 DEF Good, CommitsReadable
<1> QED
  BY <1>1, Invariance, PTL

\* What IndexWriter::commit acknowledged survives: the newest commit in the directory is that one,
\* with its segments, or a later one, also after crashes.
THEOREM DurableCommitCorrect ==
  ASSUME "meta" \notin Failing
  PROVE  Spec => []DurableCommit
<1>1. Inv => DurableCommit
  <2> SUFFICES ASSUME Inv PROVE DurableCommit
    OBVIOUS
  <2> DEFINE d == store.files
             gens == GenerationsIn(d)
             n == LastGeneration(d)
  <2>1. IsDir(d) /\ Good(d) /\ Durable(d, acked) /\ acked.gen \in Nat
    BY FilesSafe DEF Inv, IsStore
  <2>2. IsFiniteSet(gens) /\ gens \in SUBSET Nat /\ \A m \in gens : m > 0
    BY <2>1, GenerationsFinite DEF Good
  <2>3. n \in {0} \cup gens /\ \A m \in gens : m <= n
    BY <2>2, MaxWith DEF LastGeneration
  <2>4. DurableCommit <=> /\ n >= acked.gen
                          /\ n = acked.gen /\ n > 0 => d[Segments(n)].val.segs = acked.segs
    BY DEF DurableCommit
  <2> HIDE DEF n, d
  <2>5. CASE acked.gen = 0 /\ gens = {}
    BY <2>3, <2>4, <2>5
  <2>6. ASSUME NEW k, Newest(d, k), k >= acked.gen, k = acked.gen => d[Segments(k)].val.segs = acked.segs
        PROVE  DurableCommit
    <3>1. n = k
      BY <2>2, <2>3, <2>6 DEF Newest
    <3> QED
      BY <3>1, <2>4, <2>6
  <2> QED
    BY <2>1, <2>5, <2>6 DEF Durable
<1> QED
  BY <1>1, Invariance, PTL

-----------------------------------------------------------------------------
(* No file is written twice. *)

\* What WritesFresh says of a step.
FreshStep ==
  LET files == DOMAIN store.files
      old == DOMAIN infos.segs
  IN /\ \A s \in building' \ building : Core(s) \notin files
     /\ \A s \in DOMAIN infos'.segs \cap old :
          LET i == infos'.segs[s]
          IN /\ i.del # infos.segs[s].del => Live(s, i.del) \notin files
             /\ i.dv # infos.segs[s].dv => Dv(s, i.dv) \notin files
     /\ pc' = "prepared" /\ pc # "prepared" => Pending(toCommit'.gen) \notin files
     /\ pc' = "renamed" /\ pc # "renamed" => Segments(toCommit.gen) \notin files

\* A step that writes nothing but, perhaps, the files of v.
Keeps(v) ==
  \A s \in DOMAIN v \cap DOMAIN infos.segs :
    v[s].del = infos.segs[s].del /\ v[s].dv = infos.segs[s].dv

LEMMA QuietFresh ==
  ASSUME building' \subseteq building, Keeps(infos'.segs), pc' \in {"prepared", "renamed"} => pc' = pc
  PROVE  FreshStep
BY DEF FreshStep, Keeps

\* Only rollback and a crash leave a writer closed.
LEMMA ClosesBy ==
  ASSUME Inv, Next, ~ NotClosed'
  PROVE  Rollback \/ Crash
<1>1. life' \notin {"open", "closing"}
  BY DEF NotClosed
<1>2. ~ (Open \/ WriteSegment \/ DeleteAll \/ OpenReader \/ CloseReader \/ Snapshot \/ BeginRollback)
  BY <1>1 DEF Open, WriteSegment, DeleteAll, OpenReader, CloseReader, Snapshot, BeginRollback, NotClosed
<1>3. ~ (\E s \in 0..MaxSegments :
           \/ Publish(s) \/ DiscardSegment(s) \/ ApplyDeletes(s)
           \/ DropSegment(s) \/ UpdateDocValues(s)
           \/ \E S \in SUBSET (0..MaxSegments) : CommitMerge(s, S))
  BY <1>1 DEF Publish, DiscardSegment, ApplyDeletes, DropSegment, UpdateDocValues, CommitMerge, NotClosed
<1>4. ~ CommitStep
  <2>1. CASE NotClosed
    <3>1. life \in {"open", "closing"}
      BY <2>1 DEF NotClosed
    <3>2. ~ (PrepareFails \/ SyncFails)
      BY <1>1 DEF PrepareFails, SyncFails, StartCommitFails
    <3>3. ~ (Prepare \/ SyncFiles \/ RenamePending \/ FinishCommitFails \/ Complete)
      BY <1>1, <3>1 DEF Prepare, SyncFiles, RenamePending, FinishCommitFails, Complete
    <3> QED
      BY <3>2, <3>3 DEF CommitStep
  <2>2. CASE ~ NotClosed
    <3>1. pc = "idle"
      BY <2>2 DEF Inv
    <3> QED
      BY <3>1 DEF CommitStep, Prepare, PrepareFails, SyncFiles, SyncFails, RenamePending, FinishCommitFails,
                  Complete
  <2> QED
    BY <2>1, <2>2
<1> QED
  BY <1>2, <1>3, <1>4 DEF Next

\* A closed writer has no segments.
ClosedEmpty == ~ NotClosed => DOMAIN infos.segs = {}

LEMMA NextEmpty ==
  ASSUME Inv, ClosedEmpty, [Next]_vars
  PROVE  ClosedEmpty'
<1>1. CASE UNCHANGED vars
  BY <1>1 DEF vars, ClosedEmpty, NotClosed
<1>2. CASE Next /\ ~ NotClosed'
  <2>1. infos' = EmptyInfos
    BY <1>2, ClosesBy DEF Rollback, Crash
  <2> QED
    BY <2>1 DEF ClosedEmpty, EmptyInfos, NoSegments
<1>3. CASE NotClosed'
  BY <1>3 DEF ClosedEmpty
<1> QED
  BY <1>1, <1>2, <1>3

\* check_point with segments that are as they were, or new.
LEMMA CheckPointFresh ==
  ASSUME Inv, NotClosed, NEW x, NEW v, CheckPoint(x, v), Keeps(v), building' \subseteq building, pc' = pc
  PROVE  FreshStep
<1>1. infos' = [infos EXCEPT !.segs = v] /\ IsRecord(infos)
  BY InvFacts DEF CheckPoint
<1>2. infos'.segs = v
  BY <1>1, SetSegs DEF SetTo
<1> QED
  BY <1>2, QuietFresh

\* The names and generations that come next.
LEMMA NextNamesFresh ==
  ASSUME Inv, NotClosed
  PROVE  /\ Core(infos.counter) \notin DOMAIN store.files
         /\ \A s \in DOMAIN infos.segs : /\ Live(s, infos.segs[s].nextDel) \notin DOMAIN store.files
                                         /\ Dv(s, infos.segs[s].nextDv) \notin DOMAIN store.files
         /\ building \cap DOMAIN infos.segs = {}
         /\ pc = "copied" => Pending(toCommit.gen + 1) \notin DOMAIN store.files
         /\ pc = "synced" => Segments(toCommit.gen) \notin DOMAIN store.files
<1>1. /\ Writer(store, acked, infos, building, pc, toCommit, filesToCommit, reader)
      /\ IsInfos(infos) /\ IsInfos(toCommit) /\ building \subseteq Nat
  BY InvFacts
<1>2. /\ FreshFiles(store.files, infos) /\ Unpublished(store, infos, building)
      /\ GensPhase(store, infos, pc, toCommit) /\ IsDir(store.files)
  BY <1>1, WriterFacts DEF Phase
<1>3. infos.counter \in Nat /\ infos.gen \in Nat /\ toCommit.gen \in Nat
  BY <1>1 DEF IsInfos
<1>4. Core(infos.counter) \notin DOMAIN store.files
  <2>1. ~ IsCommitFile(Core(infos.counter)) /\ Core(infos.counter)[2] = infos.counter
    BY DEF Core, IsCommitFile
  <2> QED
    BY <2>1, <1>2, <1>3 DEF FreshFiles
<1>5. ASSUME NEW s \in DOMAIN infos.segs
      PROVE  /\ Live(s, infos.segs[s].nextDel) \notin DOMAIN store.files
             /\ Dv(s, infos.segs[s].nextDv) \notin DOMAIN store.files
  <2>1. infos.segs[s] \in Entries
    BY <1>1 DEF IsInfos, IsSegs
  <2>2. /\ infos.segs[s].del \in Nat /\ infos.segs[s].nextDel \in Nat
        /\ infos.segs[s].dv \in Nat /\ infos.segs[s].nextDv \in Nat
    BY <2>1 DEF Entries
  <2>3. infos.segs[s].del < infos.segs[s].nextDel /\ infos.segs[s].dv < infos.segs[s].nextDv
    BY <1>2 DEF FreshFiles
  <2>4. \A f \in DOMAIN store.files : f[2] = s =>
          (f[1] = "liv" => f[3] <= infos.segs[s].del) /\ (f[1] = "dv" => f[3] <= infos.segs[s].dv)
    BY <1>2 DEF FreshFiles
  <2>5. \A g : /\ Live(s, g)[1] = "liv" /\ Live(s, g)[2] = s /\ Live(s, g)[3] = g
               /\ Dv(s, g)[1] = "dv" /\ Dv(s, g)[2] = s /\ Dv(s, g)[3] = g
    BY DEF Live, Dv
  <2> QED
    BY <2>2, <2>3, <2>4, <2>5
<1>6. building \cap DOMAIN infos.segs = {}
  BY <1>2 DEF Unpublished
<1>7. ASSUME pc = "copied" PROVE Pending(toCommit.gen + 1) \notin DOMAIN store.files
  <2>1. Pending(toCommit.gen + 1)[1] = "pending_segments"
    BY DEF Pending
  <2> QED
    BY <1>2, <1>7, <2>1 DEF GensPhase
<1>8. ASSUME pc = "synced" PROVE Segments(toCommit.gen) \notin DOMAIN store.files
  <2>1. toCommit.gen = infos.gen + 1 /\ \A n \in GenerationsIn(store.files) : n <= infos.gen
    BY <1>2, <1>8 DEF GensPhase
  <2>2. toCommit.gen \notin GenerationsIn(store.files)
    BY <2>1, <1>3
  <2> QED
    BY <2>2, <1>2, GenerationsAre
<1> QED
  BY <1>4, <1>5, <1>6, <1>7, <1>8

\* A step that leaves segment_infos as it was, but for its generations.
LEMMA SegsStay ==
  ASSUME IsRecord(infos), NEW m, NEW n, infos' = infos \/ infos' = UpdateGeneration(infos, m, n)
  PROVE  Keeps(infos'.segs)
<1>1. infos'.segs = infos.segs
  BY DEF UpdateGeneration, IsRecord
<1> QED
  BY <1>1 DEF Keeps

LEMMA ChangesFresh ==
  ASSUME Inv, NotClosed, NEW s, NEW S,
         \/ Publish(s) \/ DiscardSegment(s) \/ ApplyDeletes(s) \/ DropSegment(s) \/ CommitMerge(s, S)
  PROVE  FreshStep
<1>1. IsRecord(infos) /\ building \cap DOMAIN infos.segs = {}
  BY InvFacts, NextNamesFresh
<1>2. Keeps(infos.segs) /\ \A T : Keeps(Without(infos.segs, T))
  BY DEF Keeps, Without, Restrict
<1>3. ASSUME s \in building, NEW v, Keeps(v) PROVE Keeps(With(v, s))
  BY <1>1, <1>3 DEF Keeps, With
<1>4. CASE Publish(s)
  <2>1. CheckPoint(store, With(infos.segs, s)) /\ s \in building /\ building' \subseteq building /\ pc' = pc
    BY <1>4 DEF Publish, commitVars
  <2> QED
    BY <2>1, <1>2, <1>3, CheckPointFresh
<1>5. CASE DiscardSegment(s)
  <2>1. infos' = infos /\ building' \subseteq building /\ pc' = pc
    BY <1>5 DEF DiscardSegment, commitVars
  <2> QED
    BY <2>1, <1>1, SegsStay, QuietFresh
<1>6. CASE ApplyDeletes(s)
  <2>1. CheckPoint(store, infos.segs) /\ building' \subseteq building /\ pc' = pc
    BY <1>6 DEF ApplyDeletes, commitVars
  <2> QED
    BY <2>1, <1>2, CheckPointFresh
<1>7. CASE DropSegment(s)
  <2>1. CheckPoint(store, Without(infos.segs, {s})) /\ building' \subseteq building /\ pc' = pc
    BY <1>7 DEF DropSegment, commitVars
  <2> QED
    BY <2>1, <1>2, CheckPointFresh
<1>8. CASE CommitMerge(s, S)
  <2>1. /\ CheckPoint(store, With(Without(infos.segs, S), s)) /\ s \in building
        /\ building' \subseteq building /\ pc' = pc
    BY <1>8 DEF CommitMerge, commitVars
  <2> QED
    BY <2>1, <1>2, <1>3, CheckPointFresh
<1> QED
  BY <1>4, <1>5, <1>6, <1>7, <1>8

LEMMA UpdateDocValuesFresh ==
  ASSUME Inv, NEW s, UpdateDocValues(s)
  PROVE  FreshStep
<1> DEFINE w == infos.segs
           g == w[s].nextDv
           v == [w EXCEPT ![s].dv = g, ![s].nextDv = g + 1]
<1>1. /\ NotClosed /\ s \in DOMAIN w /\ infos' = [infos EXCEPT !.segs = v]
      /\ building' = building /\ pc' = pc
  BY DEF UpdateDocValues, CheckPoint, commitVars
<1>2. IsRecord(infos) /\ IsSegs(w) /\ Dv(s, g) \notin DOMAIN store.files
  BY <1>1, InvFacts, NextNamesFresh DEF IsInfos
<1>3. g \in Nat
  BY <1>1, <1>2 DEF IsSegs, Entries
<1>4. /\ DOMAIN v = DOMAIN w /\ \A u \in DOMAIN w : u # s => v[u] = w[u]
      /\ v[s] \in Entries /\ v[s].del = w[s].del /\ v[s].nextDel = w[s].nextDel
      /\ v[s].dv = g /\ v[s].nextDv = g + 1
  <2>1. s \in DOMAIN w /\ IsSegs(w)
    BY <1>1, <1>2
  <2> QED
    BY <2>1, UpdatedSegs
<1> HIDE DEF v
<1>5. infos'.segs = v
  BY <1>1, <1>2, SetSegs DEF SetTo
<1>6. \A u \in DOMAIN infos'.segs \cap DOMAIN w :
        /\ infos'.segs[u].del = w[u].del
        /\ infos'.segs[u].dv # w[u].dv => Dv(u, infos'.segs[u].dv) \notin DOMAIN store.files
  <2> TAKE u \in DOMAIN infos'.segs \cap DOMAIN w
  <2>1. CASE u = s
    BY <2>1, <1>2, <1>4, <1>5
  <2>2. CASE u # s
    BY <2>2, <1>4, <1>5
  <2> QED
    BY <2>1, <2>2
<1> QED
  BY <1>1, <1>6 DEF FreshStep

LEMMA SnapshotFresh ==
  ASSUME Inv, Snapshot
  PROVE  FreshStep
<1> DEFINE w == infos.segs
           v == AdvanceDelGen(w, deletes)
<1>1. NotClosed /\ infos' = [infos EXCEPT !.segs = v] /\ building' = building /\ pc' = "copied"
  BY DEF Snapshot
<1>2. /\ IsRecord(infos) /\ IsSegs(w) /\ deletes \subseteq DOMAIN w
      /\ \A s \in DOMAIN w : Live(s, w[s].nextDel) \notin DOMAIN store.files
  BY <1>1, InvFacts, NextNamesFresh DEF IsInfos
<1>3. /\ DOMAIN v = DOMAIN w /\ \A s \in DOMAIN w : s \notin deletes => v[s] = w[s]
      /\ \A s \in DOMAIN w : s \in deletes => v[s].dv = w[s].dv /\ v[s].del = w[s].nextDel
  BY <1>2, AdvancedSegs
<1> HIDE DEF v
<1>4. infos'.segs = v
  BY <1>1, <1>2, SetSegs DEF SetTo
<1>5. \A u \in DOMAIN infos'.segs \cap DOMAIN w :
        /\ infos'.segs[u].dv = w[u].dv
        /\ infos'.segs[u].del # w[u].del => Live(u, infos'.segs[u].del) \notin DOMAIN store.files
  <2> TAKE u \in DOMAIN infos'.segs \cap DOMAIN w
  <2>1. CASE u \in deletes
    BY <2>1, <1>2, <1>3, <1>4
  <2>2. CASE u \notin deletes
    BY <2>2, <1>3, <1>4
  <2> QED
    BY <2>1, <2>2
<1> QED
  BY <1>1, <1>5 DEF FreshStep

LEMMA CommitFresh ==
  ASSUME Inv, CommitStep
  PROVE  FreshStep
<1>1. pc # "idle"
  BY DEF CommitStep, Prepare, PrepareFails, SyncFiles, SyncFails, RenamePending, FinishCommitFails, Complete
<1>2. NotClosed
  BY <1>1 DEF Inv
<1>3. /\ IsRecord(infos) /\ IsRecord(toCommit)
      /\ pc = "copied" => Pending(toCommit.gen + 1) \notin DOMAIN store.files
      /\ pc = "synced" => Segments(toCommit.gen) \notin DOMAIN store.files
  BY <1>2, InvFacts, NextNamesFresh
<1>4. CASE Prepare
  <2>1. infos' = infos /\ building' = building /\ pc = "copied"
    BY <1>4 DEF Prepare
  <2>2. CASE NoChangesPending
    <3>1. pc' = "idle"
      BY <1>4, <2>2 DEF Prepare
    <3> QED
      BY <2>1, <3>1, <1>3, SegsStay, QuietFresh
  <2>3. CASE ~ NoChangesPending
    <3>1. pc' = "prepared" /\ toCommit' = [toCommit EXCEPT !.gen = toCommit.gen + 1]
      BY <1>4, <2>3 DEF Prepare
    <3>2. toCommit'.gen = toCommit.gen + 1
      BY <3>1, <1>3 DEF IsRecord
    <3>3. Pending(toCommit'.gen) \notin DOMAIN store.files
      BY <2>1, <3>2, <1>3
    <3> QED
      BY <2>1, <3>1, <3>3 DEF FreshStep
  <2> QED
    BY <2>2, <2>3
<1>5. CASE RenamePending
  <2>1. infos' = infos /\ building' = building /\ pc = "synced" /\ pc' = "renamed"
    BY <1>5 DEF RenamePending
  <2> QED
    BY <2>1, <1>3 DEF FreshStep
<1>6. ASSUME \/ PrepareFails \/ SyncFiles \/ SyncFails \/ FinishCommitFails \/ Complete
      PROVE  FreshStep
  <2> DEFINE Quiet(m, n) == /\ building' = building /\ pc' \in {"synced", "idle", "locked out"}
                            /\ infos' = infos \/ infos' = UpdateGeneration(infos, m, n)
  <2>1. \A p, m, n : StartCommitFails(p, m, n) => Quiet(m, n)
    BY DEF StartCommitFails
  <2>2. PrepareFails \/ SyncFails => \E m, n : Quiet(m, n)
    <3>1. PrepareFails \/ SyncFails => \E p, m, n : StartCommitFails(p, m, n)
      BY DEF PrepareFails, SyncFails
    <3> HIDE DEF Quiet
    <3> QED
      BY <2>1, <3>1
  <2>3. SyncFiles => Quiet(toCommit.lastGen, toCommit.gen - 1)
    BY DEF SyncFiles
  <2>4. FinishCommitFails => Quiet(0, 0)
    BY DEF FinishCommitFails
  <2>5. Complete => Quiet(toCommit.gen, toCommit.gen)
    BY DEF Complete
  <2>6. PICK m, n : Quiet(m, n)
    <3> HIDE DEF Quiet
    <3> QED
      BY <1>6, <2>2, <2>3, <2>4, <2>5
  <2>7. Keeps(infos'.segs)
    BY <2>6, <1>3, SegsStay
  <2>8. building' \subseteq building /\ pc' \notin {"prepared", "renamed"}
    BY <2>6
  <2> QED
    BY <2>7, <2>8, QuietFresh
<1> QED
  BY <1>4, <1>5, <1>6 DEF CommitStep

LEMMA NextFresh ==
  ASSUME Inv, ClosedEmpty, Next
  PROVE  FreshStep
<1>1. CASE Open
  <2>1. building' = {} /\ pc' = pc /\ DOMAIN infos.segs = {}
    BY <1>1 DEF Open, commitVars, ClosedEmpty, NotClosed
  <2>2. Keeps(infos'.segs)
    BY <2>1 DEF Keeps
  <2> QED
    BY <2>1, <2>2, QuietFresh
<1>2. CASE WriteSegment
  <2>1. /\ NotClosed /\ infos' = [infos EXCEPT !.counter = @ + 1]
        /\ building' = building \cup {infos.counter} /\ pc' = pc
    BY <1>2 DEF WriteSegment, NotClosed, commitVars
  <2>2. IsRecord(infos) /\ Core(infos.counter) \notin DOMAIN store.files
    BY <2>1, InvFacts, NextNamesFresh
  <2>3. infos'.segs = infos.segs
    BY <2>1, <2>2 DEF IsRecord
  <2> QED
    BY <2>1, <2>2, <2>3 DEF FreshStep
<1>3. CASE DeleteAll
  <2>1. NotClosed /\ CheckPoint(store, NoSegments) /\ building' = building /\ pc' = pc
    BY <1>3 DEF DeleteAll, NotClosed, commitVars
  <2>2. Keeps(NoSegments)
    BY DEF Keeps, NoSegments
  <2> QED
    BY <2>1, <2>2, CheckPointFresh
<1>4. ASSUME OpenReader \/ CloseReader \/ BeginRollback PROVE FreshStep
  <2>1. NotClosed /\ infos' = infos /\ building' = building /\ pc' = pc
    BY <1>4 DEF OpenReader, CloseReader, BeginRollback, NotClosed, commitVars
  <2> QED
    BY <2>1, InvFacts, SegsStay, QuietFresh
<1>5. ASSUME NEW s \in 0..MaxSegments,
             \/ Publish(s) \/ DiscardSegment(s) \/ ApplyDeletes(s) \/ DropSegment(s)
             \/ \E S \in SUBSET (0..MaxSegments) : CommitMerge(s, S)
      PROVE  FreshStep
  <2>1. NotClosed
    BY <1>5 DEF Publish, DiscardSegment, ApplyDeletes, DropSegment, CommitMerge
  <2> QED
    BY <1>5, <2>1, ChangesFresh
<1>6. ASSUME Rollback \/ Crash PROVE FreshStep
  <2>1. infos' = EmptyInfos /\ building' = {}
    BY <1>6 DEF Rollback, Crash
  <2>2. pc' = pc \/ pc' = "idle"
    BY <1>6 DEF Rollback, Crash, commitVars
  <2>3. Keeps(infos'.segs)
    BY <2>1 DEF Keeps, EmptyInfos, NoSegments
  <2> QED
    BY <2>1, <2>2, <2>3, QuietFresh
<1> QED
  BY <1>1, <1>2, <1>3, <1>4, <1>5, <1>6, UpdateDocValuesFresh, SnapshotFresh, CommitFresh DEF Next

\* No file of the directory is written a second time: neither one of a new segment (new_segment_name),
\* nor a generation of live docs or updates (write_live_docs, write_field_updates), nor the
\* pending_segments_N or segments_N of a commit; for any bounds, after crashes at any step, and although
\* inflate_gens reads the generations in other digits than they are written in.
THEOREM WritesFreshCorrect ==
  ASSUME "meta" \notin Failing
  PROVE  Spec => WritesFresh
<1>1. Init => Inv /\ ClosedEmpty
  <2>1. ASSUME Init PROVE ClosedEmpty
    BY <2>1 DEF Init, ClosedEmpty, EmptyInfos, NoSegments
  <2> QED
    BY <2>1, InitInv
<1>2. Inv /\ ClosedEmpty /\ [Next]_vars => (Inv /\ ClosedEmpty)'
  BY NextInv, NextEmpty
<1>3. Inv /\ ClosedEmpty /\ [Next]_vars => [FreshStep]_vars
  BY NextFresh
<1>4. WritesFresh <=> [][FreshStep]_vars
  BY DEF WritesFresh, FreshStep
<1> QED
  BY <1>1, <1>2, <1>3, <1>4, PTL DEF Spec

-----------------------------------------------------------------------------
(* What an open writer leaves behind: no operation of the deleter makes a file that nobody counts. *)

IsRec(x) ==
  x = [files |-> x.files, journal |-> x.journal, rc |-> x.rc, commits |-> x.commits,
       last |-> x.last]

Counted(x) == IsRec(x) /\ \A f \in DOMAIN x.rc : x.rc[f] \in Int

\* The files that nobody counts.
Spare(x) == {f \in DOMAIN x.files : Count(x, f) = 0}

\* delete_files does not touch the counts.
LEMMA UnlinkCounts ==
  ASSUME NEW x, NEW F, IsRec(x)
  PROVE  LET y == Unlink(x, F)
         IN  /\ IsRec(y) /\ y.rc = x.rc /\ y.commits = x.commits /\ y.last = x.last
             /\ DOMAIN y.files = DOMAIN x.files \ F
<1> DEFINE y == Unlink(x, F)
           gone == {f \in F \cap DOMAIN x.files : x.files[f].st = "synced"}
           e == [new |-> {}, old |-> Restrict(x.files, gone)]
           new == Restrict(x.files, DOMAIN x.files \ F)
           jour == IF gone = {} THEN x.journal ELSE Journal(x.journal, e)
<1>1. y = [x EXCEPT !.files = new, !.journal = jour]
  BY DEF Unlink
<1>2. DOMAIN new = DOMAIN x.files \ F
  BY DEF Restrict
<1> HIDE DEF y, new, jour
<1>3. y = [files |-> new, journal |-> jour, rc |-> x.rc, commits |-> x.commits, last |-> x.last]
  BY <1>1 DEF IsRec
<1> QED
  BY <1>2, <1>3 DEF IsRec, y

LEMMA DeleteCounts ==
  ASSUME NEW x, NEW F, IsRec(x)
  PROVE  LET y == DeleteFiles(x, F)
         IN  /\ IsRec(y) /\ y.rc = x.rc /\ y.commits = x.commits /\ y.last = x.last
             /\ DOMAIN y.files = DOMAIN x.files \ F
<1> DEFINE S == {f \in F : IsSegments(f)}
           z == Unlink(x, S)
           y == Unlink(z, F \ S)
<1>1. DeleteFiles(x, F) = y
  BY DEF DeleteFiles
<1>2. S \subseteq F
  OBVIOUS
<1> HIDE DEF S
<1>3. /\ IsRec(z) /\ z.rc = x.rc /\ z.commits = x.commits /\ z.last = x.last
      /\ DOMAIN z.files = DOMAIN x.files \ S
  BY UnlinkCounts
<1> HIDE DEF z
<1>4. /\ IsRec(y) /\ y.rc = z.rc /\ y.commits = z.commits /\ y.last = z.last
      /\ DOMAIN y.files = DOMAIN z.files \ (F \ S)
  BY <1>3, UnlinkCounts
<1> HIDE DEF y
<1> QED
  BY <1>1, <1>2, <1>3, <1>4

\* delete_files deletes also what is spare.
LEMMA DeleteSpare ==
  ASSUME NEW x, NEW F, Counted(x)
  PROVE  LET y == DeleteFiles(x, F)
         IN  /\ Counted(y) /\ y.rc = x.rc /\ y.commits = x.commits /\ y.last = x.last
             /\ Spare(y) = Spare(x) \ F
<1> DEFINE y == DeleteFiles(x, F)
<1>1. /\ IsRec(y) /\ y.rc = x.rc /\ y.commits = x.commits /\ y.last = x.last
      /\ DOMAIN y.files = DOMAIN x.files \ F
  BY DeleteCounts DEF Counted
<1> HIDE DEF y
<1>2. Counted(y)
  BY <1>1 DEF Counted
<1>3. Spare(y) = Spare(x) \ F
  BY <1>1 DEF Spare, Count
<1> QED
  BY <1>1, <1>2, <1>3 DEF y

\* dec_ref_files deletes the file whose count would be 0.
LEMMA DecRefSpare ==
  ASSUME NEW x, NEW F, Counted(x)
  PROVE  LET y == DecRefFiles(x, F)
         IN  Counted(y) /\ y.commits = x.commits /\ y.last = x.last /\ Spare(y) \subseteq Spare(x)
<1> DEFINE U == Unused(x, F)
           rc == [f \in (DOMAIN x.rc \cup F) \ U |-> Count(x, f) - (IF f \in F THEN 1 ELSE 0)]
           z == Lowered(x, F)
           y == DeleteFiles(z, U)
<1>1. DecRefFiles(x, F) = y
  BY DEF DecRefFiles, Lowered, Unused
<1>2. z = [x EXCEPT !.rc = rc]
  BY DEF Lowered
<1>3. ASSUME NEW f PROVE Count(x, f) \in Int
  BY DEF Count, Counted
<1>4. \A f \in DOMAIN rc : rc[f] \in Int /\ (rc[f] = 0 => Count(x, f) = 0)
  <2> SUFFICES ASSUME NEW f \in (DOMAIN x.rc \cup F) \ U, NEW c, c = Count(x, f) - (IF f \in F THEN 1 ELSE 0)
               PROVE  c \in Int /\ (c = 0 => Count(x, f) = 0)
    OBVIOUS
  <2>1. f \in F => Count(x, f) # 1
    BY DEF Unused
  <2> QED
    BY <2>1, <1>3
<1>5. DOMAIN rc = (DOMAIN x.rc \cup F) \ U
  OBVIOUS
<1> HIDE DEF rc, z, U
<1>6. z = [files |-> x.files, journal |-> x.journal, rc |-> rc, commits |-> x.commits, last |-> x.last]
  BY <1>2 DEF Counted, IsRec
<1>7. IsRec(z) /\ z.rc = rc /\ z.files = x.files /\ z.commits = x.commits /\ z.last = x.last
  BY <1>6 DEF IsRec
<1>8. Counted(z)
  BY <1>4, <1>7 DEF Counted
<1>9. /\ Counted(y) /\ y.rc = z.rc /\ y.commits = z.commits /\ y.last = z.last
      /\ Spare(y) = Spare(z) \ U
  BY <1>8, DeleteSpare
<1> HIDE DEF y
<1>10. ASSUME NEW f \in Spare(y) PROVE f \in Spare(x)
  <2>1. f \in DOMAIN x.files /\ Count(z, f) = 0 /\ f \notin U
    BY <1>7, <1>9 DEF Spare
  <2>2. CASE f \in DOMAIN rc
    BY <2>1, <2>2, <1>4, <1>7 DEF Spare, Count
  <2>3. CASE f \notin DOMAIN rc
    BY <2>1, <2>3, <1>5 DEF Spare, Count
  <2> QED
    BY <2>2, <2>3
<1> QED
  BY <1>1, <1>7, <1>9, <1>10

LEMMA IncRefSpare ==
  ASSUME NEW x, NEW F, Counted(x), \A f : Count(x, f) \in Nat
  PROVE  LET y == IncRefFiles(x, F)
         IN  Counted(y) /\ y.commits = x.commits /\ y.last = x.last /\ Spare(y) \subseteq Spare(x)
<1> DEFINE y == IncRefFiles(x, F)
           rc == [f \in DOMAIN x.rc \cup F |-> Count(x, f) + (IF f \in F THEN 1 ELSE 0)]
<1>1. y = [x EXCEPT !.rc = rc]
  BY DEF IncRefFiles
<1>2. \A f \in DOMAIN rc : rc[f] \in Int /\ (rc[f] = 0 => Count(x, f) = 0)
  <2> SUFFICES ASSUME NEW f \in DOMAIN x.rc \cup F, NEW c, c = Count(x, f) + (IF f \in F THEN 1 ELSE 0)
               PROVE  c \in Int /\ (c = 0 => Count(x, f) = 0)
    OBVIOUS
  <2> QED
    OBVIOUS
<1>3. DOMAIN rc = DOMAIN x.rc \cup F
  OBVIOUS
<1> HIDE DEF rc, y
<1>4. y = [files |-> x.files, journal |-> x.journal, rc |-> rc, commits |-> x.commits, last |-> x.last]
  BY <1>1 DEF Counted, IsRec
<1>5. IsRec(y) /\ y.rc = rc /\ y.files = x.files /\ y.commits = x.commits /\ y.last = x.last
  BY <1>4 DEF IsRec
<1>6. ASSUME NEW f \in Spare(y) PROVE f \in Spare(x)
  <2>1. f \in DOMAIN x.files /\ Count(y, f) = 0
    BY <1>5 DEF Spare
  <2>2. CASE f \in DOMAIN rc
    BY <2>1, <2>2, <1>2, <1>5 DEF Spare, Count
  <2>3. CASE f \notin DOMAIN rc
    BY <2>1, <2>3, <1>3 DEF Spare, Count
  <2> QED
    BY <2>2, <2>3
<1> QED
  BY <1>2, <1>5, <1>6 DEF Counted, y

\* checkpoint(_, false)
LEMMA CheckpointSpare ==
  ASSUME NEW x, NEW segs, Counted(x), \A f : Count(x, f) \in Nat
  PROVE  LET y == Checkpoint(x, segs)
         IN  Counted(y) /\ y.commits = x.commits /\ Spare(y) \subseteq Spare(x)
<1> DEFINE z == IncRefFiles(x, FilesOf(segs))
           w == DecRefFiles(z, x.last)
           y == [w EXCEPT !.last = FilesOf(segs)]
<1>1. Checkpoint(x, segs) = y
  BY DEF Checkpoint
<1>2. Counted(z) /\ z.commits = x.commits /\ Spare(z) \subseteq Spare(x)
  BY IncRefSpare
<1> HIDE DEF z
<1>3. Counted(w) /\ w.commits = x.commits /\ Spare(w) \subseteq Spare(z)
  BY <1>2, DecRefSpare
<1> HIDE DEF w
<1>4. y = [files |-> w.files, journal |-> w.journal, rc |-> w.rc, commits |-> w.commits, last |-> FilesOf(segs)]
  BY <1>3 DEF Counted, IsRec
<1> HIDE DEF y
<1>5. IsRec(y) /\ y.files = w.files /\ y.rc = w.rc /\ y.commits = w.commits
  BY <1>4 DEF IsRec
<1>6. Counted(y) /\ Spare(y) = Spare(w)
  BY <1>3, <1>5 DEF Counted, Spare, Count
<1> QED
  BY <1>1, <1>2, <1>3, <1>5, <1>6

\* delete_commits
LEMMA DeleteCommitsSpare ==
  ASSUME NEW x, Counted(x), IsSequence(x.commits)
  PROVE  Counted(DeleteCommits(x)) /\ Spare(DeleteCommits(x)) \subseteq Spare(x)
<1> DEFINE k == Dropped(x.commits)
           y == Steps(x, k)
           Fine(u) == Counted(u) /\ Spare(u) \subseteq Spare(x)
           Bad == {i \in 0..k : ~ Fine(y[i])}
           z == Release(x, k)
           cs == SubSeq(z.commits, k + 1, Len(z.commits))
           w == [z EXCEPT !.commits = cs]
<1>1. k \in Nat
  BY DroppedBound
<1>2. DeleteCommits(x) = w
  BY DEF DeleteCommits
<1> HIDE DEF k
<1>3. /\ z = y[k] /\ y[0] = x
      /\ \A i \in 1..k : y[i] = DecRefFiles(y[i - 1], x.commits[i].files)
  BY <1>1, ReleaseIs
<1> HIDE DEF y
<1>0. Fine(x)
  OBVIOUS
<1>4. CASE Bad # {}
  <2>0. Bad \in SUBSET Nat
    OBVIOUS
  <2>1. PICK i \in Bad : \A j \in Bad : i <= j
    <3> HIDE DEF Bad
    <3> QED
      BY <2>0, <1>4, LeastNat
  <2>2. i \in 0..k /\ ~ Fine(y[i]) /\ i # 0
    <3> HIDE DEF Fine
    <3> QED
      BY <2>1, <1>0, <1>3
  <2>3. i \in 1..k /\ i - 1 \in 0..k /\ i - 1 \notin Bad
    BY <2>1, <2>2, <1>1
  <2>4. Fine(y[i - 1]) /\ y[i] = DecRefFiles(y[i - 1], x.commits[i].files)
    <3> HIDE DEF Fine
    <3> QED
      BY <2>3, <1>3
  <2>5. Fine(y[i])
    <3>1. Counted(y[i]) /\ Spare(y[i]) \subseteq Spare(y[i - 1])
      BY <2>4, DecRefSpare
    <3> QED
      BY <2>4, <3>1
  <2> QED
    BY <2>2, <2>5
<1>5. CASE Bad = {}
  <2>1. Fine(z)
    <3> HIDE DEF Fine
    <3> QED
      BY <1>1, <1>3, <1>5
  <2> HIDE DEF z, cs
  <2>2. w = [files |-> z.files, journal |-> z.journal, rc |-> z.rc, commits |-> cs, last |-> z.last]
    BY <2>1 DEF Counted, IsRec
  <2> HIDE DEF w
  <2>3. IsRec(w) /\ w.rc = z.rc /\ w.files = z.files
    BY <2>2 DEF IsRec
  <2>4. Counted(w) /\ Spare(w) = Spare(z)
    BY <2>1, <2>3 DEF Counted, Spare, Count
  <2> QED
    BY <1>2, <2>1, <2>4
<1> QED
  BY <1>4, <1>5

\* checkpoint(_, true)
LEMMA CommitCheckpointSpare ==
  ASSUME NEW x, NEW n, NEW segs, Counted(x), \A f : Count(x, f) \in Nat, IsSequence(x.commits)
  PROVE  LET y == CommitCheckpoint(x, n, segs)
         IN  Counted(y) /\ Spare(y) \subseteq Spare(x)
<1> DEFINE p == CommitPoint(n, segs)
           z == IncRefFiles(x, p.files)
           cs == Append(z.commits, p)
           w == [z EXCEPT !.commits = cs]
<1>1. CommitCheckpoint(x, n, segs) = DeleteCommits(w)
  BY DEF CommitCheckpoint
<1> HIDE DEF p
<1>2. Counted(z) /\ z.commits = x.commits /\ Spare(z) \subseteq Spare(x)
  BY IncRefSpare
<1> HIDE DEF z
<1>3. IsSequence(cs)
  <2>1. PICK S : x.commits \in Seq(S)
    BY DEF IsSequence
  <2>2. x.commits \in Seq(S \cup {p})
    BY <2>1
  <2>3. cs \in Seq(S \cup {p})
    BY <1>2, <2>2
  <2> QED
    BY <2>3 DEF IsSequence
<1> HIDE DEF cs
<1>4. w = [files |-> z.files, journal |-> z.journal, rc |-> z.rc, commits |-> cs, last |-> z.last]
  BY <1>2 DEF Counted, IsRec
<1> HIDE DEF w
<1>5. IsRec(w) /\ w.files = z.files /\ w.rc = z.rc /\ w.commits = cs
  BY <1>4 DEF IsRec
<1>6. Counted(w) /\ Spare(w) = Spare(z)
  BY <1>2, <1>5 DEF Counted, Spare, Count
<1>7. Counted(DeleteCommits(w)) /\ Spare(DeleteCommits(w)) \subseteq Spare(w)
  BY <1>3, <1>5, <1>6, DeleteCommitsSpare
<1> QED
  BY <1>1, <1>2, <1>6, <1>7

\* The operations of the directory leave the counts alone.
LEMMA DirectorySpare ==
  ASSUME NEW x, NEW F, NEW v, NEW n, Counted(x)
  PROVE  /\ Counted(Create(x, F, v)) /\ Create(x, F, v).rc = x.rc /\ Spare(Create(x, F, v)) \subseteq Spare(x) \cup F
         /\ Counted(Sync(x, F)) /\ Spare(Sync(x, F)) \subseteq Spare(x)
         /\ Counted(Rename(x, n)) /\ Spare(Rename(x, n)) \subseteq Spare(x) \cup {Segments(n)}
         /\ Counted(SyncMetaData(x)) /\ SyncMetaData(x).rc = x.rc
         /\ SyncMetaData(x).commits = x.commits /\ Spare(SyncMetaData(x)) \subseteq Spare(x)
<1>1. ASSUME NEW y, NEW d, NEW j, NEW G, DOMAIN d \subseteq DOMAIN x.files \cup G,
             y = [files |-> d, journal |-> j, rc |-> x.rc, commits |-> x.commits, last |-> x.last]
      PROVE  Counted(y) /\ y.rc = x.rc /\ y.commits = x.commits /\ Spare(y) \subseteq Spare(x) \cup G
  <2>1. IsRec(y) /\ y.rc = x.rc /\ y.commits = x.commits /\ y.files = d
    BY <1>1 DEF IsRec
  <2>2. Counted(y)
    BY <2>1 DEF Counted
  <2>3. Spare(y) \subseteq Spare(x) \cup G
    BY <1>1, <2>1 DEF Spare, Count
  <2> QED
    BY <2>1, <2>2, <2>3
<1>2. x = [files |-> x.files, journal |-> x.journal, rc |-> x.rc, commits |-> x.commits, last |-> x.last]
  BY DEF Counted, IsRec
<1>3. /\ Counted(Create(x, F, v)) /\ Create(x, F, v).rc = x.rc
      /\ Spare(Create(x, F, v)) \subseteq Spare(x) \cup F
  <2> DEFINE d == [f \in DOMAIN x.files \cup F |-> IF f \in F THEN [st |-> "dirty", val |-> v] ELSE x.files[f]]
  <2>1. Create(x, F, v) = [x EXCEPT !.files = d]
    BY DEF Create
  <2>2. DOMAIN d \subseteq DOMAIN x.files \cup F
    OBVIOUS
  <2> HIDE DEF d
  <2>3. Create(x, F, v) = [files |-> d, journal |-> x.journal, rc |-> x.rc, commits |-> x.commits, last |-> x.last]
    BY <1>2, <2>1
  <2> QED
    BY <1>1, <2>2, <2>3
<1>4. Counted(Sync(x, F)) /\ Spare(Sync(x, F)) \subseteq Spare(x)
  <2> DEFINE d == [f \in DOMAIN x.files |-> IF f \in F THEN [x.files[f] EXCEPT !.st = "synced"] ELSE x.files[f]]
  <2>1. Sync(x, F) = [x EXCEPT !.files = d]
    BY DEF Sync
  <2>2. DOMAIN d \subseteq DOMAIN x.files \cup {}
    OBVIOUS
  <2> HIDE DEF d
  <2>3. Sync(x, F) = [files |-> d, journal |-> x.journal, rc |-> x.rc, commits |-> x.commits, last |-> x.last]
    BY <1>2, <2>1
  <2>4. Counted(Sync(x, F)) /\ Spare(Sync(x, F)) \subseteq Spare(x) \cup {}
    BY <1>1, <2>2, <2>3
  <2> QED
    BY <2>4
<1>5. Counted(Rename(x, n)) /\ Spare(Rename(x, n)) \subseteq Spare(x) \cup {Segments(n)}
  <2> DEFINE gone == {Pending(n), Segments(n)} \cap DOMAIN x.files
             d == [f \in (DOMAIN x.files \ gone) \cup {Segments(n)} |->
                     IF f = Segments(n) THEN x.files[Pending(n)] ELSE x.files[f]]
             j == Journal(x.journal, [new |-> {Segments(n)}, old |-> Restrict(x.files, gone)])
  <2>1. Rename(x, n) = [x EXCEPT !.files = d, !.journal = j]
    BY DEF Rename
  <2>2. DOMAIN d \subseteq DOMAIN x.files \cup {Segments(n)}
    OBVIOUS
  <2> HIDE DEF d, j
  <2>3. Rename(x, n) = [files |-> d, journal |-> j, rc |-> x.rc, commits |-> x.commits, last |-> x.last]
    BY <1>2, <2>1
  <2> QED
    BY <1>1, <2>2, <2>3
<1>6. /\ Counted(SyncMetaData(x)) /\ SyncMetaData(x).rc = x.rc
      /\ SyncMetaData(x).commits = x.commits /\ Spare(SyncMetaData(x)) \subseteq Spare(x)
  <2>1. SyncMetaData(x) = [files |-> x.files, journal |-> <<>>, rc |-> x.rc, commits |-> x.commits, last |-> x.last]
    BY <1>2 DEF SyncMetaData
  <2>2. /\ Counted(SyncMetaData(x)) /\ SyncMetaData(x).rc = x.rc
        /\ SyncMetaData(x).commits = x.commits /\ Spare(SyncMetaData(x)) \subseteq Spare(x) \cup {}
    BY <1>1, <2>1
  <2> QED
    BY <2>2
<1> QED
  BY <1>3, <1>4, <1>5, <1>6

\* init deletes what no commit uses.
LEMMA InitDeleterSpare ==
  ASSUME NEW x, IsDir(x.files), NEW segs
  PROVE  Counted(InitDeleter(x, segs)) /\ Spare(InitDeleter(x, segs)) = {}
<1> DEFINE d == x.files
           gens == GenerationsIn(d)
           c == Cardinality(gens)
           up == Ascending(gens)
           commits == [i \in 1..c |-> CommitPoint(up[i], d[Segments(up[i])].val.segs)]
           known == DOMAIN d \cup UNION {commits[i].files : i \in DOMAIN commits}
           rc == [f \in known |-> InCommits(commits, f)]
           loaded == [files |-> d, journal |-> x.journal, rc |-> rc, commits |-> commits, last |-> {}]
           F == {f \in known : loaded.rc[f] = 0}
           cleaned == DeleteFiles(loaded, F)
<1>1. InitDeleter(x, segs) = DeleteCommits(Checkpoint(cleaned, segs))
  BY DEF InitDeleter, GenerationsIn
<1>2. gens \in SUBSET Nat /\ IsFiniteSet(gens)
  BY GenerationsFinite
<1> HIDE DEF gens
<1>3. c \in Nat
  BY <1>2, FS_CardinalityType
<1> HIDE DEF c, up
<1>4. DOMAIN commits = 1..c
  OBVIOUS
<1>5. IsSequence(commits)
  <2> DEFINE T == {commits[i] : i \in 1..c}
  <2>1. commits \in [1..c -> T] /\ c \in Nat
    BY <1>3
  <2> HIDE DEF commits, T
  <2>2. commits \in Seq(T)
    BY <2>1
  <2> QED
    BY <2>2 DEF IsSequence
<1> HIDE DEF commits
<1>6. ASSUME NEW f PROVE InCommits(commits, f) \in Nat
  <2> DEFINE I == {i \in DOMAIN commits : f \in commits[i].files}
  <2>1. I \subseteq 1..c
    BY <1>4
  <2>2. InCommits(commits, f) = Cardinality(I)
    BY DEF InCommits
  <2> HIDE DEF I
  <2>3. IsFiniteSet(1..c)
    BY <1>3, FS_Interval
  <2>4. IsFiniteSet(I)
    BY <2>1, <2>3, FS_Subset
  <2> QED
    BY <2>2, <2>4, FS_CardinalityType
<1>7. DOMAIN rc = known /\ \A f \in known : rc[f] \in Nat
  BY <1>6
<1>8. DOMAIN d \subseteq known
  OBVIOUS
<1> HIDE DEF rc, known
<1>9. IsRec(loaded) /\ loaded.rc = rc /\ loaded.commits = commits /\ loaded.files = d
  BY DEF IsRec
<1>10. \A f \in known : f \in F <=> rc[f] = 0
  BY <1>9
<1> HIDE DEF loaded, F
<1>11. Counted(loaded)
  BY <1>7, <1>9 DEF Counted
<1>12. Counted(cleaned) /\ cleaned.rc = rc /\ cleaned.commits = commits /\ Spare(cleaned) = Spare(loaded) \ F
  BY <1>9, <1>11, DeleteSpare
<1> HIDE DEF cleaned
<1>13. Spare(cleaned) = {}
  BY <1>7, <1>8, <1>9, <1>10, <1>12 DEF Spare, Count
<1>14. \A f : Count(cleaned, f) \in Nat
  BY <1>7, <1>12 DEF Count
<1> DEFINE y == Checkpoint(cleaned, segs)
<1>15. Counted(y) /\ y.commits = commits /\ Spare(y) \subseteq Spare(cleaned)
  BY <1>12, <1>14, CheckpointSpare
<1> HIDE DEF y
<1>16. Counted(DeleteCommits(y)) /\ Spare(DeleteCommits(y)) \subseteq Spare(y)
  BY <1>5, <1>15, DeleteCommitsSpare
<1> QED
  BY <1>1, <1>13, <1>15, <1>16 DEF y

\* A writer that is not closed leaves no file uncounted but those of commits and of the segments it
\* builds.
Tidy(x, b) == Counted(x) /\ \A f \in Spare(x) : IsCommitFile(f) \/ \E s \in b : f = Core(s)
WantedInv == Inv /\ (NotClosed => Tidy(store, building))

\* What is held is counted.
LEMMA HeldCounted ==
  ASSUME Inv', NotClosed'
  PROVE  \A f \in FilesOf(infos'.segs) : f \notin Spare(store')
<1>1. Writer(store, acked, infos, building, pc, toCommit, filesToCommit, reader)'
  BY DEF Inv
<1> DEFINE x == store'
           i == infos'
           a == acked'
           b == building'
           p == pc'
           t == toCommit'
           C == filesToCommit'
           R == reader'
<1>2. Writer(x, a, i, b, p, t, C, R)
  BY <1>1
<1> HIDE DEF x, i, a, b, p, t, C, R
<1>3. Consistent(x, a, 0, x.last, C, R, {}) /\ x.last = FilesOf(i.segs)
  BY <1>2, WriterFacts
<1>4. \A f \in x.last : Count(x, f) # 0
  BY <1>3, CountFacts
<1> QED
  BY <1>3, <1>4 DEF Spare, x, i

\* The spare files of a step are those before it, or files of commits or of the segments.
LEMMA KeepsTidy ==
  ASSUME Inv', NotClosed', Tidy(store, building), Counted(store'),
         \A f \in Spare(store') : \/ f \in Spare(store) \/ IsCommitFile(f) \/ f \in FilesOf(infos'.segs)
                                  \/ \E s \in building' : f = Core(s),
         \A s \in building \ building' : Core(s) \in FilesOf(infos'.segs) \/ Core(s) \notin Spare(store')
  PROVE  Tidy(store', building')
<1>1. ASSUME NEW f \in Spare(store') PROVE IsCommitFile(f) \/ \E s \in building' : f = Core(s)
  <2>1. f \notin FilesOf(infos'.segs)
    BY HeldCounted
  <2>2. CASE f \in Spare(store)
    <3>1. IsCommitFile(f) \/ \E s \in building : f = Core(s)
      BY <2>2 DEF Tidy
    <3> QED
      BY <2>1, <3>1
  <2> QED
    BY <2>1, <2>2
<1> QED
  BY <1>1 DEF Tidy

\* The store of an open writer.
LEMMA OpenCounts ==
  ASSUME WantedInv, NotClosed
  PROVE  /\ Tidy(store, building) /\ Counted(store) /\ (\A f : Count(store, f) \in Nat)
         /\ IsSequence(store.commits) /\ IsRecord(infos) /\ IsInfos(infos)
         /\ Writer(store, acked, infos, building, pc, toCommit, filesToCommit, reader)
<1>1. /\ Writer(store, acked, infos, building, pc, toCommit, filesToCommit, reader)
      /\ IsRecord(infos) /\ IsInfos(infos)
  BY InvFacts DEF WantedInv
<1>2. IsStore(store) /\ \A f : Count(store, f) \in Nat
  BY <1>1, WriterFacts
<1>3. IsSequence(store.commits)
  BY <1>2 DEF IsStore
<1>4. Tidy(store, building) /\ Counted(store)
  BY DEF WantedInv, Tidy
<1> QED
  BY <1>1, <1>2, <1>3, <1>4

\* check_point, of segments that were built or were there.
LEMMA CheckPointTidy ==
  ASSUME WantedInv, NotClosed, Inv', NotClosed', NEW x, Counted(x), x.rc = store.rc, NEW v, CheckPoint(x, v),
         \A f \in Spare(x) : f \in Spare(store) \/ f \in FilesOf(v),
         \A s \in building \ building' : s \in DOMAIN v
  PROVE  Tidy(store', building')
<1>1. Tidy(store, building) /\ IsRecord(infos) /\ \A f : Count(store, f) \in Nat
  BY OpenCounts
<1>2. \A f : Count(x, f) \in Nat
  BY <1>1 DEF Count
<1>3. infos' = [infos EXCEPT !.segs = v] /\ store' = Checkpoint(x, v)
  BY DEF CheckPoint
<1>4. infos'.segs = v
  BY <1>1, <1>3, SetSegs DEF SetTo
<1>5. Counted(store') /\ Spare(store') \subseteq Spare(x)
  BY <1>2, <1>3, CheckpointSpare
<1>6. \A s \in building \ building' : Core(s) \in FilesOf(v)
  BY FilesOfAre
<1>7. \A f \in Spare(store') : f \in Spare(store) \/ f \in FilesOf(infos'.segs)
  BY <1>4, <1>5
<1> QED
  BY <1>1, <1>4, <1>5, <1>6, <1>7, KeepsTidy

LEMMA ChangesTidy ==
  ASSUME WantedInv, Inv', NEW s, NEW S,
         \/ Publish(s) \/ DiscardSegment(s) \/ ApplyDeletes(s) \/ DropSegment(s) \/ CommitMerge(s, S)
  PROVE  Tidy(store', building')
<1>1. NotClosed /\ UNCHANGED life
  BY DEF Publish, DiscardSegment, ApplyDeletes, DropSegment, CommitMerge
<1>2. NotClosed'
  BY <1>1 DEF NotClosed
<1>3. Tidy(store, building) /\ Counted(store)
  BY <1>1, OpenCounts
<1>4. ASSUME NEW v, CheckPoint(store, v), \A u \in building \ building' : u \in DOMAIN v
      PROVE  Tidy(store', building')
  BY <1>1, <1>2, <1>3, <1>4, CheckPointTidy
<1>5. \A v : s \in DOMAIN With(v, s)
  BY DEF With
<1>6. CASE Publish(s)
  <2>1. CheckPoint(store, With(infos.segs, s)) /\ building' = building \ {s}
    BY <1>6 DEF Publish
  <2>2. \A u \in building \ building' : u = s
    BY <2>1
  <2> QED
    BY <2>1, <2>2, <1>4, <1>5
<1>7. CASE DiscardSegment(s)
  <2> DEFINE F == {f \in {Core(s)} : Count(store, f) = 0}
  <2>1. store' = DeleteFiles(store, F) /\ building' = building \ {s}
    BY <1>7 DEF DiscardSegment, DeleteNewFiles
  <2>2. Core(s) \in Spare(store) => Core(s) \in F
    BY DEF Spare
  <2> HIDE DEF F
  <2>3. Counted(store') /\ Spare(store') = Spare(store) \ F
    BY <2>1, <1>3, DeleteSpare
  <2>4. \A u \in building \ building' : Core(u) \notin Spare(store')
    BY <2>1, <2>2, <2>3
  <2> QED
    BY <1>2, <1>3, <2>3, <2>4, KeepsTidy
<1>8. CASE ApplyDeletes(s)
  <2>1. CheckPoint(store, infos.segs) /\ building' = building
    BY <1>8 DEF ApplyDeletes
  <2> QED
    BY <2>1, <1>4
<1>9. CASE DropSegment(s)
  <2>1. CheckPoint(store, Without(infos.segs, {s})) /\ building' = building
    BY <1>9 DEF DropSegment
  <2> QED
    BY <2>1, <1>4
<1>10. CASE CommitMerge(s, S)
  <2>1. CheckPoint(store, With(Without(infos.segs, S), s)) /\ building' = building \ {s}
    BY <1>10 DEF CommitMerge
  <2>2. \A u \in building \ building' : u = s
    BY <2>1
  <2> QED
    BY <2>1, <2>2, <1>4, <1>5
<1> QED
  BY <1>6, <1>7, <1>8, <1>9, <1>10

LEMMA UpdateDocValuesTidy ==
  ASSUME WantedInv, Inv', NEW s, UpdateDocValues(s)
  PROVE  Tidy(store', building')
<1> DEFINE w == infos.segs
           g == w[s].nextDv
           v == [w EXCEPT ![s].dv = g, ![s].nextDv = g + 1]
           F == {Dv(s, g)}
           x == Create(store, F, NoSegments)
<1>1. /\ NotClosed /\ s \in DOMAIN w /\ CheckPoint(x, v) /\ building' = building /\ UNCHANGED life
  BY DEF UpdateDocValues
<1>2. NotClosed'
  BY <1>1 DEF NotClosed
<1>3. /\ Counted(store) /\ IsSegs(w)
      /\ FreshFiles(store.files, infos)
  BY <1>1, OpenCounts, WriterFacts DEF IsInfos
<1>4. g \in Nat /\ w[s].dv \in Nat /\ w[s].dv < g
  BY <1>1, <1>3 DEF IsSegs, Entries, FreshFiles
<1>5. /\ DOMAIN v = DOMAIN w /\ \A u \in DOMAIN w : u # s => v[u] = w[u]
      /\ v[s] \in Entries /\ v[s].del = w[s].del /\ v[s].nextDel = w[s].nextDel
      /\ v[s].dv = g /\ v[s].nextDv = g + 1
  <2>1. s \in DOMAIN w /\ IsSegs(w)
    BY <1>1, <1>3
  <2> QED
    BY <2>1, UpdatedSegs
<1> HIDE DEF v
<1>6. F \subseteq FilesOf(v)
  BY <1>1, <1>4, <1>5, FilesOfAre
<1> HIDE DEF F, w, g
<1>7. Counted(x) /\ x.rc = store.rc /\ Spare(x) \subseteq Spare(store) \cup F
  BY <1>3, DirectorySpare
<1> HIDE DEF x
<1> QED
  BY <1>1, <1>2, <1>6, <1>7, CheckPointTidy

LEMMA SnapshotTidy ==
  ASSUME WantedInv, Inv', Snapshot
  PROVE  Tidy(store', building')
<1> DEFINE w == infos.segs
           v == AdvanceDelGen(w, deletes)
           F == {Live(s, w[s].nextDel) : s \in deletes}
           z == Create(store, F, NoSegments)
           written == Checkpoint(WriteLiveDocs(store, w, deletes), v)
           x == IF deletes = {} THEN store ELSE written
<1>1. /\ NotClosed /\ infos' = [infos EXCEPT !.segs = v] /\ store' = IncRefFiles(x, FilesOf(v))
      /\ building' = building /\ UNCHANGED life
  BY DEF Snapshot
<1>2. NotClosed'
  BY <1>1 DEF NotClosed
<1>3. /\ Tidy(store, building) /\ Counted(store) /\ (\A f : Count(store, f) \in Nat)
      /\ IsRecord(infos) /\ IsInfos(infos)
      /\ Writer(store, acked, infos, building, pc, toCommit, filesToCommit, reader)
      /\ FreshFiles(store.files, infos) /\ deletes \subseteq DOMAIN w /\ IsSegs(w)
      /\ building \subseteq Nat /\ toCommit.counter \in Nat
  <2>1. /\ Tidy(store, building) /\ Counted(store) /\ (\A f : Count(store, f) \in Nat)
        /\ Writer(store, acked, infos, building, pc, toCommit, filesToCommit, reader)
    BY <1>1, OpenCounts
  <2>2. /\ IsRecord(infos) /\ IsInfos(infos) /\ deletes \subseteq DOMAIN w /\ building \subseteq Nat
        /\ IsInfos(toCommit)
    BY <1>1, InvFacts DEF WantedInv
  <2>3. FreshFiles(store.files, infos)
    BY <2>1, WriterFacts
  <2> QED
    BY <2>1, <2>2, <2>3 DEF IsInfos
<1>4. /\ DOMAIN v = DOMAIN w
      /\ \A s \in DOMAIN w : s \in deletes =>
            /\ v[s] \in Entries /\ v[s].dv = w[s].dv /\ v[s].nextDv = w[s].nextDv
            /\ v[s].del = w[s].nextDel /\ v[s].nextDel = w[s].nextDel + 1
  BY <1>3, AdvancedSegs
<1>5. F \subseteq FilesOf(v)
  <2> SUFFICES ASSUME NEW s \in deletes PROVE Live(s, w[s].nextDel) \in FilesOf(v)
    OBVIOUS
  <2>1. w[s].del \in Nat /\ w[s].nextDel \in Nat /\ w[s].del < w[s].nextDel /\ s \in DOMAIN w
    BY <1>3 DEF IsSegs, Entries, FreshFiles
  <2>2. v[s].del = w[s].nextDel /\ s \in DOMAIN v
    BY <1>4, <2>1
  <2> HIDE DEF v
  <2> QED
    BY <2>1, <2>2, FilesOfAre
<1>6. infos'.segs = v
  BY <1>1, <1>3, SetSegs DEF SetTo
<1>7. WriteLiveDocs(store, w, deletes) = z
  BY DEF WriteLiveDocs
<1>8. /\ Counted(x) /\ (\A f : Count(x, f) \in Nat) /\ Spare(x) \subseteq Spare(store) \cup F
  <2>1. CASE deletes = {}
    BY <2>1, <1>3
  <2>2. CASE deletes # {}
    <3>1. Counted(z) /\ z.rc = store.rc /\ Spare(z) \subseteq Spare(store) \cup F
      BY <1>3, DirectorySpare
    <3>2. \A f : Count(z, f) \in Nat
      BY <1>3, <3>1 DEF Count
    <3>3. written = Checkpoint(z, v) /\ x = written
      BY <1>7, <2>2
    <3>4. \E j : Writer(written, acked, j, building, pc, toCommit, filesToCommit, reader)
      BY <1>3, LiveDocsWriter
    <3> HIDE DEF z, v, x, written, F
    <3>5. \A f : Count(written, f) \in Nat
      BY <3>4, WriterFacts
    <3>6. Counted(written) /\ Spare(written) \subseteq Spare(z)
      BY <3>1, <3>2, <3>3, CheckpointSpare
    <3> QED
      BY <3>1, <3>3, <3>5, <3>6
  <2> QED
    BY <2>1, <2>2
<1> HIDE DEF x, v, F
<1>9. Counted(store') /\ Spare(store') \subseteq Spare(x)
  BY <1>1, <1>8, IncRefSpare
<1> QED
  BY <1>1, <1>2, <1>3, <1>5, <1>6, <1>8, <1>9, KeepsTidy

LEMMA CommitTidy ==
  ASSUME WantedInv, Inv', CommitStep
  PROVE  Tidy(store', building')
<1>1. pc # "idle"
  BY DEF CommitStep, Prepare, PrepareFails, SyncFiles, SyncFails, RenamePending, FinishCommitFails, Complete
<1>2. NotClosed
  BY <1>1 DEF WantedInv, Inv
<1>3. /\ Tidy(store, building) /\ Counted(store) /\ (\A f : Count(store, f) \in Nat)
      /\ IsSequence(store.commits)
  BY <1>2, OpenCounts
<1>4. \A n : IsCommitFile(Pending(n)) /\ IsCommitFile(Segments(n))
  BY DEF IsCommitFile, Pending, Segments
<1>5. ASSUME NotClosed', Counted(store'), building' = building,
             \A f \in Spare(store') : f \in Spare(store) \/ IsCommitFile(f)
      PROVE  Tidy(store', building')
  BY <1>3, <1>5, KeepsTidy
<1>6. CASE Prepare
  <2>1. UNCHANGED life /\ building' = building
    BY <1>6 DEF Prepare
  <2>2. NotClosed'
    BY <2>1, <1>2 DEF NotClosed
  <2>3. CASE NoChangesPending
    <3>1. store' = DecRefFiles(store, filesToCommit)
      BY <1>6, <2>3 DEF Prepare
    <3>2. Counted(store') /\ Spare(store') \subseteq Spare(store)
      BY <3>1, <1>3, DecRefSpare
    <3> QED
      BY <2>1, <2>2, <3>2, <1>5
  <2>4. CASE ~ NoChangesPending
    <3> DEFINE F == {Pending(toCommit.gen + 1)}
               z == Create(store, F, toCommit)
    <3>1. store' = Sync(z, F)
      BY <1>6, <2>4 DEF Prepare
    <3>2. Counted(z) /\ Spare(z) \subseteq Spare(store) \cup F
      BY <1>3, DirectorySpare
    <3> HIDE DEF z
    <3>3. Counted(store') /\ Spare(store') \subseteq Spare(z)
      BY <3>1, <3>2, DirectorySpare
    <3> QED
      BY <2>1, <2>2, <3>2, <3>3, <1>4, <1>5
  <2> QED
    BY <2>3, <2>4
<1>7. ASSUME NEW p, NEW m, NEW n, StartCommitFails(p, m, n) PROVE Tidy(store', building')
  <2> DEFINE z == DeleteFiles(store, p)
  <2>1. store' = DecRefFiles(z, filesToCommit) /\ life' = "closing" /\ building' = building
    BY <1>7 DEF StartCommitFails
  <2>2. Counted(z) /\ Spare(z) = Spare(store) \ p
    BY <1>3, DeleteSpare
  <2> HIDE DEF z
  <2>3. Counted(store') /\ Spare(store') \subseteq Spare(z)
    BY <2>1, <2>2, DecRefSpare
  <2>4. NotClosed'
    BY <2>1 DEF NotClosed
  <2> QED
    BY <2>1, <2>2, <2>3, <2>4, <1>5
<1>8. PrepareFails \/ SyncFails => \E p, m, n : StartCommitFails(p, m, n)
  BY DEF PrepareFails, SyncFails
<1>9. CASE SyncFiles
  <2>1. store' = Sync(store, FilesOf(toCommit.segs)) /\ UNCHANGED life /\ building' = building
    BY <1>9 DEF SyncFiles
  <2>2. NotClosed'
    BY <2>1, <1>2 DEF NotClosed
  <2>3. Counted(store') /\ Spare(store') \subseteq Spare(store)
    BY <2>1, <1>3, DirectorySpare
  <2> QED
    BY <2>1, <2>2, <2>3, <1>5
<1>10. CASE RenamePending
  <2>1. store' = Rename(store, toCommit.gen) /\ UNCHANGED life /\ building' = building
    BY <1>10 DEF RenamePending
  <2>2. NotClosed'
    BY <2>1, <1>2 DEF NotClosed
  <2>3. Counted(store') /\ Spare(store') \subseteq Spare(store) \cup {Segments(toCommit.gen)}
    BY <2>1, <1>3, DirectorySpare
  <2> QED
    BY <2>1, <2>2, <2>3, <1>4, <1>5
<1>11. CASE FinishCommitFails
  <2> DEFINE z == DeleteFiles(store, {Pending(toCommit.gen)})
  <2>1. store' = DecRefFiles(z, filesToCommit) /\ UNCHANGED life /\ building' = building
    BY <1>11 DEF FinishCommitFails
  <2>2. Counted(z) /\ Spare(z) \subseteq Spare(store)
    BY <1>3, DeleteSpare
  <2> HIDE DEF z
  <2>3. Counted(store') /\ Spare(store') \subseteq Spare(z)
    BY <2>1, <2>2, DecRefSpare
  <2>4. NotClosed'
    BY <2>1, <1>2 DEF NotClosed
  <2> QED
    BY <2>1, <2>2, <2>3, <2>4, <1>5
<1>12. CASE Complete
  <2> DEFINE z == SyncMetaData(store)
             w == CommitCheckpoint(z, toCommit.gen, toCommit.segs)
  <2>1. store' = DecRefFiles(w, filesToCommit) /\ UNCHANGED life /\ building' = building
    BY <1>12 DEF Complete
  <2>2. Counted(z) /\ z.rc = store.rc /\ z.commits = store.commits /\ Spare(z) \subseteq Spare(store)
    BY <1>3, DirectorySpare
  <2> HIDE DEF z
  <2>3. \A f : Count(z, f) \in Nat
    BY <1>3, <2>2 DEF Count
  <2>4. Counted(w) /\ Spare(w) \subseteq Spare(z)
    BY <1>3, <2>2, <2>3, CommitCheckpointSpare
  <2> HIDE DEF w
  <2>5. Counted(store') /\ Spare(store') \subseteq Spare(w)
    BY <2>1, <2>4, DecRefSpare
  <2>6. NotClosed'
    BY <2>1, <1>2 DEF NotClosed
  <2> QED
    BY <2>1, <2>2, <2>4, <2>5, <2>6, <1>5
<1> QED
  BY <1>6, <1>7, <1>8, <1>9, <1>10, <1>11, <1>12 DEF CommitStep

LEMMA NextWanted ==
  ASSUME WantedInv, [Next]_vars, "meta" \notin Failing
  PROVE  WantedInv'
<1>1. Inv' /\ Inv
  BY NextInv DEF WantedInv
<1>2. CASE UNCHANGED vars
  <2>1. UNCHANGED <<store, life, building>>
    BY <1>2 DEF vars
  <2> QED
    BY <1>1, <2>1 DEF WantedInv, NotClosed
<1>3. ASSUME Next, NotClosed' PROVE Tidy(store', building')
  <2>1. CASE Open
    <3>1. (\E v : store' = InitDeleter(store, v)) /\ building' = {}
      BY <2>1 DEF Open
    <3>2. IsDir(store.files)
      BY <1>1 DEF Inv, IsStore
    <3>3. Counted(store') /\ Spare(store') = {}
      BY <3>1, <3>2, InitDeleterSpare
    <3> QED
      BY <3>3 DEF Tidy
  <2>2. CASE WriteSegment
    <3> DEFINE F == {Core(infos.counter)}
    <3>1. /\ NotClosed /\ store' = Create(store, F, NoSegments) /\ building' = building \cup {infos.counter}
      BY <2>2 DEF WriteSegment, NotClosed
    <3>2. Tidy(store, building) /\ Counted(store)
      BY <3>1, OpenCounts
    <3>3. Counted(store') /\ Spare(store') \subseteq Spare(store) \cup F
      BY <3>1, <3>2, DirectorySpare
    <3>4. \A f \in Spare(store') : f \in Spare(store) \/ \E s \in building' : f = Core(s)
      BY <3>1, <3>3
    <3> QED
      BY <1>1, <1>3, <3>1, <3>2, <3>3, <3>4, KeepsTidy
  <2>3. CASE DeleteAll
    <3>1. NotClosed /\ CheckPoint(store, NoSegments) /\ building' = building
      BY <2>3 DEF DeleteAll, NotClosed
    <3>2. Counted(store)
      BY <3>1, OpenCounts
    <3> QED
      BY <1>1, <1>3, <3>1, <3>2, CheckPointTidy
  <2>4. CASE OpenReader
    <3>1. NotClosed /\ (\E F : store' = IncRefFiles(store, F)) /\ building' = building
      BY <2>4 DEF OpenReader, NotClosed
    <3>2. Tidy(store, building) /\ Counted(store) /\ \A f : Count(store, f) \in Nat
      BY <3>1, OpenCounts
    <3>3. Counted(store') /\ Spare(store') \subseteq Spare(store)
      BY <3>1, <3>2, IncRefSpare
    <3> QED
      BY <1>1, <1>3, <3>1, <3>2, <3>3, KeepsTidy
  <2>5. CASE CloseReader
    <3>1. NotClosed /\ store' = DecRefFiles(store, reader) /\ building' = building
      BY <2>5 DEF CloseReader, NotClosed
    <3>2. Tidy(store, building) /\ Counted(store)
      BY <3>1, OpenCounts
    <3>3. Counted(store') /\ Spare(store') \subseteq Spare(store)
      BY <3>1, <3>2, DecRefSpare
    <3> QED
      BY <1>1, <1>3, <3>1, <3>2, <3>3, KeepsTidy
  <2>6. CASE BeginRollback
    <3>1. NotClosed /\ store' = store /\ building' = building
      BY <2>6 DEF BeginRollback, NotClosed
    <3> QED
      BY <3>1, OpenCounts
  <2>7. ~ (Rollback \/ Crash)
    BY <1>3 DEF Rollback, Crash, NotClosed
  <2> QED
    BY <1>1, <1>3, <2>1, <2>2, <2>3, <2>4, <2>5, <2>6, <2>7, ChangesTidy, UpdateDocValuesTidy, SnapshotTidy,
       CommitTidy DEF Next
<1> QED
  BY <1>1, <1>2, <1>3 DEF WantedInv

\* While a writer runs, each file of the directory is one that somebody uses: it is counted, or of a
\* segment being built, or it is the pending_segments_N or the segments_N of the commit under way.  So
\* neither a failed write, sync or rename (rollback_commit), nor a merge or a flush that was given up
\* (delete_new_files), nor a reader, nor what a crash has left (init) makes a file that stays.
THEOREM FilesWantedCorrect ==
  ASSUME "meta" \notin Failing
  PROVE  Spec => []FilesWanted
<1>1. Init => WantedInv
  <2>1. Init => ~ NotClosed
    BY DEF Init, NotClosed
  <2> QED
    BY <2>1, InitInv DEF WantedInv
<1>2. WantedInv /\ [Next]_vars => WantedInv'
  BY NextWanted
<1>3. WantedInv => FilesWanted
  <2> SUFFICES ASSUME WantedInv, NotClosed, NEW f \in DOMAIN store.files, ~ (Count(store, f) > 0),
                      ~ (\E s \in building : f = Core(s))
               PROVE  \/ pc \in {"prepared", "synced"} /\ f = Pending(toCommit.gen)
                      \/ pc = "renamed" /\ f = Segments(toCommit.gen)
    BY DEF FilesWanted
  <2>1. /\ Writer(store, acked, infos, building, pc, toCommit, filesToCommit, reader)
        /\ Count(store, f) \in Nat /\ Tidy(store, building)
    BY OpenCounts
  <2>2. Count(store, f) = 0
    BY <2>1
  <2>3. IsCommitFile(f)
    BY <2>1, <2>2 DEF Tidy, Spare
  <2>4. /\ GensPhase(store, infos, pc, toCommit) /\ IsDir(store.files) /\ Good(store.files)
        /\ Consistent(store, acked, 0, store.last, filesToCommit, reader, {})
        /\ Covered(store, 0, RenamedGen(pc, toCommit), filesToCommit, {})
    BY <2>1, WriterFacts DEF Phase, Deleter
  <2>5. CASE f[1] = "pending_segments"
    BY <2>4, <2>5 DEF GensPhase
  <2>6. CASE f[1] # "pending_segments"
    <3>1. PICK n \in GenerationsIn(store.files) : f = Segments(n)
      BY <2>3, <2>4, <2>6, FileFacts, GenerationsAre DEF IsDir, IsCommitFile, IsSegments
    <3>2. n # 0
      BY <2>4 DEF Good
    <3>3. ASSUME NEW k \in 0 + 1..Len(store.commits), store.commits[k].gen = n PROVE FALSE
      <4>1. f \in store.commits[k].files
        BY <2>4, <3>1, <3>3 DEF Consistent, IsPoint
      <4> QED
        BY <2>2, <2>4, <4>1, CountFacts
    <3>4. n = RenamedGen(pc, toCommit)
      BY <2>4, <3>3 DEF Covered
    <3> QED
      BY <3>1, <3>2, <3>4 DEF RenamedGen
  <2> QED
    BY <2>5, <2>6
<1> QED
  BY <1>1, <1>2, <1>3, PTL DEF Spec
=============================================================================
