----------------------------- MODULE IndexFiles -----------------------------
(***************************************************************************)
(* The files of an index, and the operations on them of the Directory      *)
(* (FSDirectory) and of the IndexFileDeleter: pure operators on a store.   *)
(*                                                                         *)
(* A file is a triple: the files of segment s as it was flushed or merged  *)
(* are one file Core(s); each generation of its live docs and of its       *)
(* doc-values updates (with their field infos) is a file of its own.       *)
(* pending_segments_N and segments_N hold a copy of a SegmentInfos.        *)
(*                                                                         *)
(* A store has                                                             *)
(*   files    what the directory lists, with the state of each file:       *)
(*            "dirty" (written), "synced", or "torn" by a crash            *)
(*   journal  the renames and deletes the file system may still lose, in   *)
(*            order: the names each one added and the files it removed     *)
(*   rc       ref_counts of the deleter                                    *)
(*   commits  its commits, oldest first                                    *)
(*   last     its last_files                                               *)
(***************************************************************************)
EXTENDS Integers, Sequences, FiniteSets, SequencesExt

CONSTANTS
  MaxJournal,  \* bound: renames and deletes not yet on disk
  WriteRadix,  \* the base of the generation in a file name (36, to_base36)
  ReadRadix    \* the base parse_generation reads it in (10, str::parse)

ASSUME MaxJournalAssumption == MaxJournal \in Nat
ASSUME RadixAssumption ==
  WriteRadix \in Nat /\ ReadRadix \in Nat /\ 1 < ReadRadix /\ ReadRadix <= WriteRadix

Core(s) == <<"core", s, 0>>
Live(s, g) == <<"liv", s, g>>
Dv(s, g) == <<"dv", s, g>>
Pending(n) == <<"pending_segments", n, 0>>
Segments(n) == <<"segments", n, 0>>

IsSegments(f) == f[1] = "segments"
IsCommitFile(f) == f[1] \in {"segments", "pending_segments"}

\* A SegmentCommitInfo: the generation of its live docs and of its updates
\* (0: none, -1 in the code), and the ones its next write will use.
NewSegment == [del |-> 0, nextDel |-> 1, dv |-> 0, nextDv |-> 1]

\* SegmentCommitInfo::files
SegmentFiles(s, i) ==
  {Core(s)} \cup (IF i.del > 0 THEN {Live(s, i.del)} ELSE {})
            \cup (IF i.dv > 0 THEN {Dv(s, i.dv)} ELSE {})

\* SegmentInfos::files(false)
FilesOf(segs) == UNION {SegmentFiles(s, segs[s]) : s \in DOMAIN segs}

HasDvUpdates(segs) == \E s \in DOMAIN segs : segs[s].dv > 0

\* parse_generation on the name of a file of generation g: each digit of base
\* WriteRadix is read as one of base ReadRadix, and a letter is an error (-1).
ParseGeneration[g \in Nat] ==
  LET digit == g % WriteRadix
      rest == ParseGeneration[g \div WriteRadix]
  IN CASE g = 0 -> 0
       [] g > 0 /\ (digit >= ReadRadix \/ rest = -1) -> -1
       [] OTHER -> rest * ReadRadix + digit

-----------------------------------------------------------------------------
(* Directory *)

\* create_output of each file of F, and writing v to it.
Create(x, F, v) ==
  [x EXCEPT !.files =
     [f \in DOMAIN @ \cup F |->
        IF f \in F THEN [st |-> "dirty", val |-> v] ELSE @[f]]]

Sync(x, F) ==
  [x EXCEPT !.files =
     [f \in DOMAIN @ |-> IF f \in F THEN [@[f] EXCEPT !.st = "synced"]
                                    ELSE @[f]]]

\* One more entry of the journal, as the oldest one reaches the disk.
Journal(j, e) ==
  LET all == Append(j, e)
  IN SubSeq(all, Max({1, Len(all) - MaxJournal + 1}), Len(all))

\* delete_file on each file of F, in no particular order.  The delete of a
\* file that was never synced needs no entry: a crash may lose it anyway.
Unlink(x, F) ==
  LET gone == {f \in F \cap DOMAIN x.files : x.files[f].st = "synced"}
  IN [x EXCEPT !.files = Restrict(@, DOMAIN @ \ F),
               !.journal = IF gone = {} THEN @
                           ELSE Journal(@, [new |-> {},
                                            old |-> Restrict(x.files, gone)])]

\* rename of pending_segments_n to segments_n
Rename(x, n) ==
  LET gone == {Pending(n), Segments(n)} \cap DOMAIN x.files
  IN [x EXCEPT !.files =
        [f \in (DOMAIN @ \ gone) \cup {Segments(n)} |->
           IF f = Segments(n) THEN @[Pending(n)] ELSE @[f]],
               !.journal = Journal(@, [new |-> {Segments(n)},
                                       old |-> Restrict(x.files, gone)])]

\* Mutant: the directory is not synced.
SyncMetaData_Skipped(x) == x

\* sync_meta_data: the renames and deletes so far are on disk.
SyncMetaData(x) == [x EXCEPT !.journal = <<>>]

\* The names that the step of entry e added or removed.
Touched(e) == e.new \cup DOMAIN e.old

\* The directory after the first k entries of the journal: a file that a later
\* entry touched is as it was before the first of them.
Rewound(x, k) ==
  LET later(f) == {i \in k + 1..Len(x.journal) : f \in Touched(x.journal[i])}
      then(f) == IF later(f) = {} THEN x.files ELSE x.journal[Min(later(f))].old
      known == DOMAIN x.files
                 \cup UNION {DOMAIN x.journal[i].old : i \in 1..Len(x.journal)}
  IN [f \in {g \in known : g \in DOMAIN then(g)} |-> then(f)[f]]

\* The same with the files S back that the k-th entry deleted.
RewoundInPart(x, k, S) ==
  [f \in DOMAIN Rewound(x, k) \cup S |->
     IF f \in S THEN x.journal[k].old[f] ELSE Rewound(x, k)[f]]

\* What of the journal may be on disk: the first k entries, the last of them,
\* if it deleted files, in part.
OnDisk(x) ==
  {Rewound(x, k) : k \in 0..Len(x.journal)}
    \cup UNION {{RewoundInPart(x, k, S) : S \in SUBSET DOMAIN x.journal[k].old} :
                  k \in {i \in 1..Len(x.journal) : x.journal[i].new = {}}}

\* What a crash may leave of a directory on disk: a file that was not synced
\* is lost or torn.
Torn(files) ==
  LET dirty == {f \in DOMAIN files : files[f].st = "dirty"}
  IN {[f \in DOMAIN files \ lost |->
         IF f \in dirty THEN [files[f] EXCEPT !.st = "torn"] ELSE files[f]] :
        lost \in SUBSET dirty}

AfterCrash(x) == UNION {Torn(files) : files \in OnDisk(x)}

-----------------------------------------------------------------------------
(* IndexFileDeleter *)

Count(x, f) == IF f \in DOMAIN x.rc THEN x.rc[f] ELSE 0

\* Mutant: in one pass.
DeleteFiles_OnePass(x, F) == Unlink(x, F)

\* delete_files: the segments_N files first, then the rest.
DeleteFiles(x, F) ==
  LET first == {f \in F : IsSegments(f)}
  IN Unlink(Unlink(x, first), F \ first)

IncRefFiles(x, F) ==
  [x EXCEPT !.rc = [f \in DOMAIN @ \cup F |->
                      Count(x, f) + (IF f \in F THEN 1 ELSE 0)]]

DecRefFiles(x, F) ==
  LET unused == {f \in F : Count(x, f) = 1}
  IN DeleteFiles([x EXCEPT !.rc =
                    [f \in (DOMAIN @ \cup F) \ unused |->
                       Count(x, f) - (IF f \in F THEN 1 ELSE 0)]], unused)

\* KeepOnlyLastCommitDeletionPolicy keeps the last commit and, if it has
\* doc-values updates, the one before: how many it deletes.
Dropped(commits) ==
  LET n == Len(commits)
  IN IF n > 1 /\ commits[n - 1].dv THEN n - 2 ELSE Max({0, n - 1})

\* The files of the first k commits are released, one commit after the other.
Release(x, k) ==
  LET after[i \in 0..k] ==
        IF i = 0 THEN x ELSE DecRefFiles(after[i - 1], x.commits[i].files)
  IN after[k]

\* delete_commits, for the commits the policy has marked.
DeleteCommits(x) ==
  LET k == Dropped(x.commits)
  IN [Release(x, k) EXCEPT !.commits = SubSeq(@, k + 1, Len(@))]

CommitPoint(n, segs) ==
  [gen |-> n, files |-> FilesOf(segs) \cup {Segments(n)},
   dv |-> HasDvUpdates(segs)]

\* Mutant: what was in use before is released first.
Checkpoint_DecRefFirst(x, segs) ==
  [IncRefFiles(DecRefFiles(x, x.last), FilesOf(segs))
     EXCEPT !.last = FilesOf(segs)]

\* checkpoint(_, false)
Checkpoint(x, segs) ==
  [DecRefFiles(IncRefFiles(x, FilesOf(segs)), x.last)
     EXCEPT !.last = FilesOf(segs)]

\* checkpoint(_, true), of the commit with generation n.
CommitCheckpoint(x, n, segs) ==
  LET p == CommitPoint(n, segs)
  IN DeleteCommits([IncRefFiles(x, p.files) EXCEPT !.commits = Append(@, p)])

\* Deletes files that were never incref'd.
DeleteNewFiles(x, F) == DeleteFiles(x, {f \in F : Count(x, f) = 0})

\* Deletes what the directory lists and the deleter does not know.
Refresh(x) == DeleteFiles(x, DOMAIN x.files \ DOMAIN x.rc)

Close(x) == [DecRefFiles(x, x.last) EXCEPT !.last = {}]

\* How many of the commits refer to f.
InCommits(commits, f) ==
  Cardinality({i \in DOMAIN commits : f \in commits[i].files})

\* The numbers of S, in ascending order: the i-th has i - 1 below it.
Ith(S, i) == CHOOSE n \in S : Cardinality({m \in S : m < n}) = i - 1
Ascending(S) == [i \in 1..Cardinality(S) |-> Ith(S, i)]

\* Mutant: the files that no segments_N uses stay.
InitDeleter_Kept(x, segs) ==
  LET gens == {f[2] : f \in {g \in DOMAIN x.files : IsSegments(g)}}
      point(n) == CommitPoint(n, x.files[Segments(n)].val.segs)
      commits == [i \in 1..Cardinality(gens) |-> point(Ascending(gens)[i])]
      known == DOMAIN x.files \cup UNION {commits[i].files : i \in DOMAIN commits}
      loaded == [files |-> x.files, journal |-> x.journal,
                 rc |-> [f \in known |-> InCommits(commits, f)],
                 commits |-> commits, last |-> {}]
  IN DeleteCommits(Checkpoint(loaded, segs))

\* init, but for the gens it inflates: refcount what each segments_N uses,
\* delete the rest, let the policy drop commits, protect the segments segs.
InitDeleter(x, segs) ==
  LET gens == {f[2] : f \in {g \in DOMAIN x.files : IsSegments(g)}}
      point(n) == CommitPoint(n, x.files[Segments(n)].val.segs)
      commits == [i \in 1..Cardinality(gens) |-> point(Ascending(gens)[i])]
      known == DOMAIN x.files \cup UNION {commits[i].files : i \in DOMAIN commits}
      loaded == [files |-> x.files, journal |-> x.journal,
                 rc |-> [f \in known |-> InCommits(commits, f)],
                 commits |-> commits, last |-> {}]
      cleaned == DeleteFiles(loaded, {f \in known : loaded.rc[f] = 0})
  IN DeleteCommits(Checkpoint(cleaned, segs))
=============================================================================
