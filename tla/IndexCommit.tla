---------------------------- MODULE IndexCommit ----------------------------
(***************************************************************************)
(* The commits of an IndexWriter: what becomes of the files of the index   *)
(* when it is opened, flushed, merged, updated, committed in two phases,   *)
(* rolled back, and when the machine crashes.                              *)
(*                                                                         *)
(* Each action is what the code does under IndexWriterInner.lock, so other *)
(* threads come in between two actions.  A commit is made by one thread at *)
(* a time (commit_lock): its steps are Snapshot, Prepare, SyncFiles,       *)
(* RenamePending and Complete, and pc is where it is.                      *)
(***************************************************************************)
EXTENDS IndexFiles

CONSTANTS
  Failing,      \* the I/O of a commit that may fail: "write" (of
                \* pending_segments_N), "sync", "rename", "meta"
  MaxCrashes,   \* bound: crashes of the machine
  MaxSegments,  \* bound: names of segments
  MaxCommits,   \* bound: generations of commits
  MaxLive,      \* bound: generations of the live docs of a segment
  MaxDv,        \* bound: generations of its doc-values updates
  MaxReaders    \* bound: near-real-time readers

ASSUME IndexCommitAssumption ==
  /\ Failing \subseteq {"write", "sync", "rename", "meta"}
  /\ MaxCrashes \in Nat
  /\ MaxSegments \in Nat /\ MaxCommits \in Nat
  /\ MaxLive \in Nat /\ MaxDv \in Nat /\ MaxReaders \in 0..1

VARIABLES
  store,          \* the directory and the deleter (IndexFiles)
  life,           \* of the writer: "open", "closing", "closed", "crashed"
  tragedy,        \* whether the writer hit an unrecoverable error
  infos,          \* segment_infos
  rollbackSegs,   \* rollback_segments
  change,         \* change_count (now), and its value at the snapshot
                  \* (pend), both since last_commit_change_count
  building,       \* segments written and not yet in segment_infos
  deletes,        \* segments with deletes in memory (pending_delete_count)
  reader,         \* the files of the near-real-time reader
  pc,             \* where the commit is
  toCommit,       \* the SegmentInfos it writes (to_sync, pending_commit)
  filesToCommit,  \* files_to_commit
  crashes,        \* how often the machine has crashed
  acked           \* history: the generation of the last commit to succeed,
                  \* and its segments

commitVars == <<pc, toCommit, filesToCommit>>
vars == <<store, life, tragedy, infos, rollbackSegs, change, building,
          deletes, reader, commitVars, crashes, acked>>

NoSegments == [s \in {} |-> NewSegment]
NoChange == [now |-> 0, pend |-> 0]
\* A store without a deleter: the writer is gone.
Abandoned(files, journal) ==
  [files |-> files, journal |-> journal, rc |-> [f \in {} |-> 0],
   commits |-> <<>>, last |-> {}]

EmptyInfos == [segs |-> NoSegments, counter |-> 0, gen |-> 0, lastGen |-> 0]

Init ==
  /\ store = Abandoned([f \in {} |-> 0], <<>>)
  /\ life = "closed" /\ tragedy = FALSE
  /\ infos = EmptyInfos /\ rollbackSegs = NoSegments
  /\ change = NoChange
  /\ building = {} /\ deletes = {} /\ reader = {}
  /\ pc = "idle" /\ toCommit = EmptyInfos /\ filesToCommit = {}
  /\ crashes = 0 /\ acked = [gen |-> 0, segs |-> NoSegments]

\* ensure_open(false), ensure_open(true), and the lock of the writer, which
\* a commit keeps from renaming its file until it is complete.
NotClosed == life \in {"open", "closing"}
Unlocked == pc # "renamed"

-----------------------------------------------------------------------------
(* IndexWriterInner::new *)

GenerationsIn(files) ==
  {f[2] : f \in {g \in DOMAIN files : IsSegments(g)}}

\* get_last_commit_generation (-1 in the code when there is none)
LastGeneration(files) == Max({0} \cup GenerationsIn(files))

\* read_commit opens the segments a segments_N names.
Openable(files, n) ==
  \A s \in DOMAIN files[Segments(n)].val.segs :
     Core(s) \in DOMAIN files /\ files[Core(s)].st # "torn"

ReadCommit(files, n) ==
  LET v == files[Segments(n)].val
      read(i) == [i EXCEPT !.nextDel = i.del + 1, !.nextDv = i.dv + 1]
  IN [segs |-> [s \in DOMAIN v.segs |-> read(v.segs[s])],
      counter |-> v.counter, gen |-> n, lastGen |-> n]

\* inflate_gens for the next generations of segment s, and for an entry: a
\* name that parse_generation does not read is passed over.
NextGeneration(files, s) ==
  LET parsed == {ParseGeneration[f[3]] :
                   f \in {g \in DOMAIN files : ~ IsCommitFile(g) /\ g[2] = s}}
  IN 1 + Max({0} \cup {g \in parsed : g \in Nat})

Inflated(e, next) ==
  [e EXCEPT !.nextDel = Max({@, next}), !.nextDv = Max({@, next})]

\* inflate_gens: the generations that come next are beyond those it reads in
\* the names of the files.
InflateGens(i, files) ==
  LET commitGens == {f[2] : f \in {g \in DOMAIN files : IsCommitFile(g)}}
      maxName == Max({-1} \cup {f[2] : f \in {g \in DOMAIN files : ~ IsCommitFile(g)}})
  IN [segs |-> [s \in DOMAIN i.segs |->
                  Inflated(i.segs[s], NextGeneration(files, s))],
      counter |-> IF i.counter < maxName + 1 THEN maxName ELSE i.counter,
      gen |-> Max({i.gen} \cup commitGens), lastGen |-> i.lastGen]

\* A writer opened in mode CreateOrAppend.  starting_commit_deleted looks up
\* its commit by its place in the listing of the directory, i.
Open ==
  /\ life \in {"closed", "crashed"}
  /\ LET files == store.files
         gens == GenerationsIn(files)
         n == LastGeneration(files)
         read == IF n = 0 THEN EmptyInfos ELSE ReadCommit(files, n)
         sorted == Ascending(gens)
         points == [k \in 1..Len(sorted) |->
                      CommitPoint(sorted[k], files[Segments(sorted[k])].val.segs)]
     IN /\ \A g \in gens : Openable(files, g)
        /\ infos' = InflateGens(read, files)
        /\ store' = InitDeleter(store, read.segs)
        /\ rollbackSegs' = read.segs
        /\ \E i \in 1..Max({1, Len(points)}) :
             change' = [now |-> IF n = 0 \/ i <= Dropped(points) THEN 1 ELSE 0,
                        pend |-> 0]
  /\ life' = "open" /\ tragedy' = FALSE
  /\ building' = {} /\ deletes' = {} /\ reader' = {}
  /\ UNCHANGED <<commitVars, crashes, acked>>

-----------------------------------------------------------------------------
(* Changes to the index, each with its checkpoint. *)

\* changed: change_count is only compared with its earlier values, so that
\* one more than the latest of them (pend) stands for any number more.
Changed(c) == [c EXCEPT !.now = c.pend + 1]

\* check_point: new segments, and what they no longer use is deleted.
CheckPoint(x, segs) ==
  /\ infos' = [infos EXCEPT !.segs = segs]
  /\ store' = Checkpoint(x, segs)
  /\ change' = Changed(change)

\* A flush or a merge takes a name (new_segment_name) and writes its files.
WriteSegment ==
  /\ life = "open" /\ infos.counter < MaxSegments
  /\ LET s == infos.counter
     IN /\ building' = building \cup {s}
        /\ store' = Create(store, {Core(s)}, NoSegments)
  /\ infos' = [infos EXCEPT !.counter = @ + 1]
  /\ UNCHANGED <<life, tragedy, rollbackSegs, change, deletes, reader,
                 commitVars, crashes, acked>>

Without(segs, S) == Restrict(segs, DOMAIN segs \ S)
With(segs, s) == [t \in DOMAIN segs \cup {s} |->
                    IF t = s THEN NewSegment ELSE segs[t]]

\* publish_flushed_segment
Publish(s) ==
  /\ NotClosed /\ Unlocked /\ s \in building
  /\ CheckPoint(store, With(infos.segs, s))
  /\ building' = building \ {s}
  /\ UNCHANGED <<life, tragedy, rollbackSegs, deletes, reader, commitVars,
                 crashes, acked>>

\* commit_merge: s takes the place of the segments in S, with the deletes
\* that came in the meantime.
CommitMerge(s, S) ==
  /\ NotClosed /\ Unlocked /\ ~ tragedy
  /\ s \in building /\ S # {} /\ S \subseteq DOMAIN infos.segs
  /\ CheckPoint(store, With(Without(infos.segs, S), s))
  /\ building' = building \ {s}
  /\ \E carried \in SUBSET (IF MaxLive > 0 THEN {s} ELSE {}) :
       deletes' = (deletes \ S) \cup carried
  /\ UNCHANGED <<life, tragedy, rollbackSegs, reader, commitVars, crashes, acked>>

\* flush_failed, or a merge that was aborted: delete_new_files.
DiscardSegment(s) ==
  /\ NotClosed /\ Unlocked /\ s \in building
  /\ store' = DeleteNewFiles(store, {Core(s)})
  /\ building' = building \ {s}
  /\ UNCHANGED <<life, tragedy, infos, rollbackSegs, change, deletes, reader,
                 commitVars, crashes, acked>>

\* apply_all_deletes_and_update: some documents of s are deleted, in memory.
ApplyDeletes(s) ==
  /\ NotClosed /\ Unlocked
  /\ s \in DOMAIN infos.segs \ deletes /\ infos.segs[s].nextDel <= MaxLive
  /\ CheckPoint(store, infos.segs)
  /\ deletes' = deletes \cup {s}
  /\ UNCHANGED <<life, tragedy, rollbackSegs, building, reader, commitVars,
                 crashes, acked>>

\* The same when all of its documents are deleted: the segment is dropped.
DropSegment(s) ==
  /\ NotClosed /\ Unlocked /\ s \in DOMAIN infos.segs
  /\ CheckPoint(store, Without(infos.segs, {s}))
  /\ deletes' = deletes \ {s}
  /\ UNCHANGED <<life, tragedy, rollbackSegs, building, reader, commitVars,
                 crashes, acked>>

\* write_field_updates: a new generation of doc values.
UpdateDocValues(s) ==
  /\ NotClosed /\ Unlocked
  /\ s \in DOMAIN infos.segs /\ infos.segs[s].nextDv <= MaxDv
  /\ LET g == infos.segs[s].nextDv
     IN CheckPoint(Create(store, {Dv(s, g)}, NoSegments),
                   [infos.segs EXCEPT ![s].dv = g, ![s].nextDv = g + 1])
  /\ UNCHANGED <<life, tragedy, rollbackSegs, building, deletes, reader,
                 commitVars, crashes, acked>>

\* delete_all
DeleteAll ==
  /\ life = "open" /\ Unlocked /\ infos.segs # NoSegments
  /\ CheckPoint(store, NoSegments)
  /\ deletes' = {}
  /\ UNCHANGED <<life, tragedy, rollbackSegs, building, reader, commitVars,
                 crashes, acked>>

\* A near-real-time reader of the current segments: open_by_writer, and drop.
OpenReader ==
  /\ life = "open" /\ Unlocked /\ MaxReaders = 1 /\ reader = {}
  /\ infos.segs # NoSegments
  /\ reader' = FilesOf(infos.segs)
  /\ store' = IncRefFiles(store, reader')
  /\ UNCHANGED <<life, tragedy, infos, rollbackSegs, change, building,
                 deletes, commitVars, crashes, acked>>

CloseReader ==
  /\ life = "open" /\ reader # {}
  /\ store' = DecRefFiles(store, reader)
  /\ reader' = {}
  /\ UNCHANGED <<life, tragedy, infos, rollbackSegs, change, building,
                 deletes, commitVars, crashes, acked>>

-----------------------------------------------------------------------------
(* commit *)

\* write_live_docs on the segments in S: a new generation of live docs.
AdvanceDelGen(segs, S) ==
  [s \in DOMAIN segs |->
     IF s \in S THEN [segs[s] EXCEPT !.del = segs[s].nextDel, !.nextDel = @ + 1]
                ELSE segs[s]]

WriteLiveDocs(x, segs, S) ==
  Create(x, {Live(s, segs[s].nextDel) : s \in S}, NoSegments)

\* prepare_commit_internal_inner after its flush: the deletes in memory are
\* written (ReaderPool::commit), and the segments are copied.
Snapshot ==
  /\ NotClosed /\ pc = "idle" /\ ~ tragedy /\ infos.gen < MaxCommits
  /\ LET segs == AdvanceDelGen(infos.segs, deletes)
         written == Checkpoint(WriteLiveDocs(store, infos.segs, deletes), segs)
         c == IF deletes = {} THEN change ELSE Changed(change)
         count == IF c.now # 0 THEN 2 ELSE 0
     IN /\ infos' = [infos EXCEPT !.segs = segs]
        /\ toCommit' = infos'
        /\ filesToCommit' = FilesOf(segs)
        /\ store' = IncRefFiles(IF deletes = {} THEN store ELSE written,
                                FilesOf(segs))
        /\ change' = [now |-> count, pend |-> count]
  /\ deletes' = {}
  /\ pc' = "copied"
  /\ UNCHANGED <<life, tragedy, rollbackSegs, building, reader, crashes, acked>>

\* start_commit's test for a commit with no changes.
NoChangesPending == change.pend > change.now

\* SegmentInfos::prepare_commit writes and syncs pending_segments_N.
Prepare ==
  /\ pc = "copied"
  /\ LET n == toCommit.gen + 1
         file == Pending(n)
     IN IF NoChangesPending
        THEN /\ store' = DecRefFiles(store, filesToCommit)
             /\ filesToCommit' = {}
             /\ toCommit' = EmptyInfos
             /\ pc' = "idle"
        ELSE /\ toCommit' = [toCommit EXCEPT !.gen = n]
             /\ store' = Sync(Create(store, {file}, toCommit), {file})
             /\ pc' = "prepared"
             /\ UNCHANGED filesToCommit
  /\ UNCHANGED <<life, tragedy, infos, rollbackSegs, change, building,
                 deletes, reader, crashes, acked>>

\* update_generation
UpdateGeneration(i, lastGen, gen) ==
  [i EXCEPT !.lastGen = lastGen, !.gen = gen]

\* Mutant: the files of the commit stay referenced.
StartCommitFails_NoDecRef(p, lastGen, gen) ==
  /\ store' = DeleteFiles(store, p)
  /\ filesToCommit' = {}
  /\ infos' = UpdateGeneration(infos, lastGen, gen)
  /\ tragedy' = TRUE
  /\ life' = "closing"
  /\ pc' = IF life = "open" THEN "locked out" ELSE "idle"
  /\ toCommit' = EmptyInfos
  /\ UNCHANGED <<rollbackSegs, change, building, deletes, reader, crashes, acked>>

\* start_commit fails with a pending file p: it is deleted, and tragic_event
\* closes the writer: the thread asks for commit_lock, which it holds, unless
\* another thread is closing the writer already.
StartCommitFails(p, lastGen, gen) ==
  /\ store' = DecRefFiles(DeleteFiles(store, p), filesToCommit)
  /\ filesToCommit' = {}
  /\ infos' = UpdateGeneration(infos, lastGen, gen)
  /\ tragedy' = TRUE
  /\ life' = "closing"
  /\ pc' = IF life = "open" THEN "locked out" ELSE "idle"
  /\ toCommit' = EmptyInfos
  /\ UNCHANGED <<rollbackSegs, change, building, deletes, reader, crashes, acked>>

PrepareFails ==
  /\ "write" \in Failing /\ pc = "copied" /\ ~ NoChangesPending
  /\ StartCommitFails({}, toCommit.lastGen, toCommit.gen)

\* The files of the commit are synced, without the lock.  The generation
\* recorded is the one read before prepare_commit advanced it.
SyncFiles ==
  /\ pc = "prepared"
  /\ store' = Sync(store, FilesOf(toCommit.segs))
  /\ infos' = UpdateGeneration(infos, toCommit.lastGen, toCommit.gen - 1)
  /\ pc' = "synced"
  /\ UNCHANGED <<life, tragedy, rollbackSegs, change, building, deletes,
                 reader, toCommit, filesToCommit, crashes, acked>>

SyncFails ==
  /\ "sync" \in Failing /\ pc = "prepared"
  /\ StartCommitFails({Pending(toCommit.gen)}, toCommit.lastGen,
                      toCommit.gen - 1)

\* SegmentInfos::finish_commit: the rename, and then sync_meta_data.
RenamePending ==
  /\ pc = "synced"
  /\ store' = Rename(store, toCommit.gen)
  /\ pc' = "renamed"
  /\ UNCHANGED <<life, tragedy, infos, rollbackSegs, change, building,
                 deletes, reader, toCommit, filesToCommit, crashes, acked>>

\* Mutant: pending_segments_N is kept.
FinishCommitFails_KeepsPending ==
  /\ \/ pc = "synced" /\ "rename" \in Failing
     \/ pc = "renamed" /\ "meta" \in Failing
  /\ store' = DecRefFiles(store, filesToCommit)
  /\ toCommit' = EmptyInfos /\ filesToCommit' = {}
  /\ pc' = "idle"
  /\ UNCHANGED <<life, tragedy, infos, rollbackSegs, change, building,
                 deletes, reader, crashes, acked>>

\* Either fails: rollback_commit deletes pending_segments_N, if it is still
\* there, and commit returns the error.
FinishCommitFails ==
  /\ \/ pc = "synced" /\ "rename" \in Failing
     \/ pc = "renamed" /\ "meta" \in Failing
  /\ store' = DecRefFiles(DeleteFiles(store, {Pending(toCommit.gen)}),
                          filesToCommit)
  /\ toCommit' = EmptyInfos /\ filesToCommit' = {}
  /\ pc' = "idle"
  /\ UNCHANGED <<life, tragedy, infos, rollbackSegs, change, building,
                 deletes, reader, crashes, acked>>

\* The commit is durable: the deleter drops the commits before it.
Complete ==
  /\ pc = "renamed"
  /\ store' = DecRefFiles(CommitCheckpoint(SyncMetaData(store), toCommit.gen,
                                           toCommit.segs), filesToCommit)
  /\ infos' = UpdateGeneration(infos, toCommit.gen, toCommit.gen)
  /\ change' = [now |-> change.now - change.pend, pend |-> 0]
  /\ rollbackSegs' = toCommit.segs
  /\ toCommit' = EmptyInfos /\ filesToCommit' = {}
  /\ acked' = [gen |-> toCommit.gen, segs |-> toCommit.segs]
  /\ pc' = "idle"
  /\ UNCHANGED <<life, tragedy, building, deletes, reader, crashes>>

-----------------------------------------------------------------------------
(* rollback, which also ends close, and crashes *)

\* rollback: should_close
BeginRollback ==
  /\ life = "open" /\ Unlocked
  /\ life' = "closing"
  /\ UNCHANGED <<store, tragedy, infos, rollbackSegs, change, building,
                 deletes, reader, commitVars, crashes, acked>>

\* rollback_internal, once it has commit_lock: what is not committed is
\* deleted, unless there was a tragedy.  Nothing reads the fields of a
\* closed writer.
Rollback ==
  /\ life = "closing" /\ pc = "idle"
  /\ LET x == IF tragedy THEN store
              ELSE Close(Refresh(Checkpoint(store, rollbackSegs)))
     IN store' = Abandoned(x.files, x.journal)
  /\ life' = "closed"
  /\ infos' = EmptyInfos /\ rollbackSegs' = NoSegments /\ change' = NoChange
  /\ building' = {} /\ deletes' = {}
  /\ UNCHANGED <<tragedy, reader, commitVars, crashes, acked>>

\* The machine stops; what is left is the disk.
Crash ==
  /\ crashes < MaxCrashes /\ life # "crashed"
  /\ crashes' = crashes + 1
  /\ \E files \in AfterCrash(store) :
       store' = Abandoned(files, <<>>)
  /\ life' = "crashed" /\ tragedy' = FALSE
  /\ infos' = EmptyInfos /\ rollbackSegs' = NoSegments
  /\ change' = NoChange
  /\ building' = {} /\ deletes' = {} /\ reader' = {}
  /\ pc' = "idle" /\ toCommit' = EmptyInfos /\ filesToCommit' = {}
  /\ UNCHANGED acked

CommitStep ==
  Prepare \/ PrepareFails \/ SyncFiles \/ SyncFails \/ RenamePending
    \/ FinishCommitFails \/ Complete

Next ==
  \/ Open \/ WriteSegment \/ DeleteAll \/ OpenReader \/ CloseReader
  \/ \E s \in 0..MaxSegments :
       \/ Publish(s) \/ DiscardSegment(s) \/ ApplyDeletes(s)
       \/ DropSegment(s) \/ UpdateDocValues(s)
       \/ \E S \in SUBSET (0..MaxSegments) : CommitMerge(s, S)
  \/ Snapshot \/ CommitStep
  \/ BeginRollback \/ Rollback \/ Crash

Spec == Init /\ [][Next]_vars

\* A thread in commit goes on, as long as it does not wait for itself, and so
\* does one that closes the writer, when it gets commit_lock.
FairSpec == Spec /\ WF_vars(CommitStep) /\ WF_vars(Rollback)

-----------------------------------------------------------------------------
(* Properties *)

Entries == [del : Nat, nextDel : Nat, dv : Nat, nextDv : Nat]
IsSegs(segs) ==
  DOMAIN segs \subseteq Nat /\ \A s \in DOMAIN segs : segs[s] \in Entries
IsInfos(i) ==
  IsSegs(i.segs) /\ i.counter \in Nat /\ i.gen \in Nat /\ i.lastGen \in Nat

\* Type correctness of the writer, its deleter and the commit under way; a
\* reference count is never negative (RefCount::dec_ref).
TypeOK ==
  /\ life \in {"open", "closing", "closed", "crashed"} /\ tragedy \in BOOLEAN
  /\ pc \in {"idle", "copied", "prepared", "synced", "renamed", "locked out"}
  /\ IsInfos(infos) /\ IsInfos(toCommit) /\ IsSegs(rollbackSegs)
  /\ change \in [now : Nat, pend : Nat]
  /\ building \subseteq Nat /\ deletes \subseteq DOMAIN infos.segs
  /\ \A f \in DOMAIN store.rc : store.rc[f] \in Nat

Holders(f) ==
  InCommits(store.commits, f)
    + Cardinality({F \in {<<1, store.last>>, <<2, filesToCommit>>,
                          <<3, reader>>} : f \in F[2]})

\* The deleter counts for each file exactly who needs it: the commits, the
\* current segments, the commit under way and the reader
\* (IndexFileDeleter::inc_ref_files, dec_ref_files).
RefCountsExact ==
  NotClosed => \A f \in DOMAIN store.files \cup DOMAIN store.rc :
                  Count(store, f) = Holders(f)

\* A file that something refers to has not been deleted: also when merges,
\* updates and readers come and go while a commit syncs the files that
\* prepare_commit_internal_inner has protected.
RefsExist ==
  NotClosed => \A f \in DOMAIN store.rc :
                  store.rc[f] > 0 => f \in DOMAIN store.files

Readable(files, n) ==
  /\ files[Segments(n)].st = "synced"
  /\ \A f \in FilesOf(files[Segments(n)].val.segs) :
        f \in DOMAIN files /\ files[f].st = "synced"

\* Whatever happens, also in the middle of a commit or of the deletion of an
\* older one, and whatever a crash loses, all the files of every segments_N
\* in the directory are there and were synced: the two phases of a commit,
\* and the order in which delete_files proceeds.
CommitsReadable ==
  \A n \in GenerationsIn(store.files) : Readable(store.files, n)

\* A commit that returned survives: the index opens at it, or at a later
\* one (IndexWriter::commit).
DurableCommit ==
  LET n == LastGeneration(store.files)
  IN /\ n >= acked.gen
     /\ n = acked.gen /\ n > 0 => store.files[Segments(n)].val.segs = acked.segs

\* Nothing is left behind while a writer runs, whatever fails and whatever a
\* crash has left: each file of the directory is counted by the deleter, or is
\* of a segment being written, or is the pending_segments_N or segments_N of
\* the commit under way (IndexFileDeleter::init, delete_new_files, dec_ref;
\* SegmentInfos::rollback_commit).
FilesWanted ==
  NotClosed => \A f \in DOMAIN store.files :
     \/ Count(store, f) > 0
     \/ \E s \in building : f = Core(s)
     \/ pc \in {"prepared", "synced"} /\ f = Pending(toCommit.gen)
     \/ pc = "renamed" /\ f = Segments(toCommit.gen)

\* No step writes a file that is in the directory: neither the files of a new
\* segment, nor a generation of live docs or of updates, nor the
\* pending_segments_N of a commit, nor the segments_N it is renamed to; also
\* after a crash, whose remains inflate_gens and init have to get out of the
\* way "to avoid double-write".
WritesFresh ==
  [][LET files == DOMAIN store.files
         old == DOMAIN infos.segs
     IN /\ \A s \in building' \ building : Core(s) \notin files
        /\ \A s \in DOMAIN infos'.segs \cap old :
             LET i == infos'.segs[s]
             IN /\ i.del # infos.segs[s].del => Live(s, i.del) \notin files
                /\ i.dv # infos.segs[s].dv => Dv(s, i.dv) \notin files
        /\ pc' = "prepared" /\ pc # "prepared" => Pending(toCommit'.gen) \notin files
        /\ pc' = "renamed" /\ pc # "renamed" => Segments(toCommit.gen) \notin files]_vars

\* "when unrecoverable disaster strikes, we populate this with the reason that
\* we had to close IndexWriter": after a tragic event the writer gets closed
\* (tragic_event).
TragedyCloses == tragedy ~> life = "closed"

-----------------------------------------------------------------------------
(* What the code does not keep: see the README. *)

\* "Set all gens beyond what we currently see in the directory": of live docs
\* and updates (inflate_gens).
GensInflated ==
  [][life' = "open" /\ life # "open" =>
       \A f \in DOMAIN store.files :
          ~ IsCommitFile(f) /\ f[2] \in DOMAIN infos'.segs =>
            f[3] < infos'.segs[f[2]].nextDel /\ f[3] < infos'.segs[f[2]].nextDv]_vars

\* The same of the name of the next segment (inflate_gens).
NamesInflated ==
  [][life' = "open" /\ life # "open" =>
       \A f \in DOMAIN store.files :
          ~ IsCommitFile(f) => f[2] < infos'.counter]_vars

\* A commit with nothing to commit writes no segments_N (IndexWriter::commit
\* "returns -1").
NoEmptyCommit ==
  [][pc' = "prepared" /\ pc # "prepared" => change.pend # 0]_vars

\* A writer that was closed without an error leaves nothing but commits, and
\* what a reader still uses (IndexFileDeleter::refresh).
NoLeak ==
  life = "closed" /\ ~ tragedy =>
    DOMAIN store.files \subseteq
      reader \cup UNION {FilesOf(store.files[Segments(n)].val.segs)
                           \cup {Segments(n)} : n \in GenerationsIn(store.files)}
=============================================================================
