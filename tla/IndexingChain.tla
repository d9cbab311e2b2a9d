--------------------------- MODULE IndexingChain ---------------------------
(***************************************************************************)
(* The way of documents and deletes from the calls of an IndexWriter to a  *)
(* commit.  An operation is buffered in the DocumentsWriterPerThread       *)
(* (DWPT) of a thread state and in the delete queue of the current         *)
(* generation.  A DWPT is checked out (DocumentsWriterFlushControl), takes *)
(* a ticket that freezes the deletes of its queue                          *)
(* (DocumentsWriterFlushQueue), is written as a segment by a flush daemon  *)
(* or by the thread that commits, and is published in ticket order.  The   *)
(* frozen deletes go to the BufferedUpdatesStream, from which they are     *)
(* applied to the segments that are older than they are.  A full flush     *)
(* starts a new queue, flushes all the DWPTs of the old one and takes the  *)
(* segments as the commit.                                                 *)
(*                                                                         *)
(* The delete queue is taken at the level of DeleteOrder, which            *)
(* DeleteQueue is shown to implement: an operation is one step that        *)
(* reaches the DWPTs of its generation and the deletes to be frozen.       *)
(* Every delete matches every document before it, by a term that no other  *)
(* delete names (UpdateStream models the walk over the terms, and a term   *)
(* in two packets); a document is the position in log of the operation     *)
(* that added it.  log, lost and commit are history: no action reads them. *)
(***************************************************************************)
EXTENDS Integers, Sequences, FiniteSets

CONSTANTS
  States,         \* the thread states, each used by one thread at a time
  Daemons,        \* the flush daemons
  Main,           \* the thread that flushes and commits
  Kinds,          \* what deletes are by: "term", "query"
  Modes,          \* what Main calls: "commit", "flush"
  DeleteTrigger,  \* whether max_buffered_delete_terms is set
  DocMayFail,     \* whether indexing a document may return an error
  MayFail,        \* the flushers whose I/O may fail
  MaxOps,         \* bound: operations
  MaxGen,         \* bound: generations of the delete queue
  None

Flushers == Daemons \cup {Main}
Actors == States \cup Flushers

ASSUME IndexingChainAssumption ==
  /\ Main \notin Daemons /\ States \cap Flushers = {}
  /\ Kinds \subseteq {"term", "query"} /\ Modes \subseteq {"commit", "flush"}
  /\ DeleteTrigger \in BOOLEAN /\ DocMayFail \in BOOLEAN
  /\ MayFail \subseteq Flushers
  /\ MaxOps \in Nat /\ MaxGen \in Nat \ {0}

\* The numbers of documents and of generations are naturals; None is nothing
\* that the program makes.
Dwpt == [gen : 1..MaxGen, docs : SUBSET Nat, dead : SUBSET Nat, doomed : SUBSET Nat]
Ticket == [owner : Flushers \cup {None}, status : {"global", "open", "ready", "failed"},
           dels : SUBSET {"term", "query"}, dwpt : Dwpt \cup {None}]
ASSUME NoneAssumption ==
  None \notin Dwpt /\ None \notin Ticket /\ Main \notin {"purge", "apply", None}

VARIABLES
  gen,           \* the generation of DocumentsWriter.delete_queue
  pending,       \* per generation: the deletes its queue has not frozen
  active,        \* per thread state: its dwpt
  flushPending,  \* the thread states marked flush_pending
  flushQueue,    \* DWPTs checked out for a full flush (flush_queue)
  hand,          \* per flusher: the DWPT it flushes
  pc,            \* per actor: where it is
  applyFlag,     \* flush_deletes: deletes are to be applied
  fullFlush,     \* full_flush
  pendingFull,   \* pending_changes_in_current_full_flush
  tickets,       \* the queue of flush tickets
  popped,        \* the ticket taken off the queue and being published
  purging,       \* who holds the ticket queue to publish from its head
  events,        \* the WriterEvents posted: "purge", "apply"
  due,           \* an ApplyDeletes event has purged and is to apply
  index,         \* the segments, and the stream of frozen deletes
  changed,       \* change_count differs from last_commit_change_count
  cpc, mode,     \* where Main is in a full flush, and for which call
  todo,          \* the thread states mark_for_full_flush has yet to visit
  helped,        \* anything_flushed of flush_all_threads
  log,           \* history: the operations, in the order they took effect
  lost,          \* history: documents dropped by an error
  commit         \* history: the latest commit

queueVars == <<gen, pending>>
dwptVars == <<active, flushPending, flushQueue, hand>>
ticketVars == <<tickets, popped, purging>>
eventVars == <<events, due>>
indexVars == <<index, changed>>
fullVars == <<fullFlush, pendingFull, cpc, mode, todo, helped>>
history == <<log, lost, commit>>
vars == <<queueVars, dwptVars, pc, applyFlag, ticketVars, eventVars,
          indexVars, fullVars, history>>

Init ==
  /\ gen = 1
  /\ pending = [g \in 1..MaxGen |-> {}]
  /\ active = [s \in States |-> None]
  /\ flushPending = {}
  /\ flushQueue = <<>>
  /\ hand = [f \in Flushers |-> None]
  /\ pc = [x \in Actors |-> "idle"]
  /\ applyFlag = FALSE
  /\ fullFlush = FALSE /\ pendingFull = FALSE
  /\ tickets = <<>> /\ popped = None /\ purging = None
  /\ events = {} /\ due = FALSE
  /\ index = [segs |-> {}, stream |-> <<>>, next |-> 1]
  /\ changed = FALSE
  /\ cpc = "idle" /\ mode = None /\ todo = {} /\ helped = FALSE
  /\ log = <<>> /\ lost = {}
  /\ commit = [gen |-> 0, live |-> {}]

Elements(q) == {q[i] : i \in 1..Len(q)}
Inited == {s \in States : active[s] # None}

\* The DWPTs that have no ticket yet: their slices still follow their queue.
Unticketed ==
  {active[s] : s \in Inited} \cup Elements(flushQueue)
    \cup {hand[f] : f \in {h \in Flushers : pc[h] = "taken"}}

\* flushing_writers: checked out and not yet through after_flush.
FlushingWriters ==
  Elements(flushQueue) \cup {hand[f] : f \in {h \in Flushers : hand[h] # None}}

-----------------------------------------------------------------------------
(* Operations (DocumentsWriter::update_document, delete_terms,              *)
(* delete_queries), as one step of the delete queue.                        *)

NewDwpt(g) == [gen |-> g, docs |-> {}, dead |-> {}, doomed |-> {}]
AddDoc(w, d) == [w EXCEPT !.docs = @ \cup {d}]

\* A delete of generation g: by term the documents buffered so far die in
\* the flush, by query in the packet private to the segment.
Kill(w, g, kind) ==
  IF w = None THEN w
  ELSE IF w.gen # g THEN w
  ELSE [w EXCEPT !.dead   = IF kind = "term" THEN w.docs ELSE @,
                 !.doomed = IF kind = "query" THEN w.docs ELSE @]

\* A delete takes effect on every DWPT whose slice follows the queue of
\* generation g, and is buffered in that queue.  kind is "none" for an
\* operation without a delete.
Buffer(g, kind) ==
  /\ flushQueue' = [i \in 1..Len(flushQueue) |-> Kill(flushQueue[i], g, kind)]
  /\ hand' = [f \in Flushers |->
                IF pc[f] = "taken" THEN Kill(hand[f], g, kind) ELSE hand[f]]
  /\ pending' = [pending EXCEPT ![g] = @ \cup ({kind} \ {"none"})]

Log(g, add, kind) == log' = Append(log, [gen |-> g, add |-> add, del |-> kind])

\* FlushByCountsPolicy::on_delete: max_buffered_delete_terms is reached, or
\* is not.
OnDelete == IF DeleteTrigger THEN {applyFlag, TRUE} ELSE {applyFlag}

\* Check out the DWPT of state s into the flush queue (add_flushable_state).
\* A DWPT in a thread state has a document: it is created for one, and it
\* is dropped when that one fails.
AddFlushableState(s) ==
  /\ flushQueue' = Append(flushQueue, active[s])
  /\ active' = [active EXCEPT ![s] = None]
  /\ flushPending' = flushPending \ {s}

\* The bound on operations counts the calls that have begun.
MoreOps == Len(log) + Cardinality({s \in States : pc[s] = "held"}) < MaxOps

\* obtain_and_lock: a thread gets the state s; a DWPT of an older queue that
\* it finds there is enrolled for the full flush under way.  The lock of
\* the state is released again before the document is indexed.
Obtain(s) ==
  /\ pc[s] = "idle" /\ MoreOps
  /\ pc' = [pc EXCEPT ![s] = "held"]
  /\ IF s \in Inited /\ active[s].gen # gen
     THEN AddFlushableState(s)
     ELSE UNCHANGED <<active, flushPending, flushQueue>>
  /\ UNCHANGED <<queueVars, hand, applyFlag, ticketVars, eventVars,
                 indexVars, fullVars, history>>

\* do_update_document under the lock of the state: a DWPT is created on the
\* current queue if there is none, the document and the delete term of the
\* update take effect on the queue of the DWPT, and do_after_document may
\* mark the state flush_pending and, for an update, ask for the deletes to
\* be applied.  post_update comes next; it has nothing to do if no policy
\* ever asks.
Index(s, kind) ==
  LET w == IF s \in Inited THEN active[s] ELSE NewDwpt(gen)
      d == Len(log) + 1
  IN /\ pc[s] = "held"
     /\ active' = [u \in States |->
                     IF u = s THEN AddDoc(Kill(w, w.gen, kind), d)
                     ELSE Kill(active[u], w.gen, kind)]
     /\ Buffer(w.gen, kind)
     /\ Log(w.gen, TRUE, kind)
     /\ flushPending' \in {flushPending, flushPending \cup {s}}
     /\ applyFlag' \in (IF kind = "none" THEN {applyFlag} ELSE OnDelete)
     /\ pc' = [pc EXCEPT ![s] = IF DeleteTrigger THEN "check" ELSE "idle"]
     /\ UNCHANGED <<gen, ticketVars, eventVars, indexVars, fullVars, lost,
                    commit>>

\* Any error while indexing a document aborts the whole DWPT.  The thread
\* state is not released; its name stands for the state created next.
IndexFails(s) ==
  /\ DocMayFail /\ pc[s] = "held"
  /\ active' = [active EXCEPT ![s] = None]
  /\ flushPending' = flushPending \ {s}
  /\ lost' = lost \cup (IF s \in Inited THEN active[s].docs ELSE {})
  /\ pc' = [pc EXCEPT ![s] = "idle"]
  /\ UNCHANGED <<queueVars, flushQueue, hand, applyFlag, ticketVars,
                 eventVars, indexVars, fullVars, log, commit>>

-----------------------------------------------------------------------------
(* Freezing deletes into tickets.                                           *)

GlobalTicket(dels) ==
  [owner |-> None, status |-> "global", dels |-> dels, dwpt |-> None]

FlushTicket(f, dels) ==
  [owner |-> f, status |-> "open", dels |-> dels, dwpt |-> hand[f]]

\* Mutant: the deletes are frozen but stay in the queue.
AddTicket_NotCleared(g, t) ==
  /\ purging = None
  /\ tickets' = Append(tickets, t)
  /\ pending' = [pending EXCEPT ![g] = @]

\* The queue of generation g is frozen into a new ticket at the end of the
\* queue.  The lock of the ticket queue is free.
AddTicket(g, t) ==
  /\ purging = None
  /\ tickets' = Append(tickets, t)
  /\ pending' = [pending EXCEPT ![g] = {}]

\* delete_terms, delete_queries: under the lock of the DocumentsWriter, as
\* is the whole of mark_for_full_flush.  apply_all_deletes_local is part of
\* the call and cannot meet the start of a full flush.
Delete(kind) ==
  LET dels == pending[gen] \cup {kind}
  IN /\ MoreOps /\ cpc # "mark"
     /\ active' = [s \in States |-> Kill(active[s], gen, kind)]
     /\ flushQueue' = [i \in 1..Len(flushQueue) |->
                         Kill(flushQueue[i], gen, kind)]
     /\ hand' = [f \in Flushers |->
                   IF pc[f] = "taken" THEN Kill(hand[f], gen, kind)
                   ELSE hand[f]]
     /\ Log(gen, FALSE, kind)
     /\ \E apply \in OnDelete :
          /\ applyFlag' = FALSE
          /\ events' = IF apply THEN events \cup {"apply"} ELSE events
          /\ IF apply /\ ~fullFlush
             THEN /\ purging = None
                  /\ tickets' = Append(tickets, GlobalTicket(dels))
                  /\ pending' = [pending EXCEPT ![gen] = {}]
             ELSE /\ pending' = [pending EXCEPT ![gen] = dels]
                  /\ UNCHANGED tickets
     /\ UNCHANGED <<gen, flushPending, pc, popped, purging, due, indexVars, fullVars,
                    lost, commit>>

\* apply_all_deletes_local, called without a lock by post_update and at the
\* end of do_flush: it takes the flag and looks at full_flush ...
ApplyAllDeletesLocal(x) ==
  /\ pc[x] = "check"
  /\ applyFlag' = FALSE
  /\ pc' = [pc EXCEPT ![x] = IF applyFlag /\ ~fullFlush THEN "freeze" ELSE "idle"]
  /\ events' = IF (applyFlag /\ fullFlush) \/ (~applyFlag /\ x \in Flushers)
               THEN events \cup {"apply"} ELSE events
  /\ UNCHANGED <<queueVars, dwptVars, ticketVars, due, indexVars, fullVars,
                 history>>

\* ... and then freezes the queue that is the current one by now.
AddDeletes(x) ==
  /\ pc[x] = "freeze"
  /\ AddTicket(gen, GlobalTicket(pending[gen]))
  /\ events' = events \cup {"apply"}
  /\ pc' = [pc EXCEPT ![x] = "idle"]
  /\ UNCHANGED <<gen, dwptVars, applyFlag, popped, purging, due, indexVars,
                 fullVars, history>>

-----------------------------------------------------------------------------
(* Flushing a DWPT (DocumentsWriter::do_flush), by a daemon or by Main      *)
(* within a full flush.                                                     *)

MayTake(f) == pc[f] = "idle" /\ (f = Main => cpc = "flush")

\* next_pending_flush: the flush queue first; without a full flush under
\* way also a thread state marked flush_pending, if its lock is free.
NextPendingFlush(f) ==
  /\ MayTake(f)
  /\ \/ /\ flushQueue # <<>>
        /\ hand' = [hand EXCEPT ![f] = Head(flushQueue)]
        /\ flushQueue' = Tail(flushQueue)
        /\ UNCHANGED <<active, flushPending>>
     \/ /\ flushQueue = <<>> /\ ~fullFlush
        /\ \E s \in flushPending :
             /\ hand' = [hand EXCEPT ![f] = active[s]]
             /\ active' = [active EXCEPT ![s] = None]
             /\ flushPending' = flushPending \ {s}
        /\ UNCHANGED flushQueue
  /\ pc' = [pc EXCEPT ![f] = "taken"]
  /\ UNCHANGED <<queueVars, applyFlag, ticketVars, eventVars, indexVars,
                 fullVars, history>>

\* add_flush_ticket: prepare_flush freezes the queue of the DWPT and applies
\* its slice for the last time.
AddFlushTicket(f) ==
  /\ pc[f] = "taken"
  /\ AddTicket(hand[f].gen, FlushTicket(f, pending[hand[f].gen]))
  /\ pc' = [pc EXCEPT ![f] = "ticketed"]
  /\ UNCHANGED <<gen, dwptVars, applyFlag, popped, purging, eventVars,
                 indexVars, fullVars, history>>

OpenTicket(f) ==
  CHOOSE i \in 1..Len(tickets) : tickets[i].owner = f /\ tickets[i].status = "open"

\* DocumentsWriterPerThread::flush writes the segment, or fails and drops
\* its documents; the ticket is completed through the pointer kept to it,
\* without the lock of the queue.
FlushDwpt(f) ==
  /\ pc[f] = "ticketed"
  /\ \/ /\ tickets' = [tickets EXCEPT ![OpenTicket(f)].status = "ready"]
        /\ pc' = [pc EXCEPT ![f] = "flushed"]
        /\ UNCHANGED lost
     \/ /\ f \in MayFail
        /\ tickets' = [tickets EXCEPT ![OpenTicket(f)].status = "failed"]
        /\ pc' = [pc EXCEPT ![f] = "failed"]
        /\ lost' = lost \cup hand[f].docs
  /\ UNCHANGED <<queueVars, dwptVars, applyFlag, popped, purging, eventVars,
                 indexVars, fullVars, log, commit>>

\* DocumentsWriter::finish_full_flush
LeaveFullFlush ==
  /\ fullFlush' = FALSE /\ pendingFull' = FALSE
  /\ cpc' = "idle" /\ mode' = None
  /\ helped' = FALSE
  /\ UNCHANGED todo

\* Mutant: the DWPT stays in flushing_writers.
AfterFlush_KeepsWriter(f) ==
  \E purge, many, reported \in BOOLEAN :
    LET check == many /\ DeleteTrigger
    IN /\ pc[f] \in {"flushed", "failed"}
       /\ pc[f] = "failed" => ~many
       /\ many => reported
       /\ hand' = hand
       /\ pc' = [pc EXCEPT ![f] = IF check THEN "check" ELSE "idle"]
       /\ events' = events \cup (IF purge THEN {"purge"} ELSE {})
                           \cup (IF many /\ ~check THEN {"apply"} ELSE {})
       /\ IF f # Main THEN UNCHANGED fullVars
          ELSE IF pc[f] = "failed" THEN LeaveFullFlush
          ELSE /\ helped' = (helped \/ reported)
               /\ UNCHANGED <<fullFlush, pendingFull, cpc, mode, todo>>
  /\ UNCHANGED <<queueVars, active, flushPending, flushQueue, applyFlag,
                 ticketVars, due, indexVars, history>>

\* after_flush, and what do_flush still does.  ForcedPurge is posted when
\* there is a backlog of tickets, MergePending when the flush left files to
\* delete, and apply_all_deletes_local is called when there are many
\* deletes: each may happen or not.  An error is logged by a daemon; Main
\* gives up the full flush, and both of its callers finish it as a success,
\* which leaves the flush queue as it is.
AfterFlush(f) ==
  \E purge, many, reported \in BOOLEAN :
    LET check == many /\ DeleteTrigger
    IN /\ pc[f] \in {"flushed", "failed"}
       /\ pc[f] = "failed" => ~many
       /\ many => reported
       /\ hand' = [hand EXCEPT ![f] = None]
       /\ pc' = [pc EXCEPT ![f] = IF check THEN "check" ELSE "idle"]
       /\ events' = events \cup (IF purge THEN {"purge"} ELSE {})
                           \cup (IF many /\ ~check THEN {"apply"} ELSE {})
       /\ IF f # Main THEN UNCHANGED fullVars
          ELSE IF pc[f] = "failed" THEN LeaveFullFlush
          ELSE /\ helped' = (helped \/ reported)
               /\ UNCHANGED <<fullFlush, pendingFull, cpc, mode, todo>>
  /\ UNCHANGED <<queueVars, active, flushPending, flushQueue, applyFlag,
                 ticketVars, due, indexVars, history>>

-----------------------------------------------------------------------------
(* Publishing tickets and applying the stream of deletes, under the lock of *)
(* the IndexWriter and that of the stream.  ix is [segs, stream, next].     *)

\* BufferedUpdatesStream::push
Push(ix, dels, private, docs) ==
  [ix EXCEPT !.stream = Append(@, [gen |-> ix.next, dels |-> dels,
                                   private |-> private, docs |-> docs]),
             !.next = @ + 1]

PushGlobal(ix, dels) == IF dels = {} THEN ix ELSE Push(ix, dels, FALSE, {})

\* Mutant: the segment is given its generation before the packet that its
\* ticket froze.
Publish_SegmentFirst(ix, t) ==
  IF t.status # "ready" THEN PushGlobal(ix, t.dels)
  ELSE PushGlobal([segs |-> ix.segs \cup
                     {[docs |-> t.dwpt.docs, live |-> t.dwpt.docs \ t.dwpt.dead,
                       gen |-> ix.next]},
                   stream |-> ix.stream, next |-> ix.next + 1], t.dels)

\* Mutant: the private deletes of the segment are forgotten.
Publish_NoPrivate(ix, t) ==
  LET glob == PushGlobal(ix, t.dels)
      seg == [docs |-> t.dwpt.docs, live |-> t.dwpt.docs \ t.dwpt.dead,
              gen |-> glob.next]
  IN IF t.status # "ready" THEN glob
     ELSE [glob EXCEPT !.next = @ + 1, !.segs = @ \cup {seg}]

\* publish_flushed_segment, or publish_frozen_updates for a ticket without a
\* segment: the frozen deletes first, then the deletes private to the
\* segment, whose generation is that of its private packet or a new one.
Publish(ix, t) ==
  LET glob == PushGlobal(ix, t.dels)
      seg == [docs |-> t.dwpt.docs, live |-> t.dwpt.docs \ t.dwpt.dead,
              gen |-> glob.next]
      priv == IF t.dwpt.doomed = {} THEN [glob EXCEPT !.next = @ + 1]
              ELSE Push(glob, {"query"}, TRUE, t.dwpt.doomed)
  IN IF t.status # "ready" THEN glob
     ELSE [priv EXCEPT !.segs = @ \cup {seg}]

\* BufferedUpdatesStream::any counts delete terms, not queries.
StreamAny(ix) == \E i \in 1..Len(ix.stream) : "term" \in ix.stream[i].dels

Applies(p, seg) ==
  IF p.private THEN p.gen = seg.gen ELSE p.gen > seg.gen

\* What the packets of the stream delete from a segment: a private packet
\* the documents up to its limits, in the segment of its generation; any
\* other packet every document of the segments of a smaller generation.
Deleted(ix, seg) ==
  UNION {IF p.private THEN p.docs ELSE seg.docs :
           p \in {q \in Elements(ix.stream) : Applies(q, seg)}}

\* do_apply_deletes_and_updates and close_segment_states: all segments are
\* opened if a packet applies to one of them, and are then up to date with
\* the stream; those that have no live document left are dropped.
ApplyStream(ix) ==
  LET opened == \E seg \in ix.segs, p \in Elements(ix.stream) : Applies(p, seg)
      stamped == {[seg EXCEPT !.live = @ \ Deleted(ix, seg), !.gen = ix.next] :
                    seg \in ix.segs}
  IN [ix EXCEPT !.next = @ + 1,
                !.segs = IF StreamAny(ix) /\ opened
                         THEN {seg \in stamped : seg.live # {}} ELSE @]

\* prune: the packets up to the first one that is not older than every
\* segment are dropped.
Older(p, ix) == \A seg \in ix.segs : p.gen < seg.gen
Limit(ix) ==
  CHOOSE n \in 0..Len(ix.stream) :
    /\ \A i \in 1..n : Older(ix.stream[i], ix)
    /\ n < Len(ix.stream) => ~Older(ix.stream[n + 1], ix)
Prune(ix) == [ix EXCEPT !.stream = SubSeq(@, Limit(ix) + 1, Len(@))]

ApplyAllDeletes(ix) == Prune(ApplyStream(ix))

LiveDocs(ix) == UNION {seg.live : seg \in ix.segs}
Contents(ix) == {<<seg.docs, seg.live>> : seg \in ix.segs}

\* apply_all_deletes_and_update; a change is a checkpoint.
ApplyAllDeletesAndUpdate ==
  /\ index' = ApplyAllDeletes(index)
  /\ changed' = (changed \/ Contents(index') # Contents(index))

CanPublish(t) == t.status # "open"

\* Mutant: a finished ticket is published ahead of an unfinished one.
PopHead_AnyFinished ==
  /\ purging # None /\ popped = None
  /\ \E i \in 1..Len(tickets) :
       /\ CanPublish(tickets[i])
       /\ popped' = tickets[i]
       /\ tickets' = SubSeq(tickets, 1, i - 1) \o SubSeq(tickets, i + 1, Len(tickets))
  /\ UNCHANGED <<queueVars, dwptVars, pc, applyFlag, purging, eventVars,
                 indexVars, fullVars, history>>

\* One round of the loop of inner_purge, by whoever holds the queue: the
\* head leaves the queue and the count of tickets ...
PopHead ==
  /\ purging # None /\ popped = None /\ tickets # <<>>
  /\ CanPublish(Head(tickets))
  /\ popped' = Head(tickets)
  /\ tickets' = Tail(tickets)
  /\ UNCHANGED <<queueVars, dwptVars, pc, applyFlag, purging, eventVars,
                 indexVars, fullVars, history>>

\* ... and is then published.
PublishPopped ==
  /\ popped # None
  /\ index' = Publish(index, popped)
  /\ changed' = (changed \/ popped.status = "ready")
  /\ popped' = None
  /\ UNCHANGED <<queueVars, dwptVars, pc, applyFlag, tickets, purging,
                 eventVars, fullVars, history>>

PurgeDone ==
  popped = None /\ (tickets # <<>> => ~CanPublish(Head(tickets)))

\* process_events: a thread pops an event and purges.  Equal events that
\* wait together are processed as one.
BeginEvent(e) ==
  /\ e \in events /\ purging = None
  /\ events' = events \ {e}
  /\ purging' = e
  /\ UNCHANGED <<queueVars, dwptVars, pc, applyFlag, tickets, popped, due, indexVars,
                 fullVars, history>>

EndEvent ==
  /\ purging \in {"purge", "apply"} /\ PurgeDone
  /\ due' = (due \/ purging = "apply")
  /\ purging' = None
  /\ UNCHANGED <<queueVars, dwptVars, pc, applyFlag, tickets, popped, events,
                 indexVars, fullVars, history>>

\* The second half of apply_deletes_and_purge, in a critical section of its
\* own.
ApplyEvent ==
  /\ due
  /\ due' = FALSE
  /\ ApplyAllDeletesAndUpdate
  /\ UNCHANGED <<queueVars, dwptVars, pc, applyFlag, ticketVars, events,
                 fullVars, history>>

-----------------------------------------------------------------------------
(* A full flush (flush_all_threads), called by commit and by flush.         *)

\* Mutant: the tickets that wait to be published are not counted.
AnyChanges_NoTickets ==
  Inited # {} \/ FlushingWriters # {} \/ pending[gen] # {} \/ pendingFull

\* DocumentsWriter::any_changes.  num_docs_in_ram counts the documents of
\* every DWPT that has not been through flush_dwpt.
AnyChanges ==
  \/ Inited # {} \/ FlushingWriters # {}
  \/ pending[gen] # {}
  \/ tickets # <<>>
  \/ pendingFull

HasUncommittedChanges == changed \/ AnyChanges \/ StreamAny(index)

\* The first critical section of mark_for_full_flush: a new delete queue.
BeginFullFlush(m) ==
  /\ cpc = "idle" /\ pc[Main] = "idle" /\ gen < MaxGen
  /\ fullFlush' = TRUE
  /\ pendingFull' = AnyChanges
  /\ gen' = gen + 1
  /\ cpc' = "mark" /\ mode' = m /\ todo' = States /\ helped' = FALSE
  /\ UNCHANGED <<pending, dwptVars, pc, applyFlag, ticketVars, eventVars,
                 indexVars, history>>

\* Mutant: a state whose document is being indexed is passed over.
MarkState_SkipsHeld(s) ==
  /\ cpc = "mark" /\ s \in todo
  /\ todo' = todo \ {s}
  /\ IF s \in Inited /\ pc[s] # "held" /\ active[s].gen # gen
     THEN AddFlushableState(s)
     ELSE UNCHANGED <<active, flushPending, flushQueue>>
  /\ cpc' = IF todo' = {} THEN "flush" ELSE cpc
  /\ UNCHANGED <<queueVars, hand, pc, applyFlag, ticketVars, eventVars,
                 indexVars, fullFlush, pendingFull, mode, helped, history>>

\* It then locks one thread state after the other.
MarkState(s) ==
  /\ cpc = "mark" /\ s \in todo
  /\ todo' = todo \ {s}
  /\ IF s \in Inited /\ active[s].gen # gen
     THEN AddFlushableState(s)
     ELSE UNCHANGED <<active, flushPending, flushQueue>>
  /\ cpc' = IF todo' = {} THEN "flush" ELSE cpc
  /\ UNCHANGED <<queueVars, hand, pc, applyFlag, ticketVars, eventVars,
                 indexVars, fullFlush, pendingFull, mode, helped, history>>

\* Mutant: what is left in the old queue is not frozen.
WaitForFlush_NoNakedDeletes ==
  /\ cpc = "flush" /\ pc[Main] = "idle" /\ FlushingWriters = {}
  /\ cpc' = "purge" /\ helped' = FALSE
  /\ UNCHANGED <<queueVars, dwptVars, pc, applyFlag, ticketVars, eventVars,
                 indexVars, fullFlush, pendingFull, mode, todo, history>>

\* No DWPT is left to flush and wait_for_flush has returned: if Main's own
\* flushes report nothing, what is left in the old queue gets a ticket.
WaitForFlush ==
  /\ cpc = "flush" /\ pc[Main] = "idle" /\ FlushingWriters = {}
  /\ IF ~helped /\ pending[gen - 1] # {}
     THEN AddTicket(gen - 1, GlobalTicket(pending[gen - 1]))
     ELSE UNCHANGED <<pending, tickets>>
  /\ cpc' = "purge" /\ helped' = FALSE
  /\ UNCHANGED <<gen, dwptVars, pc, applyFlag, popped, purging, eventVars,
                 indexVars, fullFlush, pendingFull, mode, todo, history>>

\* force_purge
ForcePurge ==
  /\ cpc = "purge" /\ purging = None
  /\ purging' = Main
  /\ UNCHANGED <<queueVars, dwptVars, pc, applyFlag, tickets, popped,
                 eventVars, indexVars, fullVars, history>>

\* flush ends the full flush before it processes the events, commit after.
EndForcePurge ==
  /\ purging = Main /\ PurgeDone
  /\ purging' = None
  /\ cpc' = "events"
  /\ IF mode = "flush" THEN fullFlush' = FALSE /\ pendingFull' = FALSE
     ELSE UNCHANGED <<fullFlush, pendingFull>>
  /\ UNCHANGED <<queueVars, dwptVars, pc, applyFlag, tickets, popped,
                 eventVars, indexVars, mode, todo, helped, history>>

\* The event queue is empty and the deletes are applied; commit then takes
\* the segments, in the same critical section.
ApplyAndSnapshot ==
  /\ cpc = "events" /\ events = {}
  /\ index' = ApplyAllDeletes(index)
  /\ IF mode = "commit"
     THEN /\ commit' = [gen |-> gen - 1, live |-> LiveDocs(index')]
          /\ changed' = FALSE
     ELSE /\ changed' = (changed \/ Contents(index') # Contents(index))
          /\ UNCHANGED commit
  /\ cpc' = "finish"
  /\ UNCHANGED <<queueVars, dwptVars, pc, applyFlag, ticketVars, eventVars,
                 fullFlush, pendingFull, mode, todo, helped, log, lost>>

FinishFullFlush ==
  /\ cpc = "finish"
  /\ LeaveFullFlush
  /\ UNCHANGED <<queueVars, dwptVars, pc, applyFlag, ticketVars, eventVars,
                 indexVars, history>>

-----------------------------------------------------------------------------
Operation ==
  \/ \E s \in States :
       \/ Obtain(s)
       \/ IndexFails(s)
       \/ \E kind \in {"none"} \cup (Kinds \cap {"term"}) : Index(s, kind)
  \/ \E kind \in Kinds : Delete(kind)
  \/ \E m \in Modes : BeginFullFlush(m)

Work(f) ==
  \/ NextPendingFlush(f)
  \/ AddFlushTicket(f)
  \/ FlushDwpt(f)
  \/ AfterFlush(f)

Local(x) == ApplyAllDeletesLocal(x) \/ AddDeletes(x)

Events ==
  \/ \E e \in {"purge", "apply"} : BeginEvent(e)
  \/ PopHead
  \/ PublishPopped
  \/ EndEvent
  \/ ApplyEvent

FullFlush ==
  \/ \E s \in States : MarkState(s)
  \/ WaitForFlush
  \/ ForcePurge
  \/ EndForcePurge
  \/ ApplyAndSnapshot
  \/ FinishFullFlush

Next ==
  \/ Operation
  \/ \E f \in Flushers : Work(f)
  \/ \E x \in Actors : Local(x)
  \/ Events
  \/ FullFlush

Spec == Init /\ [][Next]_vars

\* The daemons go on, a full flush goes on once it has begun, and so does a
\* thread in the middle of a call; whether an operation is called is up to
\* the application.
Fairness ==
  /\ \A f \in Flushers : WF_vars(Work(f))
  /\ \A x \in Actors : WF_vars(Local(x))
  /\ WF_vars(Events)
  /\ WF_vars(FullFlush)

FairSpec == Spec /\ Fairness

-----------------------------------------------------------------------------
(* Properties.  Sequence numbers order the operations by generation first:  *)
(* a thread that still indexes into the old queue while a full flush starts *)
(* comes before the operations on the new one.                              *)

Docs == {d \in 1..Len(log) : log[d].add}

Before(i, j) ==
  log[i].gen < log[j].gen \/ (log[i].gen = log[j].gen /\ i < j)

Deletes(d, j) == log[j].del # "none" /\ Before(d, j)

Killed(d, g) == \E j \in 1..Len(log) : Deletes(d, j) /\ log[j].gen <= g

\* What is in the index after all the operations of the generations up to g.
Expected(g) == {d \in Docs \ lost : log[d].gen <= g /\ ~Killed(d, g)}

Pipeline == (IF popped = None THEN <<>> ELSE <<popped>>) \o tickets

Written(t) == t.dwpt # None /\ t.status # "failed"

\* The DWPTs whose documents are not in a segment yet.
Buffered ==
  Unticketed \cup {t.dwpt : t \in {u \in Elements(Pipeline) : Written(u)}}

AliveDocs == (UNION {w.docs \ w.dead : w \in Buffered}) \cup LiveDocs(index)

Dwpts == [gen : 1..MaxGen, docs : SUBSET (1..MaxOps) \ {{}},
          dead : SUBSET (1..MaxOps), doomed : SUBSET (1..MaxOps)]

\* The types of the variables, and who owns what: a flusher has a DWPT in
\* hand just while it is in do_flush, and then at most one open ticket.
TypeOK ==
  /\ gen \in 1..MaxGen /\ pending \in [1..MaxGen -> SUBSET Kinds]
  /\ active \in [States -> Dwpts \cup {None}] /\ flushPending \subseteq Inited
  /\ Elements(flushQueue) \subseteq Dwpts
  /\ hand \in [Flushers -> Dwpts \cup {None}]
  /\ \A f \in Flushers :
       (hand[f] # None) <=> pc[f] \in {"taken", "ticketed", "flushed", "failed"}
  /\ \A f \in Flushers :
       pc[f] = "ticketed" <=>
         Cardinality({i \in 1..Len(tickets) :
                        tickets[i].owner = f /\ tickets[i].status = "open"}) = 1
  /\ \A w \in Buffered : w.dead \cup w.doomed \subseteq w.docs
  /\ \A seg \in index.segs : seg.live \subseteq seg.docs /\ seg.gen < index.next
  /\ \A i \in 1..Len(index.stream) : index.stream[i].gen < index.next
  /\ events \subseteq {"purge", "apply"} /\ applyFlag \in BOOLEAN
  /\ commit.gen < gen /\ commit.live \subseteq Docs

\* No document is lost on its way through check-out, ticket, publication,
\* delete application and pruning: unless an error dropped it, it is alive
\* somewhere or an operation after it deletes it.
NoDocVanishes == \A d \in Docs \ lost : d \in AliveDocs \/ Killed(d, gen)

\* A delete on its way to the document d: still in its queue, in a ticket
\* behind the one of the document, in a packet that applies to the segment.
Carried(d, j) ==
  LET k == log[j].del
      seg == CHOOSE x \in index.segs : d \in x.docs
  IN \/ k \in pending[log[j].gen]
     \/ \E w \in Buffered : d \in w.doomed
     \/ /\ \A w \in Unticketed : d \notin w.docs
        /\ \E i \in 1..Len(Pipeline) :
             /\ k \in Pipeline[i].dels
             /\ \A h \in i..Len(Pipeline) :
                  Written(Pipeline[h]) => d \notin Pipeline[h].dwpt.docs
     \/ /\ d \in LiveDocs(index)
        /\ \E p \in Elements(index.stream) :
             Applies(p, seg) /\ (IF p.private THEN d \in p.docs ELSE k \in p.dels)

\* No delete passes a document that it must delete: a document that is still
\* alive although a later operation deletes it will meet that delete
\* (flush_dwpt: tickets are published in the order in which they froze the
\* deletes, "otherwise the deletes frozen by 'B' are not applied to 'A'").
NoLostDelete ==
  \A d \in AliveDocs : \A j \in 1..Len(log) : Deletes(d, j) => Carried(d, j)

\* A commit has the effects of exactly the operations up to the start of its
\* full flush: documents and deletes, no delete of an update without its
\* document (prepare_commit_internal).
CommitReflects == commit.live = Expected(commit.gen)

\* has_uncommitted_changes misses nothing, wherever the changes are on
\* their way, except while a ticket is being published.
UncommittedSeen ==
  popped = None /\ commit.live # Expected(gen) => HasUncommittedChanges

\* The debug_assert! at the end of flush_all_threads: the old queue and the
\* ticket queue are empty, and stay so until the commit is taken.
FullFlushDrained ==
  cpc = "events" /\ fullFlush => pending[gen - 1] = {} /\ tickets = <<>>

\* A full flush that has begun ends: nobody waits for a DWPT that nobody
\* flushes, or for a ticket that nobody completes.
FullFlushEnds == cpc = "mark" ~> cpc = "idle"

\* The comment in any_changes: while all changes are in a ticket, the ticket
\* count shows them.
UncommittedAlwaysSeen ==
  commit.live # Expected(gen) => HasUncommittedChanges

\* The documentation of commit: all operations up to its sequence number
\* are reflected in the commit.
CommitHasEveryDoc ==
  \A d \in Docs : log[d].gen <= commit.gen /\ ~Killed(d, commit.gen)
                    => d \in commit.live
=============================================================================
