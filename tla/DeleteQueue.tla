---------------------------- MODULE DeleteQueue ----------------------------
(***************************************************************************)
(* The deletes of an IndexWriter go through one linked list shared by all  *)
(* the indexing threads (DocumentsWriterDeleteQueue).  A consumer of the   *)
(* list owns a slice of it, from a head it has applied to a tail it has    *)
(* seen.  There is one slice per DocumentsWriterPerThread (DWPT), applied  *)
(* to the deletes private to its segment, and one global slice, applied to *)
(* the global buffer, which is frozen into a packet whenever a segment is  *)
(* flushed or deletes are to be applied.                                   *)
(*                                                                         *)
(* Every step below is what one thread does while it holds one lock: the   *)
(* tail mutex is held within a step only, the global_data mutex is         *)
(* globalLock, taken in one step and released in a later one, so that      *)
(* other threads meet it locked.                                           *)
(*                                                                         *)
(* Nodes are the positions 1..Len(list); position 0 is the sentinel.  What *)
(* a node deletes is a target: a delete term, a delete query or a          *)
(* doc-values update; a document is represented by the one target that     *)
(* matches it.  The fields pos and seq of nodes and documents, and         *)
(* frozenUpto, are history: no action reads them.                          *)
(***************************************************************************)
EXTENDS Integers, Sequences

CONSTANTS Threads,     \* the indexing threads, each with its thread state
          Targets,     \* what documents are deleted by
          Queries,     \* the targets that are queries; the others are terms
          MaxSeqNo,    \* bound: how many operations take a sequence number
          MaxBatch,    \* bound: documents in one update_documents call
          NoThread     \* the lock holder when nobody holds the lock

ASSUME DeleteQueueAssumption ==
  /\ Queries \subseteq Targets
  /\ MaxSeqNo \in Nat
  /\ MaxBatch \in Nat \ {0}
  /\ NoThread \notin Threads

VARIABLES
  list,          \* the linked list, without its sentinel
  nextSeqNo,     \* next_seq_no
  globalLock,    \* the holder of the global_data mutex
  globalSlice,   \* global_data.global_slice
  globalBuffer,  \* global_data.global_buffered_updates
  frozenUpto,    \* history: the last position handed out in a packet
  slice,         \* per DWPT: delete_slice
  docs,          \* per DWPT: its documents, numbered from 0
  upto,          \* per DWPT: pending_updates, a doc_id_upto per target
  op,            \* per thread: the call it is in
  pc,            \* per thread: the step of the call it is at
  out            \* per thread: what the freeze it is in returns

queueVars == <<list, nextSeqNo>>
globalVars == <<globalLock, globalSlice, globalBuffer, frozenUpto>>
dwptVars == <<slice, docs, upto>>
threadVars == <<op, pc>>
vars == <<queueVars, globalVars, dwptVars, threadVars, out>>

Node == [target : Targets, seq : Nat]
Doc == [target : Targets, pos : Nat, seq : Nat]
Slice == [head : Nat, tail : Nat]
NoOp == [kind |-> "none"]
Batches == UNION {[1..n -> Targets] : n \in 1..MaxBatch}
AddOp == [kind : {"add"}, targets : Batches, seq : Nat]
UpdateOp == [kind : {"update"}, batch : BOOLEAN, targets : Batches,
             del : Targets, seq : Nat]
Ops == {NoOp} \cup AddOp \cup UpdateOp
         \cup [kind : {"delete", "flush", "freeze", "clear"}]
PCs == {"idle", "index", "slice", "try", "apply", "finish", "locked",
        "return"}

tail == Len(list)
EmptySlice(p) == [head |-> p, tail |-> p]

\* The targets of the nodes after position a and up to position b.
TargetsIn(a, b) == {list[p].target : p \in (a + 1)..b}

Nothing == [kind |-> "none"]

Init ==
  /\ list = <<>>
  /\ nextSeqNo = 1
  /\ globalLock = NoThread
  /\ globalSlice = EmptySlice(0)
  /\ globalBuffer = {}
  /\ frozenUpto = 0
  /\ slice = [t \in Threads |-> EmptySlice(0)]
  /\ docs = [t \in Threads |-> <<>>]
  /\ upto = [t \in Threads |-> [k \in Targets |-> 0]]
  /\ op = [t \in Threads |-> NoOp]
  /\ pc = [t \in Threads |-> "idle"]
  /\ out = [t \in Threads |-> Nothing]

-----------------------------------------------------------------------------
(* Slices and the buffers they are applied to.                              *)

\* Mutant: the limit is off by one.
ApplySlice_LimitOffByOne(m, s, n) ==
  [k \in Targets |-> IF k \in TargetsIn(s.head, s.tail) THEN n - 1 ELSE m[k]]

\* DeleteSlice::apply on the pending updates m of a DWPT: every node after
\* the head up to the tail is recorded with the limit n.  A term keeps the
\* larger limit (add_term), a query the latest one (add_query).
ApplySlice(m, s, n) ==
  [k \in Targets |->
     IF k \notin TargetsIn(s.head, s.tail) THEN m[k]
     ELSE IF k \in Queries \/ n > m[k] THEN n ELSE m[k]]

\* DeleteSlice::reset
Reset(s) == EmptySlice(s.tail)

\* The documents of thread t that its pending updates leave alive, in order.
LiveDocs(t, m) ==
  {i \in 1..Len(docs[t]) : i > m[docs[t][i].target]}

-----------------------------------------------------------------------------
(* An indexing call: update_document or update_documents, with or without a *)
(* delete term.                                                             *)

\* A thread enters a call that indexes the documents ts.  The first call on
\* a fresh DWPT starts its slice at the current tail (new_slice).
BeginIndex(t, o) ==
  /\ pc[t] = "idle"
  /\ op' = [op EXCEPT ![t] = o]
  /\ pc' = [pc EXCEPT ![t] = "index"]
  /\ slice' = IF docs[t] = <<>>
              THEN [slice EXCEPT ![t] = EmptySlice(tail)] ELSE slice
  /\ UNCHANGED <<queueVars, globalVars, docs, upto, out>>

BeginAdd(t) ==
  \E ts \in Batches :
    BeginIndex(t, [kind |-> "add", targets |-> ts, seq |-> 0])

BeginUpdate(t) ==
  \E b \in BOOLEAN, ts \in Batches, k \in Targets \ Queries :
    /\ ~b => Len(ts) = 1
    /\ BeginIndex(t, [kind |-> "update", batch |-> b, targets |-> ts,
                      del |-> k, seq |-> 0])

\* process_document fails before the slice is touched: the DocumentsWriter
\* aborts the DWPT, and all it buffered is gone.
AbortDwpt(t) ==
  /\ pc[t] = "index"
  /\ docs' = [docs EXCEPT ![t] = <<>>]
  /\ upto' = [upto EXCEPT ![t] = [k \in Targets |-> 0]]
  /\ op' = [op EXCEPT ![t] = NoOp]
  /\ pc' = [pc EXCEPT ![t] = "idle"]
  /\ UNCHANGED <<queueVars, globalVars, slice, out>>

\* Mutant: the slice is applied to the documents of the call as well.
FinishDocuments_OwnDocuments(t, o, s, p, applies) ==
  /\ upto' = [upto EXCEPT ![t] =
                ApplySlice(@, s, Len(docs[t]) + Len(o.targets))]
  /\ slice' = [slice EXCEPT ![t] = Reset(s)]
  /\ docs' = [docs EXCEPT ![t] = @ \o
                [i \in 1..Len(o.targets) |->
                   [target |-> o.targets[i], pos |-> p, seq |-> o.seq]]]
  /\ op' = [op EXCEPT ![t] = NoOp]
  /\ pc' = [pc EXCEPT ![t] = "idle"]

\* What a DWPT holds once its documents of call o are in, at list position
\* p.  A batch, or a document added to a non-empty DWPT, has its slice
\* applied to the documents before it; otherwise the slice is reset.
FinishDocuments(t, o, s, p, applies) ==
  /\ upto' = [upto EXCEPT ![t] =
                IF applies THEN ApplySlice(@, s, Len(docs[t])) ELSE @]
  /\ slice' = [slice EXCEPT ![t] = Reset(s)]
  /\ docs' = [docs EXCEPT ![t] = @ \o
                [i \in 1..Len(o.targets) |->
                   [target |-> o.targets[i], pos |-> p, seq |-> o.seq]]]
  /\ op' = [op EXCEPT ![t] = NoOp]
  /\ pc' = [pc EXCEPT ![t] = "idle"]

\* update_slice, first half: the sequence number is taken before the tail
\* is locked.
TakeSeqNo(t) ==
  /\ pc[t] = "index"
  /\ op[t].kind = "add"
  /\ nextSeqNo <= MaxSeqNo
  /\ nextSeqNo' = nextSeqNo + 1
  /\ op' = [op EXCEPT ![t].seq = nextSeqNo]
  /\ pc' = [pc EXCEPT ![t] = "slice"]
  /\ UNCHANGED <<list, globalVars, dwptVars, out>>

\* update_slice, second half, and the end of finish_document.
UpdateSlice(t) ==
  /\ pc[t] = "slice"
  /\ FinishDocuments(t, op[t], [slice[t] EXCEPT !.tail = tail], tail,
                     slice[t].tail # tail)
  /\ UNCHANGED <<queueVars, globalVars, out>>

\* Mutant: the sequence number is read but not advanced.
AddNode_SeqNoNotAdvanced(k) ==
  /\ nextSeqNo <= MaxSeqNo
  /\ tail < MaxSeqNo
  /\ list' = Append(list, [target |-> k, seq |-> nextSeqNo])
  /\ UNCHANGED nextSeqNo

\* add_node: under the tail lock the node is linked, becomes the tail and
\* gets its sequence number.
AddNode(k) ==
  /\ nextSeqNo <= MaxSeqNo
  /\ list' = Append(list, [target |-> k, seq |-> nextSeqNo])
  /\ nextSeqNo' = nextSeqNo + 1

\* add_term_to_slice up to its try_apply_global_slice: the slice of the
\* DWPT ends at the node just added.
AddTermToSlice(t) ==
  /\ pc[t] = "index"
  /\ op[t].kind = "update"
  /\ AddNode(op[t].del)
  /\ slice' = [slice EXCEPT ![t].tail = tail + 1]
  /\ op' = [op EXCEPT ![t].seq = nextSeqNo]
  /\ pc' = [pc EXCEPT ![t] = "try"]
  /\ UNCHANGED <<globalVars, docs, upto, out>>

\* Mutant: the slice of an update ends at whatever is the tail by then, not
\* at the node of its own delete term.
FinishUpdate_LatestTail(t) ==
  /\ pc[t] = "finish"
  /\ FinishDocuments(t, op[t], [slice[t] EXCEPT !.tail = tail], tail,
                     op[t].batch \/ docs[t] # <<>>)
  /\ UNCHANGED <<queueVars, globalVars, out>>

\* The end of finish_document, or of do_update_documents, for an update.
FinishUpdate(t) ==
  /\ pc[t] = "finish"
  /\ FinishDocuments(t, op[t], slice[t], slice[t].tail,
                     op[t].batch \/ docs[t] # <<>>)
  /\ UNCHANGED <<queueVars, globalVars, out>>

-----------------------------------------------------------------------------
(* Deletes without a document, and the global slice.                        *)

\* add_delete_terms, add_delete_queries or add_doc_values_update, up to
\* try_apply_global_slice.
Delete(t) ==
  /\ pc[t] = "idle"
  /\ \E k \in Targets : AddNode(k)
  /\ op' = [op EXCEPT ![t] = [kind |-> "delete"]]
  /\ pc' = [pc EXCEPT ![t] = "try"]
  /\ UNCHANGED <<globalVars, dwptVars, out>>

\* The step after try_apply_global_slice: a delete returns, an update still
\* has to finish its documents.
AfterTry(t) ==
  IF op[t].kind = "update"
  THEN /\ pc' = [pc EXCEPT ![t] = "finish"]
       /\ op' = op
  ELSE /\ pc' = [pc EXCEPT ![t] = "idle"]
       /\ op' = [op EXCEPT ![t] = NoOp]

\* try_apply_global_slice: global_data.try_lock.
TryLockGlobal(t) ==
  /\ pc[t] = "try"
  /\ IF globalLock = NoThread
     THEN /\ globalLock' = t
          /\ pc' = [pc EXCEPT ![t] = "apply"]
          /\ op' = op
     ELSE /\ AfterTry(t)
          /\ UNCHANGED globalLock
  /\ UNCHANGED <<queueVars, globalSlice, globalBuffer, frozenUpto, dwptVars,
                 out>>

\* The global slice moves to the current tail and is applied, unless it is
\* there already.
CatchUpGlobal ==
  IF globalSlice.tail = tail
  THEN UNCHANGED <<globalSlice, globalBuffer>>
  ELSE /\ globalBuffer' = globalBuffer \cup TargetsIn(globalSlice.head, tail)
       /\ globalSlice' = EmptySlice(tail)

\* try_apply_global_slice with the lock held.
ApplyGlobalSlice(t) ==
  /\ pc[t] = "apply"
  /\ CatchUpGlobal
  /\ globalLock' = NoThread
  /\ AfterTry(t)
  /\ UNCHANGED <<queueVars, frozenUpto, dwptVars, out>>

-----------------------------------------------------------------------------
(* Freezing and clearing the global buffer.                                 *)

\* A thread starts prepare_flush of its DWPT, freeze_global_buffer without a
\* slice, or clear: all three block until they have the global_data mutex.
LockGlobal(t) ==
  /\ pc[t] = "idle"
  /\ globalLock = NoThread
  /\ globalLock' = t
  /\ \E k \in {"flush", "freeze", "clear"} :
       /\ k = "flush" => docs[t] # <<>>
       /\ op' = [op EXCEPT ![t] = [kind |-> k]]
  /\ pc' = [pc EXCEPT ![t] = "locked"]
  /\ UNCHANGED <<queueVars, globalSlice, globalBuffer, frozenUpto, dwptVars,
                 out>>

Unlock(t, result) ==
  /\ globalLock' = NoThread
  /\ out' = [out EXCEPT ![t] = result]
  /\ op' = [op EXCEPT ![t] = NoOp]
  /\ pc' = [pc EXCEPT ![t] = "return"]

\* The caller takes what the freeze handed out.
Return(t) ==
  /\ pc[t] = "return"
  /\ out' = [out EXCEPT ![t] = Nothing]
  /\ pc' = [pc EXCEPT ![t] = "idle"]
  /\ UNCHANGED <<queueVars, globalVars, dwptVars, op>>

\* The packet freeze_global_buffer makes: everything in the buffer once the
\* global slice has caught up with the tail.
Packet ==
  IF globalSlice.tail = tail
  THEN globalBuffer ELSE globalBuffer \cup TargetsIn(globalSlice.head, tail)

\* Mutant: the buffer is not cleared once it is frozen.
FreezeGlobalBuffer_NotCleared ==
  /\ UNCHANGED globalBuffer
  /\ globalSlice' = EmptySlice(tail)
  /\ frozenUpto' = tail

\* freeze_global_buffer under both locks: the packet is handed out, the
\* buffer cleared.
FreezeGlobalBuffer ==
  /\ globalBuffer' = {}
  /\ globalSlice' = IF globalSlice.tail = tail
                    THEN globalSlice ELSE EmptySlice(tail)
  /\ frozenUpto' = tail

\* freeze_global_buffer without a caller slice.
Freeze(t) ==
  /\ pc[t] = "locked"
  /\ op[t].kind = "freeze"
  /\ FreezeGlobalBuffer
  /\ Unlock(t, [kind |-> "packet", packet |-> Packet])
  /\ UNCHANGED <<queueVars, dwptVars>>

\* prepare_flush: freeze_global_buffer with the slice of the DWPT, which is
\* then applied to all its documents; the flush that follows writes the
\* documents the pending updates leave alive and drops the DWPT.
PrepareFlush(t) ==
  /\ pc[t] = "locked"
  /\ op[t].kind = "flush"
  /\ FreezeGlobalBuffer
  /\ LET m == ApplySlice(upto[t], [slice[t] EXCEPT !.tail = tail],
                         Len(docs[t]))
     IN  Unlock(t, [kind |-> "segment", packet |-> Packet,
                    live |-> LiveDocs(t, m)])
  /\ slice' = [slice EXCEPT ![t] = EmptySlice(tail)]
  /\ docs' = [docs EXCEPT ![t] = <<>>]
  /\ upto' = [upto EXCEPT ![t] = [k \in Targets |-> 0]]
  /\ UNCHANGED queueVars

\* clear: the global slice jumps to the tail without being applied.
Clear(t) ==
  /\ pc[t] = "locked"
  /\ op[t].kind = "clear"
  /\ globalSlice' = EmptySlice(tail)
  /\ globalBuffer' = {}
  /\ frozenUpto' = tail
  /\ Unlock(t, Nothing)
  /\ UNCHANGED <<queueVars, dwptVars>>

\* Mutant: nodes the global slice has not reached yet are overlooked.
AnyChanges_BufferOnly ==
  \/ globalBuffer # {}
  \/ globalSlice.head # globalSlice.tail

\* any_changes, read under both locks.
AnyChanges ==
  \/ globalBuffer # {}
  \/ globalSlice.head # globalSlice.tail
  \/ globalSlice.tail # tail

-----------------------------------------------------------------------------
ThreadStep(t) ==
  \/ BeginAdd(t) \/ BeginUpdate(t) \/ AbortDwpt(t)
  \/ TakeSeqNo(t) \/ UpdateSlice(t)
  \/ AddTermToSlice(t) \/ FinishUpdate(t)
  \/ Delete(t) \/ TryLockGlobal(t) \/ ApplyGlobalSlice(t)
  \/ LockGlobal(t) \/ Freeze(t) \/ PrepareFlush(t) \/ Clear(t) \/ Return(t)

Next == \E t \in Threads : ThreadStep(t)

Spec == Init /\ [][Next]_vars

-----------------------------------------------------------------------------
(* Properties.                                                              *)

\* The types of the variables (the fields of DocumentsWriterDeleteQueue and
\* DocumentsWriterPerThread).
TypeOK ==
  /\ list \in Seq(Node)
  /\ nextSeqNo \in Nat
  /\ globalLock \in Threads \cup {NoThread}
  /\ globalSlice \in Slice
  /\ globalBuffer \subseteq Targets
  /\ frozenUpto \in Nat
  /\ slice \in [Threads -> Slice]
  /\ docs \in [Threads -> Seq(Doc)]
  /\ upto \in [Threads -> [Targets -> Nat]]
  /\ op \in [Threads -> Ops]
  /\ pc \in [Threads -> PCs]

\* No delete is lost or handed out twice: the global buffer holds exactly the
\* deletes linked since the last packet and up to the global slice, although
\* threads skip try_apply_global_slice whenever they find the lock taken.
GlobalBufferExact ==
  /\ frozenUpto <= globalSlice.head
  /\ globalSlice.head = globalSlice.tail
  /\ globalSlice.tail <= tail
  /\ globalBuffer = TargetsIn(frozenUpto, globalSlice.head)

\* The deletes private to a DWPT are exact: a buffered document is below the
\* limit of its target if and only if a matching delete was linked after the
\* document and before the point up to which the slice has been applied.
PrivateDeletesExact ==
  \A t \in Threads :
    /\ slice[t].head <= slice[t].tail /\ slice[t].tail <= tail
    /\ \A i \in 1..Len(docs[t]) :
         LET d == docs[t][i] IN
         /\ d.pos <= slice[t].head
         /\ i <= upto[t][d.target]
              <=> d.target \in TargetsIn(d.pos, slice[t].head)

\* any_changes tells the truth: when it answers no while it holds the lock,
\* every delete linked so far is in a packet (or was cleared).
AnyChangesSound ==
  globalLock = NoThread /\ ~AnyChanges => frozenUpto = tail

\* Updates are numbered in the order they take effect: relative to the
\* documents of an update, whose sequence number is that of the node of its
\* delete term, the deletes with larger numbers are exactly those linked
\* behind that node, which are the ones that delete the documents.
UpdateSeqNoOrder ==
  \A t \in Threads : \A i \in 1..Len(docs[t]) : \A p \in 1..tail :
    LET d == docs[t][i] IN
    d.pos > 0 /\ list[d.pos].seq = d.seq
      => (list[p].seq > d.seq <=> p > d.pos)

\* "Each method that changes the index returns a sequence number, which
\* expresses the effective order in which each change was applied"
\* (IndexWriter): a delete numbered after the addition of a document that
\* matches it takes effect after the addition.
SeqNoIsEffectiveOrder ==
  \A t \in Threads : \A i \in 1..Len(docs[t]) : \A p \in 1..tail :
    LET d == docs[t][i] IN
    list[p].target = d.target /\ list[p].seq > d.seq => p > d.pos

\* The documents of an update whose delete term is linked but which are not
\* in the DWPT yet: they take effect at the node of their delete term.
InFlight(t) ==
  IF op[t].kind = "update" /\ pc[t] \in {"try", "apply", "finish"}
  THEN [i \in 1..Len(op[t].targets) |->
          [target |-> op[t].targets[i], pos |-> slice[t].tail,
           seq |-> op[t].seq]]
  ELSE <<>>

Alive(d) == d.target \notin TargetsIn(d.pos, tail)

RamOf(ds) ==
  [i \in 1..Len(ds) |-> [target |-> ds[i].target, live |-> Alive(ds[i])]]

Order == INSTANCE DeleteOrder WITH
           ram <- [t \in Threads |-> RamOf(docs[t] \o InFlight(t))],
           pending <- TargetsIn(frozenUpto, tail)

\* The queue with its slices, limits and skipped try_locks implements the
\* one-at-a-time order of DeleteOrder: what a flush writes and freezes is
\* what that order says.
ImplementsDeleteOrder == Order!Spec
=============================================================================
