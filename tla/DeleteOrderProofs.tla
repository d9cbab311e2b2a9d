-------------------------- MODULE DeleteOrderProofs --------------------------
(***************************************************************************)
(* The delete queue implements the one-at-a-time order of DeleteOrder, and *)
(* numbers its updates in that order, for any number of threads, targets   *)
(* and operations.  Both rest on the inductive invariant of                *)
(* DeleteQueueProofs.                                                      *)
(***************************************************************************)
EXTENDS DeleteQueueProofs

-----------------------------------------------------------------------------
(* Sequence numbers.                                                        *)

\* The nodes are numbered in the order of the list, below next_seq_no.
SeqNosInOrder ==
  /\ \A p \in 1..tail : list[p].seq < nextSeqNo
  /\ \A p, q \in 1..tail : p < q => list[p].seq < list[q].seq

\* What a step does to the list and to next_seq_no.
LEMMA SeqNoStep ==
  ASSUME TypeOK, OpMatchesPC, NEW t \in Threads, ThreadStep(t)
  PROVE  \/ \E k \in Targets : AddNode(k)
         \/ list' = list /\ nextSeqNo' \in {nextSeqNo, nextSeqNo + 1}
<1>1. CASE AddTermToSlice(t) \/ Delete(t)
  BY <1>1, LinkStepFrame
<1>2. CASE LocalStep(t)
  <2>1. list' = list
    BY <1>2, LocalStepFrame
  <2>2. nextSeqNo' \in {nextSeqNo, nextSeqNo + 1}
    BY <1>2 DEF LocalStep, BeginAdd, BeginUpdate, BeginIndex, AbortDwpt,
                TakeSeqNo, UpdateSlice, FinishUpdate, TryLockGlobal,
                LockGlobal, Return, queueVars
  <2> QED
    BY <2>1, <2>2
<1>3. CASE \/ ApplyGlobalSlice(t) \/ Freeze(t) \/ PrepareFlush(t)
           \/ Clear(t)
  BY <1>3 DEF ApplyGlobalSlice, Freeze, PrepareFlush, Clear, queueVars
<1> QED
  BY <1>1, <1>2, <1>3 DEF ThreadStep, LocalStep

\* Every step keeps the sequence numbers in the order of the list.
LEMMA SeqNosInOrderStep ==
  ASSUME IInv, SeqNosInOrder, [Next]_vars
  PROVE  SeqNosInOrder'
<1>a. list \in Seq(Node) /\ nextSeqNo \in Nat
  BY DEF IInv, TypeOK
<1>b. \A p \in 1..Len(list) : list[p].seq \in Nat
  <2>1. \A p \in 1..Len(list) : list[p] \in Node
    BY <1>a
  <2> QED
    BY <2>1 DEF Node
<1>1. CASE UNCHANGED vars
  BY <1>1 DEF SeqNosInOrder, vars, queueVars, tail
<1>2. CASE list' = list /\ nextSeqNo' \in {nextSeqNo, nextSeqNo + 1}
  BY <1>2, <1>a, <1>b DEF SeqNosInOrder, tail
<1>3. ASSUME NEW k \in Targets, AddNode(k)
      PROVE  SeqNosInOrder'
  <2>1. /\ Len(list') = Len(list) + 1 /\ Len(list) \in Nat
        /\ \A p \in 1..Len(list) : list'[p] = list[p]
        /\ list'[Len(list) + 1].seq = nextSeqNo
        /\ nextSeqNo' = nextSeqNo + 1
    BY <1>3, <1>a DEF AddNode
  <2>2. \A p \in 1..Len(list) : list[p].seq < nextSeqNo
    BY DEF SeqNosInOrder, tail
  <2>3. ASSUME NEW p \in 1..Len(list')
        PROVE  list'[p].seq < nextSeqNo'
    <3>1. CASE p \in 1..Len(list)
      BY <3>1, <2>1, <2>2, <1>a, <1>b
    <3>2. CASE p = Len(list) + 1
      BY <3>2, <2>1, <1>a
    <3> QED
      BY <3>1, <3>2, <2>1
  <2>4. ASSUME NEW p \in 1..Len(list'), NEW q \in 1..Len(list'), p < q
        PROVE  list'[p].seq < list'[q].seq
    <3>1. p \in 1..Len(list)
      BY <2>1, <2>4
    <3>2. CASE q \in 1..Len(list)
      BY <3>1, <3>2, <2>1, <2>4 DEF SeqNosInOrder, tail
    <3>3. CASE q = Len(list) + 1
      BY <3>1, <3>3, <2>1, <2>2
    <3> QED
      BY <3>2, <3>3, <2>1
  <2> QED
    BY <2>3, <2>4 DEF SeqNosInOrder, tail
<1> QED
  BY <1>1, <1>2, <1>3, SeqNoStep DEF IInv, Next

\* Relative to the documents of an update the sequence numbers of deletes
\* are the order in which they take effect: add_node numbers a node under
\* the lock under which it is linked.
THEOREM UpdateSeqNoCorrect == Spec => []UpdateSeqNoOrder
<1>1. Init => SeqNosInOrder
  BY DEF Init, SeqNosInOrder, tail
<1>2. ASSUME IInv, SeqNosInOrder PROVE UpdateSeqNoOrder
  <2>1. SUFFICES ASSUME NEW t \in Threads, NEW i \in 1..Len(docs[t]),
                        NEW p \in 1..tail, docs[t][i].pos > 0,
                        list[docs[t][i].pos].seq = docs[t][i].seq
                 PROVE  list[p].seq > docs[t][i].seq <=> p > docs[t][i].pos
    BY DEF UpdateSeqNoOrder
  <2>2. docs[t][i] \in Doc /\ slice[t] \in Slice /\ tail \in Nat
    BY <1>2 DEF IInv, TypeOK, tail
  <2>3. docs[t][i].pos <= slice[t].head /\ slice[t].head <= tail
    BY <1>2, <2>2 DEF IInv, DwptInv, Slice
  <2>4. docs[t][i].pos \in 1..tail
    BY <2>1, <2>2, <2>3 DEF Doc, Slice
  <2>5. list[p] \in Node /\ list[docs[t][i].pos] \in Node
    BY <1>2, <2>4 DEF IInv, TypeOK, tail
  <2>6. list[p].seq \in Nat /\ list[docs[t][i].pos].seq \in Nat
    BY <2>5 DEF Node
  <2> QED
    BY <1>2, <2>1, <2>4, <2>6 DEF SeqNosInOrder
<1> QED
  BY <1>1, <1>2, Invariance, SeqNosInOrderStep, PTL DEF Spec

-----------------------------------------------------------------------------
(* The refinement mapping, over a list given as a parameter so that it can  *)
(* be compared between the two states of a step.                            *)

\* The documents of the DWPT of t in the order: those of the update it is in
\* the middle of are there as soon as the delete term is linked.
DocsOf(t) == docs[t] \o InFlight(t)

TargetsOf(l, a, b) == {l[p].target : p \in (a + 1)..b}

RamIn(l, ds) ==
  [i \in 1..Len(ds) |->
     [target |-> ds[i].target,
      live |-> ds[i].target \notin TargetsOf(l, ds[i].pos, Len(l))]]

\* The ram of DeleteOrder.
Ram == [t \in Threads |-> RamIn(list, DocsOf(t))]

\* The refinement mapping of the buffered documents, written with the list and
\* the documents of a thread as arguments.
LEMMA RamIsMapping ==
  /\ Ram = [t \in Threads |-> RamOf(docs[t] \o InFlight(t))]
  /\ Ram' = [t \in Threads |-> RamOf(docs[t] \o InFlight(t))]'
  /\ \A t \in Threads : /\ RamOf(docs[t] \o InFlight(t)) = RamIn(list, DocsOf(t))
                         /\ Ram[t] = RamIn(list, DocsOf(t))
BY DEF Ram, RamIn, RamOf, DocsOf, Alive, TargetsIn, TargetsOf, tail

\* The mapping treats the documents one by one.
LEMMA RamConcat ==
  ASSUME NEW l, NEW a \in Seq(Doc), NEW b \in Seq(Doc)
  PROVE  RamIn(l, a \o b) = RamIn(l, a) \o RamIn(l, b)
<1> DEFINE r == RamIn(l, a \o b)
           s == RamIn(l, a) \o RamIn(l, b)
           R == [target : Targets, live : BOOLEAN]
<1>1. \A ds \in Seq(Doc) : RamIn(l, ds) \in Seq(R) /\ Len(RamIn(l, ds)) = Len(ds)
  <2>1. SUFFICES ASSUME NEW ds \in Seq(Doc)
                 PROVE  RamIn(l, ds) \in [1..Len(ds) -> R]
    BY DEF RamIn
  <2>2. \A i \in 1..Len(ds) : ds[i] \in Doc
    OBVIOUS
  <2> QED
    BY <2>2 DEF RamIn, Doc
<1>2. a \o b \in Seq(Doc) /\ Len(a \o b) = Len(a) + Len(b)
  BY ConcatProperties
<1>3. r \in Seq(R) /\ s \in Seq(R) /\ Len(r) = Len(s) /\ Len(r) = Len(a) + Len(b)
  <2>1. r \in Seq(R) /\ Len(r) = Len(a) + Len(b)
    BY <1>1, <1>2
  <2>2. /\ RamIn(l, a) \in Seq(R) /\ Len(RamIn(l, a)) = Len(a)
        /\ RamIn(l, b) \in Seq(R) /\ Len(RamIn(l, b)) = Len(b)
    BY <1>1
  <2>3. s \in Seq(R) /\ Len(s) = Len(a) + Len(b)
    <3> HIDE DEF R
    <3>1. \A x, y \in Seq(R) :
            x \o y \in Seq(R) /\ Len(x \o y) = Len(x) + Len(y)
      BY ConcatProperties
    <3> QED
      BY <2>2, <3>1
  <2> QED
    BY <2>1, <2>3
<1>4. ASSUME NEW i \in 1..Len(r) PROVE r[i] = s[i]
  <2>1. CASE i \in 1..Len(a)
    <3>1. (a \o b)[i] = a[i] /\ s[i] = RamIn(l, a)[i]
      BY <2>1, <1>1, ConcatParts
    <3> QED
      BY <3>1, <2>1, <1>2, <1>3 DEF RamIn
  <2>2. CASE i - Len(a) \in 1..Len(b)
    <3> DEFINE j == i - Len(a)
    <3>1. i = Len(a) + j /\ i \in 1..Len(a \o b)
      BY <1>2, <1>3
    <3>2. (a \o b)[Len(a) + j] = b[j] /\ s[Len(a) + j] = RamIn(l, b)[j]
      BY <2>2, <1>1, ConcatParts
    <3> QED
      BY <3>1, <3>2, <2>2 DEF RamIn
  <2>3. Len(a) \in Nat /\ Len(b) \in Nat /\ i \in 1..(Len(a) + Len(b))
    BY <1>3
  <2>4. i \in 1..Len(a) \/ i - Len(a) \in 1..Len(b)
    BY <2>3
  <2> QED
    BY <2>1, <2>2, <2>4
<1> QED
  BY <1>3, <1>4, SeqEqual

\* Documents that take effect at the end of the list are alive.
LEMMA RamFresh ==
  ASSUME NEW l \in Seq(Node), NEW o \in AddOp \cup UpdateOp
  PROVE  RamIn(l, NewDocs(o, Len(l))) = Order!Fresh(o.targets)
<1>1. /\ Len(NewDocs(o, Len(l))) = Len(o.targets)
      /\ \A i \in 1..Len(o.targets) :
           /\ NewDocs(o, Len(l))[i].target = o.targets[i]
           /\ NewDocs(o, Len(l))[i].pos = Len(l)
  BY NewDocsType
<1>2. \A k : k \notin TargetsOf(l, Len(l), Len(l))
  BY DEF TargetsOf
<1> QED
  BY <1>1, <1>2 DEF RamIn, Order!Fresh

\* Linking a node kills what matches it.
LEMMA RamKill ==
  ASSUME NEW l \in Seq(Node), NEW n \in Node, NEW ds \in Seq(Doc),
         \A i \in 1..Len(ds) : ds[i].pos <= Len(l)
  PROVE  RamIn(Append(l, n), ds) = Order!Kill(RamIn(l, ds), n.target)
<1> DEFINE x == Append(l, n)
<1>1. /\ Len(x) = Len(l) + 1 /\ Len(l) \in Nat
      /\ \A p \in 1..Len(l) : x[p] = l[p]
      /\ x[Len(l) + 1] = n
  OBVIOUS
<1>2. ASSUME NEW i \in 1..Len(ds)
      PROVE  TargetsOf(x, ds[i].pos, Len(x))
               = TargetsOf(l, ds[i].pos, Len(l)) \cup {n.target}
  <2> DEFINE a == ds[i].pos
  <2>1. a \in Nat /\ a <= Len(l)
    <3>1. ds[i] \in Doc
      OBVIOUS
    <3> QED
      BY <3>1 DEF Doc
  <2>2. (a + 1)..Len(x) = ((a + 1)..Len(l)) \cup {Len(l) + 1}
    BY <1>1, <2>1
  <2>3. \A p \in (a + 1)..Len(l) : x[p] = l[p]
    BY <1>1, <2>1
  <2> QED
    BY <1>1, <2>2, <2>3 DEF TargetsOf
<1>3. Len(RamIn(l, ds)) = Len(ds)
  BY DEF RamIn
<1>4. \A i \in 1..Len(ds) :
        /\ RamIn(l, ds)[i].target = ds[i].target
        /\ RamIn(l, ds)[i].live
             = (ds[i].target \notin TargetsOf(l, ds[i].pos, Len(l)))
  BY DEF RamIn
<1>5. \A i \in 1..Len(ds) :
        (ds[i].target \notin TargetsOf(x, ds[i].pos, Len(x)))
          = (RamIn(l, ds)[i].live /\ RamIn(l, ds)[i].target # n.target)
  BY <1>2, <1>4
<1> QED
  BY <1>3, <1>4, <1>5 DEF RamIn, Order!Kill

-----------------------------------------------------------------------------
(* The steps.                                                               *)

\* Only a thread that is about to return from a freeze holds its result.
OutIdle ==
  /\ out = [t \in Threads |-> out[t]]
  /\ \A t \in Threads : pc[t] # "return" => out[t] = Nothing

\* Every step keeps OutIdle.
LEMMA OutIdleStep ==
  ASSUME TypeOK, OutIdle, [Next]_vars
  PROVE  OutIdle'
<1>1. CASE UNCHANGED vars
  BY <1>1 DEF OutIdle, vars, threadVars
<1>2. ASSUME NEW t \in Threads, ThreadStep(t)
      PROVE  OutIdle'
  <2> USE DEF threadVars
  <2>1. CASE out' = out /\ pc[t] # "return"
    <3>1. \A u \in Threads : pc'[u] # "return" => pc[u] # "return"
      BY <1>2, <2>1, OtherFrame
    <3> QED
      BY <2>1, <3>1 DEF OutIdle
  <2>2. CASE \E r : Unlock(t, r)
    BY <2>2 DEF OutIdle, Unlock, TypeOK
  <2>3. CASE Return(t)
    BY <2>3 DEF OutIdle, Return, TypeOK
  <2>4. \/ out' = out /\ pc[t] # "return"
        \/ \E r : Unlock(t, r)
        \/ Return(t)
    BY <1>2 DEF ThreadStep, BeginAdd, BeginUpdate, BeginIndex, AbortDwpt,
       TakeSeqNo, UpdateSlice, AddTermToSlice, FinishUpdate, Delete,
       TryLockGlobal, ApplyGlobalSlice, LockGlobal, Freeze, PrepareFlush,
       Clear
  <2> QED
    BY <2>1, <2>2, <2>3, <2>4
<1> QED
  BY <1>1, <1>2 DEF Next

\* The documents of t with those of its unfinished update.
LEMMA DocsOfShape ==
  ASSUME NEW t \in Threads
  PROVE  /\ InUpdate(t) => InFlight(t) = NewDocs(op[t], slice[t].tail)
         /\ ~InUpdate(t) => InFlight(t) = <<>>
BY DEF InUpdate, InFlight, NewDocs

\* The documents of a thread, those in flight included, are typed and lie
\* before the tail.
LEMMA DocsOfType ==
  ASSUME IInv, NEW t \in Threads
  PROVE  /\ docs[t] \in Seq(Doc)
         /\ DocsOf(t) \in Seq(Doc)
         /\ \A i \in 1..Len(DocsOf(t)) : DocsOf(t)[i].pos <= tail
         /\ ~InUpdate(t) => DocsOf(t) = docs[t]
<1>1. /\ docs[t] \in Seq(Doc) /\ slice[t] \in Slice /\ op[t] \in Ops
      /\ tail \in Nat /\ DwptInv(t)
  BY DEF IInv, TypeOK, tail
<1>2. /\ slice[t].tail \in Nat /\ slice[t].tail <= tail
      /\ slice[t].head \in Nat /\ slice[t].head <= slice[t].tail
  BY <1>1 DEF DwptInv, Slice
<1>3. \A i \in 1..Len(docs[t]) : docs[t][i].pos <= tail
  <2>1. \A i \in 1..Len(docs[t]) : docs[t][i] \in Doc
    BY <1>1
  <2> QED
    BY <1>1, <1>2, <2>1 DEF DwptInv, Doc
<1>4. CASE ~InUpdate(t)
  <2>1. DocsOf(t) = docs[t]
    BY <1>1, <1>4, DocsOfShape, ConcatEmptySeq DEF DocsOf
  <2> QED
    BY <1>1, <1>3, <2>1
<1>5. CASE InUpdate(t)
  <2>1. op[t] \in UpdateOp
    BY <1>1, <1>5, OpKinds DEF InUpdate
  <2>2. DocsOf(t) = docs[t] \o NewDocs(op[t], slice[t].tail)
    BY <1>5, DocsOfShape DEF DocsOf
  <2>3. /\ NewDocs(op[t], slice[t].tail) \in Seq(Doc)
        /\ \A i \in 1..Len(NewDocs(op[t], slice[t].tail)) :
             NewDocs(op[t], slice[t].tail)[i].pos = slice[t].tail
    BY <1>2, <2>1, NewDocsType
  <2>4. DocsOf(t) \in Seq(Doc)
    BY <1>1, <2>2, <2>3, ConcatProperties
  <2>5. ASSUME NEW i \in 1..Len(DocsOf(t)) PROVE DocsOf(t)[i].pos <= tail
    <3>1. /\ Len(docs[t]) \in Nat /\ Len(NewDocs(op[t], slice[t].tail)) \in Nat
          /\ Len(DocsOf(t)) = Len(docs[t]) + Len(NewDocs(op[t], slice[t].tail))
      BY <1>1, <2>2, <2>3, ConcatProperties
    <3>2. CASE i \in 1..Len(docs[t])
      BY <1>1, <1>3, <2>2, <2>3, <3>2, ConcatParts
    <3>3. CASE i - Len(docs[t]) \in 1..Len(NewDocs(op[t], slice[t].tail))
      <4> DEFINE j == i - Len(docs[t])
      <4>1. DocsOf(t)[Len(docs[t]) + j] = NewDocs(op[t], slice[t].tail)[j]
        BY <1>1, <2>2, <2>3, <3>3, ConcatParts
      <4>2. i = Len(docs[t]) + j
        BY <3>1
      <4> QED
        BY <1>2, <2>3, <3>3, <4>1, <4>2
    <3>4. \/ i \in 1..Len(docs[t])
          \/ i - Len(docs[t]) \in 1..Len(NewDocs(op[t], slice[t].tail))
      <4> DEFINE a == Len(docs[t])
                 b == Len(NewDocs(op[t], slice[t].tail))
      <4>1. a \in Nat /\ b \in Nat /\ i \in 1..(a + b)
        BY <3>1
      <4> HIDE DEF a, b
      <4>2. i \in 1..a \/ i - a \in 1..b
        BY <4>1
      <4> QED
        BY <4>2 DEF a, b
    <3> QED
      BY <3>2, <3>3, <3>4
  <2> QED
    BY <1>1, <1>5, <2>4, <2>5
<1> QED
  BY <1>4, <1>5

\* A step that keeps the list and the documents keeps the ram.
LEMMA RamFrame ==
  ASSUME list' = list, \A u \in Threads : DocsOf(u)' = DocsOf(u)
  PROVE  Ram' = Ram
BY DEF Ram

\* The steps DeleteOrder does not see: the start of a call, the try_lock and
\* its outcome, and the end of an update.
LEMMA HiddenStep ==
  ASSUME IInv, IInv', NEW t \in Threads,
         \/ BeginAdd(t) \/ BeginUpdate(t) \/ TakeSeqNo(t) \/ LockGlobal(t)
         \/ TryLockGlobal(t) \/ ApplyGlobalSlice(t) \/ FinishUpdate(t)
  PROVE  UNCHANGED <<Ram, TargetsIn(frozenUpto, tail), out>>
<1> USE DEF queueVars, globalVars, dwptVars, threadVars
<1>a. TypeOK /\ OpMatchesPC /\ op[t] \in Ops
  BY DEF IInv, TypeOK
<1>b. ThreadStep(t)
  BY DEF ThreadStep
<1>1. /\ list' = list /\ frozenUpto' = frozenUpto /\ out' = out
  BY DEF BeginAdd, BeginUpdate, BeginIndex, TakeSeqNo, LockGlobal,
         TryLockGlobal, ApplyGlobalSlice, FinishUpdate
<1>2. DocsOf(t)' = DocsOf(t)
  <2>1. CASE BeginAdd(t) \/ BeginUpdate(t) \/ TakeSeqNo(t) \/ LockGlobal(t)
    <3>1. docs'[t] = docs[t] /\ ~InUpdate(t) /\ ~InUpdate(t)'
      BY <2>1, <1>a DEF BeginAdd, BeginUpdate, BeginIndex, TakeSeqNo,
                        LockGlobal, InUpdate, TypeOK
    <3> QED
      BY <3>1, DocsOfType, DocsOfShape DEF DocsOf, InFlight, InUpdate
  <2>2. CASE TryLockGlobal(t) \/ ApplyGlobalSlice(t)
    <3>1. docs' = docs /\ slice' = slice
      BY <2>2 DEF TryLockGlobal, ApplyGlobalSlice
    <3>2. InUpdate(t)' <=> InUpdate(t)
      BY <2>2, <1>a DEF TryLockGlobal, ApplyGlobalSlice, AfterTry, InUpdate,
                        TypeOK, NoOp
    <3>3. InUpdate(t) => op'[t] = op[t]
      BY <2>2 DEF TryLockGlobal, ApplyGlobalSlice, AfterTry, InUpdate
    <3> QED
      BY <3>1, <3>2, <3>3 DEF DocsOf, InFlight, InUpdate
  <2>3. CASE FinishUpdate(t)
    <3>1. InUpdate(t) /\ ~InUpdate(t)'
      BY <2>3, <1>a DEF FinishUpdate, FinishDocuments, InUpdate, OpMatchesPC,
                        TypeOK
    <3>2. docs'[t] = docs[t] \o NewDocs(op[t], slice[t].tail)
      BY <2>3, <1>a DEF FinishUpdate, FinishDocuments, NewDocs, TypeOK
    <3>3. InFlight(t) = NewDocs(op[t], slice[t].tail)
      BY <3>1, DocsOfShape
    <3>4. DocsOf(t)' = docs'[t]
      <4>1. docs'[t] \in Seq(Doc) /\ InFlight(t)' = <<>>
        BY <3>1 DEF IInv, TypeOK, InFlight, InUpdate
      <4> QED
        BY <4>1, ConcatEmptySeq DEF DocsOf
    <3> QED
      BY <3>2, <3>3, <3>4 DEF DocsOf
  <2> QED
    BY <2>1, <2>2, <2>3
<1>3. ASSUME NEW u \in Threads PROVE DocsOf(u)' = DocsOf(u)
  <2>1. CASE u # t
    BY <2>1, <1>a, <1>b, OtherFrame DEF DocsOf, InFlight
  <2> QED
    BY <2>1, <1>2
<1>4. Ram' = Ram
  BY <1>1, <1>3, RamFrame
<1> QED
  BY <1>1, <1>4 DEF TargetsIn, tail

\* A DWPT is aborted: Abort(t) of DeleteOrder.
LEMMA AbortStep ==
  ASSUME IInv, IInv', NEW t \in Threads, AbortDwpt(t)
  PROVE  Order!Abort(t)
<1> USE DEF queueVars, globalVars, dwptVars, threadVars
<1>a. TypeOK /\ ThreadStep(t)
  BY DEF IInv, ThreadStep
<1>1. list' = list /\ frozenUpto' = frozenUpto /\ out' = out
  BY DEF AbortDwpt
<1>2. \A u \in Threads \ {t} : DocsOf(u)' = DocsOf(u)
  BY <1>a, OtherFrame DEF DocsOf, InFlight
<1>3. DocsOf(t)' = <<>>
  <2>1. docs'[t] = <<>> /\ InFlight(t)' = <<>>
    BY <1>a DEF AbortDwpt, InFlight, TypeOK
  <2> QED
    BY <2>1, ConcatEmptySeq DEF DocsOf
<1>4. RamIn(list', <<>>) = <<>>
  BY DEF RamIn
<1>5. Ram' = [Ram EXCEPT ![t] = <<>>]
  BY <1>1, <1>2, <1>3, <1>4 DEF Ram
<1> QED
  BY <1>1, <1>5, RamIsMapping DEF Order!Abort, TargetsIn, tail

\* update_slice: Add(t, ts) of DeleteOrder, with the documents of the call.
LEMMA AddStep ==
  ASSUME IInv, IInv', NEW t \in Threads, UpdateSlice(t)
  PROVE  \E ts \in Order!Batches : Order!Add(t, ts)
<1> USE DEF queueVars, globalVars, dwptVars, threadVars
<1>a. TypeOK /\ OpMatchesPC /\ ThreadStep(t) /\ list \in Seq(Node) /\ tail \in Nat
  BY DEF IInv, ThreadStep, TypeOK, tail
<1>b. op[t] \in AddOp
  BY <1>a, OpKinds DEF UpdateSlice, OpMatchesPC, TypeOK
<1>1. list' = list /\ frozenUpto' = frozenUpto /\ out' = out
  BY DEF UpdateSlice
<1>2. \A u \in Threads \ {t} : DocsOf(u)' = DocsOf(u)
  BY <1>a, OtherFrame DEF DocsOf, InFlight
<1>3. ~InUpdate(t) /\ ~InUpdate(t)'
  BY <1>a DEF UpdateSlice, FinishDocuments, InUpdate, TypeOK
<1>4. DocsOf(t) = docs[t] /\ docs[t] \in Seq(Doc)
  BY <1>3, DocsOfType
<1>5. DocsOf(t)' = docs'[t]
  <2>1. docs'[t] \in Seq(Doc) /\ InFlight(t)' = <<>>
    BY <1>3 DEF IInv, TypeOK, InFlight, InUpdate
  <2> QED
    BY <2>1, ConcatEmptySeq DEF DocsOf
<1>6. docs'[t] = docs[t] \o NewDocs(op[t], tail)
  BY <1>a DEF UpdateSlice, FinishDocuments, NewDocs, TypeOK
<1>7. RamIn(list, NewDocs(op[t], tail)) = Order!Fresh(op[t].targets)
  BY <1>a, <1>b, RamFresh DEF tail
<1>8. NewDocs(op[t], tail) \in Seq(Doc) /\ op[t].targets \in Batches
  BY <1>a, <1>b, NewDocsType DEF AddOp
<1>9. RamIn(list', DocsOf(t)') = RamIn(list, DocsOf(t)) \o Order!Fresh(op[t].targets)
  <2>1. RamIn(list, docs[t] \o NewDocs(op[t], tail))
          = RamIn(list, docs[t]) \o RamIn(list, NewDocs(op[t], tail))
    BY <1>4, <1>8, RamConcat
  <2> QED
    BY <2>1, <1>1, <1>4, <1>5, <1>6, <1>7
<1>10. Ram' = [Ram EXCEPT ![t] = @ \o Order!Fresh(op[t].targets)]
  BY <1>1, <1>2, <1>9 DEF Ram
<1>11. TargetsIn(frozenUpto, tail)' = TargetsIn(frozenUpto, tail)
  BY <1>1 DEF TargetsIn, tail
<1>12. Order!Add(t, op[t].targets)
  BY <1>1, <1>10, <1>11, RamIsMapping DEF Order!Add
<1>13. op[t].targets \in Order!Batches
  BY <1>8 DEF Batches, Order!Batches
<1> QED
  BY <1>12, <1>13

\* Linking a node kills the documents that match it and adds its target to
\* those not frozen yet.
LEMMA LinkEffect ==
  ASSUME IInv, NEW k \in Targets, AddNode(k), frozenUpto' = frozenUpto
  PROVE  /\ TargetsIn(frozenUpto, tail)' = TargetsIn(frozenUpto, tail) \cup {k}
         /\ \A u \in Threads :
              RamIn(list', DocsOf(u)) = Order!Kill(RamIn(list, DocsOf(u)), k)
<1> DEFINE n == [target |-> k, seq |-> nextSeqNo]
<1>a. /\ TypeOK /\ list \in Seq(Node) /\ n \in Node /\ n.target = k
      /\ frozenUpto \in Nat /\ frozenUpto <= tail
  BY DEF IInv, TypeOK, Node, GlobalBufferExact, Slice, tail
<1>1. list' = Append(list, n)
  BY DEF AddNode
<1>2. ASSUME NEW u \in Threads
      PROVE  RamIn(list', DocsOf(u)) = Order!Kill(RamIn(list, DocsOf(u)), k)
  <2>1. /\ DocsOf(u) \in Seq(Doc)
        /\ \A i \in 1..Len(DocsOf(u)) : DocsOf(u)[i].pos <= Len(list)
    BY DocsOfType DEF tail
  <2> HIDE DEF n
  <2>2. RamIn(Append(list, n), DocsOf(u))
          = Order!Kill(RamIn(list, DocsOf(u)), n.target)
    BY <1>a, <2>1, RamKill
  <2> QED
    BY <1>1, <1>a, <2>2
<1>3. TargetsIn(frozenUpto, tail)' = TargetsIn(frozenUpto, tail) \cup {k}
  <2>1. \A a \in Nat : a <= tail =>
          TargetsIn(a, tail)' = TargetsIn(a, tail) \cup {k}
    BY <1>1, <1>a, TargetsAppend
  <2>2. ASSUME NEW a \in Nat, a <= tail, a = frozenUpto
        PROVE  TargetsIn(frozenUpto, tail)' = TargetsIn(a, tail) \cup {k}
    <3>1. TargetsIn(a, tail)' = TargetsIn(a, tail) \cup {k}
      BY <2>1, <2>2
    <3>2. frozenUpto' = a
      BY <2>2
    <3> QED
      BY <3>1, <3>2 DEF TargetsIn
  <2> QED
    BY <2>2, <1>a
<1> QED
  BY <1>2, <1>3

\* A delete without documents: Delete(k) of DeleteOrder.
LEMMA DeleteStep ==
  ASSUME IInv, IInv', NEW t \in Threads, Delete(t)
  PROVE  \E k \in Targets : Order!Delete(k)
<1> USE DEF queueVars, globalVars, dwptVars, threadVars
<1>a. TypeOK /\ ThreadStep(t)
  BY DEF IInv, ThreadStep
<1>1. PICK k \in Targets : AddNode(k)
  BY DEF Delete
<1>2. frozenUpto' = frozenUpto /\ out' = out /\ docs' = docs
  BY DEF Delete
<1>3. ASSUME NEW u \in Threads PROVE DocsOf(u)' = DocsOf(u)
  <2>1. CASE u # t
    BY <2>1, <1>a, OtherFrame DEF DocsOf, InFlight
  <2>2. CASE u = t
    BY <2>2, <1>2, <1>a DEF DocsOf, InFlight, Delete, TypeOK
  <2> QED
    BY <2>1, <2>2
<1>4. /\ TargetsIn(frozenUpto, tail)' = TargetsIn(frozenUpto, tail) \cup {k}
      /\ \A u \in Threads :
           RamIn(list', DocsOf(u)) = Order!Kill(RamIn(list, DocsOf(u)), k)
  BY <1>1, <1>2, LinkEffect
<1>5. Ram' = [u \in Threads |-> Order!Kill(Ram[u], k)]
  BY <1>3, <1>4 DEF Ram
<1>6. Order!Delete(k)
  BY <1>2, <1>4, <1>5, RamIsMapping DEF Order!Delete
<1> QED
  BY <1>6

\* add_term_to_slice: Update(t, k, ts) of DeleteOrder, with the delete term
\* and the documents of the call.
LEMMA UpdateStep ==
  ASSUME IInv, IInv', NEW t \in Threads, AddTermToSlice(t)
  PROVE  \E k \in Targets, ts \in Order!Batches : Order!Update(t, k, ts)
<1> USE DEF queueVars, globalVars, dwptVars, threadVars
<1> DEFINE k == op[t].del
           ts == op[t].targets
<1>a. TypeOK /\ ThreadStep(t) /\ tail \in Nat
  BY DEF IInv, ThreadStep, TypeOK, tail
<1>b. op[t] \in UpdateOp /\ nextSeqNo \in Nat
  BY <1>a, OpKinds DEF AddTermToSlice, TypeOK
<1>c. k \in Targets /\ ts \in Batches
  BY <1>b DEF UpdateOp
<1>1. AddNode(k)
  BY DEF AddTermToSlice
<1>2. frozenUpto' = frozenUpto /\ out' = out /\ docs' = docs
  BY DEF AddTermToSlice
<1>3. \A u \in Threads \ {t} : DocsOf(u)' = DocsOf(u)
  BY <1>a, OtherFrame DEF DocsOf, InFlight
<1>4. DocsOf(t) = docs[t] /\ docs[t] \in Seq(Doc)
  BY DocsOfType DEF AddTermToSlice, InUpdate
<1> DEFINE o == [op[t] EXCEPT !.seq = nextSeqNo]
<1>5. o \in UpdateOp /\ o.targets = ts /\ op'[t] = o /\ o.kind = "update"
  BY <1>a, <1>b DEF AddTermToSlice, UpdateOp, TypeOK
<1>6. /\ list' \in Seq(Node) /\ Len(list') = Len(list) + 1
      /\ slice'[t].tail = tail + 1
      /\ pc'[t] = "try"
  BY <1>1, <1>a DEF AddTermToSlice, AddNode, TypeOK, IInv, Slice
<1>7. InFlight(t)' = NewDocs(o, Len(list'))
  <2>1. InFlight(t)' = [i \in 1..Len(op'[t].targets) |->
                          [target |-> op'[t].targets[i], pos |-> slice'[t].tail,
                           seq |-> op'[t].seq]]
    BY <1>5, <1>6 DEF InFlight
  <2> QED
    BY <2>1, <1>5, <1>6 DEF NewDocs, tail
<1>8. DocsOf(t)' = docs[t] \o NewDocs(o, Len(list'))
  BY <1>2, <1>7 DEF DocsOf
<1> HIDE DEF k, ts, o
<1>9. RamIn(list', NewDocs(o, Len(list'))) = Order!Fresh(ts)
  BY <1>5, <1>6, RamFresh
<1>10. NewDocs(o, Len(list')) \in Seq(Doc)
  BY <1>5, <1>6, NewDocsType
<1>11. /\ TargetsIn(frozenUpto, tail)' = TargetsIn(frozenUpto, tail) \cup {k}
       /\ \A u \in Threads :
            RamIn(list', DocsOf(u)) = Order!Kill(RamIn(list, DocsOf(u)), k)
  BY <1>1, <1>2, <1>c, LinkEffect
<1>12. RamIn(list', DocsOf(t)')
         = Order!Kill(RamIn(list, DocsOf(t)), k) \o Order!Fresh(ts)
  <2>1. RamIn(list', docs[t] \o NewDocs(o, Len(list')))
          = RamIn(list', docs[t]) \o RamIn(list', NewDocs(o, Len(list')))
    BY <1>4, <1>10, RamConcat
  <2> QED
    BY <2>1, <1>4, <1>8, <1>9, <1>11
<1>13. Ram' = [u \in Threads |->
                 IF u = t THEN Order!Kill(Ram[u], k) \o Order!Fresh(ts)
                 ELSE Order!Kill(Ram[u], k)]
  BY <1>3, <1>11, <1>12 DEF Ram
<1>14. Order!Update(t, k, ts)
  BY <1>2, <1>11, <1>13, RamIsMapping DEF Order!Update
<1> QED
  BY <1>14, <1>c DEF Batches, Order!Batches

\* What a freeze hands out are all the deletes linked since the last one, and
\* it leaves none.
LEMMA PacketExact ==
  ASSUME IInv
  PROVE  Packet = TargetsIn(frozenUpto, tail)
<1>1. /\ frozenUpto \in Nat /\ tail \in Nat
      /\ globalSlice.head \in Nat /\ globalSlice.tail \in Nat
      /\ GlobalBufferExact
  BY DEF IInv, TypeOK, Slice, tail
<1> QED
  BY <1>1, TargetsSplit DEF Packet, GlobalBufferExact

\* Nothing is pending after the queue has been frozen up to its tail.
LEMMA NothingPending ==
  ASSUME IInv, list' = list, frozenUpto' = tail
  PROVE  TargetsIn(frozenUpto, tail)' = {}
<1>1. tail \in Nat
  BY DEF IInv, TypeOK, tail
<1> QED
  BY <1>1 DEF TargetsIn, tail

\* freeze_global_buffer: Freeze(t) of DeleteOrder.
LEMMA FreezeStep ==
  ASSUME IInv, IInv', NEW t \in Threads, Freeze(t)
  PROVE  Order!Freeze(t)
<1> USE DEF queueVars, globalVars, dwptVars, threadVars
<1>a. TypeOK /\ ThreadStep(t)
  BY DEF IInv, ThreadStep
<1>1. /\ list' = list /\ frozenUpto' = tail
      /\ out' = [out EXCEPT ![t] = [kind |-> "packet", packet |-> Packet]]
  BY DEF Freeze, FreezeGlobalBuffer, Unlock
<1>2. ASSUME NEW u \in Threads PROVE DocsOf(u)' = DocsOf(u)
  <2>1. CASE u # t
    BY <2>1, <1>a, OtherFrame DEF DocsOf, InFlight
  <2>2. CASE u = t
    BY <2>2, <1>a DEF DocsOf, InFlight, Freeze, Unlock, NoOp, TypeOK
  <2> QED
    BY <2>1, <2>2
<1>3. Ram' = Ram
  BY <1>1, <1>2, RamFrame
<1>4. TargetsIn(frozenUpto, tail)' = {}
  BY <1>1, NothingPending
<1> QED
  BY <1>1, <1>3, <1>4, RamIsMapping, PacketExact DEF Order!Freeze

\* clear: Clear of DeleteOrder.
LEMMA ClearStep ==
  ASSUME IInv, IInv', OutIdle, NEW t \in Threads, Clear(t)
  PROVE  Order!Clear
<1> USE DEF queueVars, globalVars, dwptVars, threadVars
<1>a. TypeOK /\ ThreadStep(t)
  BY DEF IInv, ThreadStep
<1>1. list' = list /\ frozenUpto' = tail
  BY DEF Clear
<1>2. out' = out
  BY DEF Clear, Unlock, OutIdle
<1>3. ASSUME NEW u \in Threads PROVE DocsOf(u)' = DocsOf(u)
  <2>1. CASE u # t
    BY <2>1, <1>a, OtherFrame DEF DocsOf, InFlight
  <2>2. CASE u = t
    BY <2>2, <1>a DEF DocsOf, InFlight, Clear, Unlock, NoOp, TypeOK
  <2> QED
    BY <2>1, <2>2
<1>4. Ram' = Ram
  BY <1>1, <1>3, RamFrame
<1>5. TargetsIn(frozenUpto, tail)' = {}
  BY <1>1, NothingPending
<1> QED
  BY <1>2, <1>4, <1>5, RamIsMapping DEF Order!Clear

\* The result of a freeze is taken: Return(t) of DeleteOrder.
LEMMA ReturnStep ==
  ASSUME IInv, IInv', NEW t \in Threads, Return(t)
  PROVE  Order!Return(t)
<1> USE DEF queueVars, globalVars, dwptVars, threadVars
<1>a. TypeOK /\ ThreadStep(t)
  BY DEF IInv, ThreadStep
<1>1. /\ list' = list /\ frozenUpto' = frozenUpto
      /\ out' = [out EXCEPT ![t] = Nothing]
  BY DEF Return
<1>2. ASSUME NEW u \in Threads PROVE DocsOf(u)' = DocsOf(u)
  <2>1. CASE u # t
    BY <2>1, <1>a, OtherFrame DEF DocsOf, InFlight
  <2>2. CASE u = t
    BY <2>2, <1>a DEF DocsOf, InFlight, Return, TypeOK
  <2> QED
    BY <2>1, <2>2
<1>3. Ram' = Ram
  BY <1>1, <1>2, RamFrame
<1> QED
  BY <1>1, <1>3, RamIsMapping
     DEF Order!Return, Nothing, Order!Nothing, TargetsIn, tail

\* The limits a flush ends up with leave exactly the documents alive that no
\* delete behind them matches.
LEMMA FlushLive ==
  ASSUME IInv, NEW t \in Threads, ~InUpdate(t),
         NEW m, m = ApplySlice(upto[t], [slice[t] EXCEPT !.tail = tail],
                               Len(docs[t]))
  PROVE  LiveDocs(t, m) = {i \in 1..Len(Ram[t]) : Ram[t][i].live}
<1>a. /\ TypeOK /\ DwptInv(t) /\ slice[t] \in Slice /\ docs[t] \in Seq(Doc)
      /\ upto[t] \in [Targets -> Nat] /\ tail \in Nat /\ Len(docs[t]) \in Nat
  BY DEF IInv, TypeOK, tail
<1> DEFINE s == [slice[t] EXCEPT !.tail = tail]
           n == Len(docs[t])
           h == slice[t].head
<1>1. s.head = h /\ s.tail = tail /\ h \in Nat /\ h <= tail
  BY <1>a DEF Slice, DwptInv
<1>2. \A k \in Targets :
        m[k] = IF k \notin TargetsIn(h, tail) THEN upto[t][k]
               ELSE IF k \in Queries \/ n > upto[t][k] THEN n ELSE upto[t][k]
  <2>1. m = ApplySlice(upto[t], s, n) /\ n \in Nat
    BY <1>a
  <2> HIDE DEF s, n, h
  <2>2. \A k \in Targets :
          ApplySlice(upto[t], s, n)[k]
            = IF k \notin TargetsIn(s.head, s.tail) THEN upto[t][k]
              ELSE IF k \in Queries \/ n > upto[t][k] THEN n ELSE upto[t][k]
    BY <1>a, <2>1, ApplySliceType
  <2> QED
    BY <1>1, <2>1, <2>2
<1>3. Ram[t] = RamIn(list, docs[t])
  BY RamIsMapping, DocsOfType
<1>4. Len(Ram[t]) = n
  BY <1>3 DEF RamIn
<1>5. ASSUME NEW i \in 1..n
      PROVE  i > m[docs[t][i].target] <=> Ram[t][i].live
  <2> DEFINE d == docs[t][i]
  <2>1. d \in Doc /\ d.target \in Targets /\ d.pos \in Nat
    <3>1. d \in Doc
      BY <1>a
    <3> QED
      BY <3>1 DEF Doc
  <2>2. /\ d.pos <= h /\ upto[t][d.target] <= n /\ upto[t][d.target] \in Nat
        /\ i <= upto[t][d.target] <=> d.target \in TargetsIn(d.pos, h)
    BY <1>a, <2>1 DEF DwptInv
  <2>3. Ram[t][i].live = (d.target \notin TargetsIn(d.pos, tail))
    BY <1>3 DEF RamIn, TargetsOf, TargetsIn, tail
  <2>4. TargetsIn(d.pos, tail) = TargetsIn(d.pos, h) \cup TargetsIn(h, tail)
    BY <1>1, <1>a, <2>1, <2>2, TargetsSplit
  <2> DEFINE k == d.target
             u == upto[t][k]
  <2>5. /\ n \in Nat /\ u \in Nat /\ u <= n /\ i \in 1..n /\ k \in Targets
        /\ i <= u <=> k \in TargetsIn(d.pos, h)
        /\ Ram[t][i].live = (k \notin TargetsIn(d.pos, tail))
        /\ TargetsIn(d.pos, tail) = TargetsIn(d.pos, h) \cup TargetsIn(h, tail)
    BY <1>a, <2>1, <2>2, <2>3, <2>4
  <2>6. m[k] = IF k \notin TargetsIn(h, tail) THEN u
               ELSE IF k \in Queries \/ n > u THEN n ELSE u
    BY <1>2, <2>5
  <2> HIDE DEF d, k, u, n, h
  <2>7. m[k] = IF k \notin TargetsIn(h, tail) THEN u ELSE n
    BY <2>5, <2>6
  <2>8. i > m[k] <=> k \notin TargetsIn(d.pos, tail)
    BY <2>5, <2>7
  <2>9. Ram[t][i].live = (k \notin TargetsIn(d.pos, tail))
    BY <2>5
  <2> QED
    BY <2>8, <2>9, Zenon DEF k, d
<1> QED
  BY <1>4, <1>5 DEF LiveDocs

\* prepare_flush: Flush(t) of DeleteOrder.
LEMMA FlushStep ==
  ASSUME IInv, IInv', NEW t \in Threads, PrepareFlush(t)
  PROVE  Order!Flush(t)
<1> USE DEF queueVars, globalVars, dwptVars, threadVars
<1>a. TypeOK /\ ThreadStep(t)
  BY DEF IInv, ThreadStep
<1> DEFINE m == ApplySlice(upto[t], [slice[t] EXCEPT !.tail = tail],
                           Len(docs[t]))
<1>1. /\ list' = list /\ frozenUpto' = tail
      /\ out' = [out EXCEPT ![t] = [kind |-> "segment", packet |-> Packet,
                                    live |-> LiveDocs(t, m)]]
  BY DEF PrepareFlush, FreezeGlobalBuffer, Unlock
<1>2. ~InUpdate(t)
  BY DEF PrepareFlush, InUpdate
<1> HIDE DEF m
<1>3. LiveDocs(t, m) = {i \in 1..Len(Ram[t]) : Ram[t][i].live}
  BY <1>2, FlushLive DEF m
<1>4. \A u \in Threads \ {t} : DocsOf(u)' = DocsOf(u)
  BY <1>a, OtherFrame DEF DocsOf, InFlight
<1>5. DocsOf(t)' = <<>>
  <2>1. docs'[t] = <<>> /\ InFlight(t)' = <<>>
    BY <1>a DEF PrepareFlush, Unlock, InFlight, TypeOK
  <2> QED
    BY <2>1, ConcatEmptySeq DEF DocsOf
<1>6. RamIn(list', <<>>) = <<>>
  BY DEF RamIn
<1>7. Ram' = [Ram EXCEPT ![t] = <<>>]
  BY <1>1, <1>4, <1>5, <1>6 DEF Ram
<1>8. TargetsIn(frozenUpto, tail)' = {}
  BY <1>1, NothingPending
<1> QED
  BY <1>1, <1>3, <1>7, <1>8, RamIsMapping, PacketExact DEF Order!Flush

\* Initially both are empty.
LEMMA OrderInit == Init => Order!Init
<1> SUFFICES ASSUME Init PROVE Order!Init
  OBVIOUS
<1>1. \A t \in Threads : docs[t] = <<>> /\ InFlight(t) = <<>>
  BY DEF Init, InFlight, NoOp
<1>2. \A t \in Threads : DocsOf(t) = <<>>
  <2>1. <<>> \in Seq(Doc)
    OBVIOUS
  <2>2. <<>> \o <<>> = <<>>
    BY <2>1, ConcatEmptySeq
  <2> QED
    BY <1>1, <2>2 DEF DocsOf
<1>3. RamIn(list, <<>>) = <<>>
  BY DEF RamIn
<1>4. Ram = [t \in Threads |-> <<>>]
  BY <1>2, <1>3 DEF Ram
<1>5. TargetsIn(frozenUpto, tail) = {}
  BY DEF Init, TargetsIn, tail
<1> QED
  BY <1>4, <1>5, RamIsMapping DEF Init, Order!Init, Nothing, Order!Nothing

\* Every step of a thread is a step of DeleteOrder, or hidden.
LEMMA OrderStep ==
  ASSUME IInv, IInv', OutIdle, [Next]_vars
  PROVE  [Order!Next]_(Order!vars)
<1>1. CASE UNCHANGED vars
  BY <1>1 DEF vars, queueVars, globalVars, dwptVars, threadVars, Order!vars,
     RamOf, InFlight, Alive, TargetsIn, tail
<1>2. ASSUME NEW t \in Threads, ThreadStep(t)
      PROVE  [Order!Next]_(Order!vars)
  <2>1. CASE \/ BeginAdd(t) \/ BeginUpdate(t) \/ TakeSeqNo(t) \/ LockGlobal(t)
             \/ TryLockGlobal(t) \/ ApplyGlobalSlice(t) \/ FinishUpdate(t)
    BY <2>1, HiddenStep, RamIsMapping DEF Order!vars
  <2>2. CASE AbortDwpt(t)
    BY <2>2, AbortStep DEF Order!Next
  <2>3. CASE UpdateSlice(t)
    BY <2>3, AddStep DEF Order!Next
  <2>4. CASE AddTermToSlice(t)
    BY <2>4, UpdateStep DEF Order!Next
  <2>5. CASE Delete(t)
    BY <2>5, DeleteStep DEF Order!Next
  <2>6. CASE Freeze(t)
    BY <2>6, FreezeStep DEF Order!Next
  <2>7. CASE PrepareFlush(t)
    BY <2>7, FlushStep DEF Order!Next
  <2>8. CASE Clear(t)
    BY <2>8, ClearStep DEF Order!Next
  <2>9. CASE Return(t)
    BY <2>9, ReturnStep DEF Order!Next
  <2> QED
    BY <1>2, <2>1, <2>2, <2>3, <2>4, <2>5, <2>6, <2>7, <2>8, <2>9
       DEF ThreadStep
<1> QED
  BY <1>1, <1>2 DEF Next

\* Whatever the threads interleave, the delete queue behaves as if additions,
\* deletes, updates, flushes and freezes happened one at a time: its slices,
\* limits, sequence of locks and skipped try_locks implement DeleteOrder.
THEOREM OrderImplemented == Spec => ImplementsDeleteOrder
<1>1. Init => OutIdle
  BY DEF Init, OutIdle
<1>2. IInv => TypeOK
  BY DEF IInv
<1> QED
  BY <1>1, <1>2, Invariance, OutIdleStep, OrderInit, OrderStep, PTL
     DEF Spec, ImplementsDeleteOrder, Order!Spec

=============================================================================
