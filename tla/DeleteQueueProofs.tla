------------------------- MODULE DeleteQueueProofs -------------------------
(***************************************************************************)
(* Proofs about DeleteQueue, for any number of threads, targets and        *)
(* operations.                                                             *)
(***************************************************************************)
EXTENDS DeleteQueue, TLAPS, SequenceTheorems

-----------------------------------------------------------------------------
(* The inductive invariant.                                                 *)

\* The call a thread is in fits the step it is at.
OpMatchesPC ==
  \A t \in Threads :
    /\ pc[t] = "index" => op[t].kind \in {"add", "update"}
    /\ pc[t] = "slice" => op[t].kind = "add"
    /\ pc[t] \in {"try", "apply"} => op[t].kind \in {"update", "delete"}
    /\ pc[t] = "finish" => op[t].kind = "update"

\* Between the node of its delete term and the end of finish_document.
InUpdate(t) == pc[t] \in {"try", "apply", "finish"} /\ op[t].kind = "update"

\* The DWPT of t: its slice is non-empty only inside an update, a limit never
\* exceeds the number of documents, and the limits are exact
\* (PrivateDeletesExact).
DwptInv(t) ==
  /\ slice[t].head <= slice[t].tail
  /\ slice[t].tail <= tail
  /\ InUpdate(t) \/ slice[t].head = slice[t].tail
  /\ \A k \in Targets : upto[t][k] <= Len(docs[t])
  /\ \A i \in 1..Len(docs[t]) :
       /\ docs[t][i].pos <= slice[t].head
       /\ i <= upto[t][docs[t][i].target]
            <=> docs[t][i].target \in TargetsIn(docs[t][i].pos, slice[t].head)

IInv ==
  /\ TypeOK
  /\ OpMatchesPC
  /\ GlobalBufferExact
  /\ \A t \in Threads : DwptInv(t)

-----------------------------------------------------------------------------
(* Lemmas about the targets of a range of the list.                         *)

\* A range splits at any position inside it.
LEMMA TargetsSplit ==
  ASSUME NEW a \in Nat, NEW b \in Nat, NEW c \in Nat, a <= b, b <= c
  PROVE  TargetsIn(a, c) = TargetsIn(a, b) \cup TargetsIn(b, c)
BY DEF TargetsIn

\* An empty range has no targets.
LEMMA TargetsEmpty ==
  ASSUME NEW a \in Nat
  PROVE  TargetsIn(a, a) = {}
BY DEF TargetsIn

\* A range without targets is empty.
LEMMA TargetsEmptyRange ==
  ASSUME NEW a \in Nat, NEW b \in Nat, a <= b, TargetsIn(a, b) = {}
  PROVE  a = b
<1>1. SUFFICES ASSUME a < b PROVE FALSE
  OBVIOUS
<1>2. b \in (a + 1)..b
  BY <1>1
<1>3. list[b].target \in TargetsIn(a, b)
  BY <1>2 DEF TargetsIn
<1> QED
  BY <1>3

\* Targets of a range of the list are targets.
LEMMA TargetsInTargets ==
  ASSUME TypeOK, NEW a \in Nat, NEW b \in Nat, b <= tail
  PROVE  TargetsIn(a, b) \subseteq Targets
<1>1. \A p \in (a + 1)..b : list[p] \in Node
  BY DEF TypeOK, tail
<1>2. \A n \in Node : n.target \in Targets
  BY DEF Node
<1> QED
  BY <1>1, <1>2 DEF TargetsIn

\* Linking a node leaves the ranges up to the old tail as they were, and
\* adds its target to the ranges that reach it.
LEMMA TargetsAppend ==
  ASSUME TypeOK, NEW k, NEW s, list' = Append(list, [target |-> k, seq |-> s])
  PROVE  /\ tail' = tail + 1
         /\ \A a, b \in Nat : b <= tail => TargetsIn(a, b)' = TargetsIn(a, b)
         /\ \A a \in Nat : a <= tail =>
              TargetsIn(a, tail)' = TargetsIn(a, tail) \cup {k}
<1> DEFINE x == [target |-> k, seq |-> s]
<1>1. /\ Len(list') = Len(list) + 1
      /\ \A p \in 1..Len(list) : list'[p] = list[p]
      /\ list'[Len(list) + 1] = x
  BY DEF TypeOK
<1>2. tail' = tail + 1
  BY <1>1 DEF tail
<1>3. ASSUME NEW a \in Nat, NEW b \in Nat, b <= tail
      PROVE  TargetsIn(a, b)' = TargetsIn(a, b)
  <2>1. \A p \in (a + 1)..b : list'[p] = list[p]
    BY <1>1, <1>3 DEF tail
  <2> QED
    BY <2>1 DEF TargetsIn
<1>4. ASSUME NEW a \in Nat, a <= tail
      PROVE  TargetsIn(a, tail)' = TargetsIn(a, tail) \cup {k}
  <2> tail \in Nat
    BY DEF TypeOK, tail
  <2>1. (a + 1)..(tail + 1) = ((a + 1)..tail) \cup {tail + 1}
    BY <1>4
  <2>2. list'[tail + 1].target = k
    BY <1>1 DEF tail
  <2>3. {list'[p].target : p \in (a + 1)..(tail + 1)}
          = {list'[p].target : p \in (a + 1)..tail} \cup {k}
    BY <2>1, <2>2
  <2>4. {list'[p].target : p \in (a + 1)..tail} = TargetsIn(a, tail)
    BY <1>1, <1>4 DEF TargetsIn, tail
  <2> QED
    BY <2>3, <2>4, <1>2 DEF TargetsIn
<1> QED
  BY <1>2, <1>3, <1>4

-----------------------------------------------------------------------------
(* Types.                                                                   *)

\* An operation in flight that adds or updates is one of AddOp or UpdateOp.
LEMMA OpKinds ==
  ASSUME NEW o \in Ops
  PROVE  /\ o.kind = "add" => o \in AddOp
         /\ o.kind = "update" => o \in UpdateOp
BY DEF Ops, NoOp, AddOp, UpdateOp

\* A batch is a nonempty sequence of targets.
LEMMA BatchType ==
  ASSUME NEW ts \in Batches
  PROVE  /\ ts \in Seq(Targets)
         /\ Len(ts) \in Nat \ {0}
<1>1. PICK n \in 1..MaxBatch : ts \in [1..n -> Targets]
  BY DEF Batches
<1>2. n \in Nat \ {0}
  BY <1>1, DeleteQueueAssumption
<1> QED
  BY <1>1, <1>2

\* The documents an indexing call adds.
NewDocs(o, p) ==
  [i \in 1..Len(o.targets) |->
     [target |-> o.targets[i], pos |-> p, seq |-> o.seq]]

\* The documents of a call get the targets of the call, in order.
LEMMA NewDocsType ==
  ASSUME NEW o \in AddOp \cup UpdateOp, NEW p \in Nat
  PROVE  /\ NewDocs(o, p) \in Seq(Doc)
         /\ Len(NewDocs(o, p)) = Len(o.targets)
         /\ Len(o.targets) \in Nat \ {0}
         /\ \A i \in 1..Len(o.targets) :
              /\ NewDocs(o, p)[i].target = o.targets[i]
              /\ NewDocs(o, p)[i].pos = p
              /\ NewDocs(o, p)[i].seq = o.seq
<1>1. o.targets \in Batches /\ o.seq \in Nat
  BY DEF AddOp, UpdateOp
<1>2. o.targets \in Seq(Targets) /\ Len(o.targets) \in Nat \ {0}
  BY <1>1, BatchType
<1>3. \A i \in 1..Len(o.targets) :
        [target |-> o.targets[i], pos |-> p, seq |-> o.seq] \in Doc
  BY <1>1, <1>2 DEF Doc
<1> QED
  BY <1>2, <1>3 DEF NewDocs

\* Where the items of two concatenated sequences are.
LEMMA ConcatParts ==
  ASSUME NEW S, NEW a \in Seq(S), NEW b \in Seq(S)
  PROVE  /\ Len(a \o b) = Len(a) + Len(b)
         /\ \A i \in 1..Len(a) : (a \o b)[i] = a[i]
         /\ \A i \in 1..Len(b) : (a \o b)[Len(a) + i] = b[i]
<1>1. /\ Len(a) \in Nat /\ Len(b) \in Nat
      /\ Len(a \o b) = Len(a) + Len(b)
      /\ \A i \in 1 .. Len(a) + Len(b) :
           (a \o b)[i] = IF i <= Len(a) THEN a[i] ELSE b[i - Len(a)]
  BY ConcatProperties
<1> QED
  BY <1>1

\* What applying a slice leaves: the bound of every target in the slice is
\* raised to n, the others stay.
LEMMA ApplySliceType ==
  ASSUME NEW m \in [Targets -> Nat], NEW s, NEW n \in Nat
  PROVE  /\ ApplySlice(m, s, n) \in [Targets -> Nat]
         /\ \A k \in Targets :
              ApplySlice(m, s, n)[k]
                = IF k \notin TargetsIn(s.head, s.tail) THEN m[k]
                  ELSE IF k \in Queries \/ n > m[k] THEN n ELSE m[k]
BY DEF ApplySlice

\* finish_document(s) keeps the types of what a thread owns.
LEMMA FinishDocumentsType ==
  ASSUME TypeOK, NEW t \in Threads, NEW o \in AddOp \cup UpdateOp,
         NEW s \in Slice, NEW p \in Nat, NEW applies \in BOOLEAN,
         FinishDocuments(t, o, s, p, applies)
  PROVE  /\ upto' \in [Threads -> [Targets -> Nat]]
         /\ slice' \in [Threads -> Slice]
         /\ docs' \in [Threads -> Seq(Doc)]
         /\ op' \in [Threads -> Ops]
         /\ pc' \in [Threads -> PCs]
<1>a. upto[t] \in [Targets -> Nat] /\ docs[t] \in Seq(Doc)
  BY DEF TypeOK
<1>b. Len(docs[t]) \in Nat
  BY <1>a
<1>1. ApplySlice(upto[t], s, Len(docs[t])) \in [Targets -> Nat]
  BY <1>a, <1>b, ApplySliceType
<1>2. upto' \in [Threads -> [Targets -> Nat]]
  BY <1>1 DEF TypeOK, FinishDocuments
<1>3. slice' \in [Threads -> Slice]
  BY DEF TypeOK, FinishDocuments, Slice, Reset, EmptySlice
<1>4. docs[t] \o NewDocs(o, p) \in Seq(Doc)
  BY NewDocsType, <1>a, ConcatProperties
<1>5. docs' = [docs EXCEPT ![t] = @ \o NewDocs(o, p)]
  BY DEF FinishDocuments, NewDocs
<1>6. docs' \in [Threads -> Seq(Doc)]
  BY <1>4, <1>5 DEF TypeOK
<1>7. op' \in [Threads -> Ops] /\ pc' \in [Threads -> PCs]
  BY DEF TypeOK, FinishDocuments, Ops, PCs
<1> QED
  BY <1>2, <1>3, <1>6, <1>7

\* One step of one thread preserves the types and the fit of op and pc.
LEMMA TypeStep ==
  ASSUME TypeOK, OpMatchesPC, NEW t \in Threads, ThreadStep(t)
  PROVE  TypeOK' /\ OpMatchesPC'
<1> USE DEF queueVars, globalVars, dwptVars, threadVars
<1>a. tail \in Nat
  BY DEF TypeOK, tail
<1>b. \A p \in Nat : EmptySlice(p) \in Slice
  BY DEF EmptySlice, Slice
<1>1. ASSUME NEW o \in AddOp \cup UpdateOp, BeginIndex(t, o)
      PROVE  TypeOK' /\ OpMatchesPC'
  <2>1. op' \in [Threads -> Ops] /\ pc' \in [Threads -> PCs]
    BY <1>1 DEF TypeOK, BeginIndex, Ops, PCs
  <2>2. slice' \in [Threads -> Slice]
    BY <1>1, <1>a, <1>b DEF TypeOK, BeginIndex
  <2>3. TypeOK'
    BY <1>1, <2>1, <2>2 DEF TypeOK, BeginIndex
  <2>4. o.kind \in {"add", "update"}
    BY DEF AddOp, UpdateOp
  <2>5. OpMatchesPC'
    BY <1>1, <2>4 DEF TypeOK, OpMatchesPC, BeginIndex
  <2> QED
    BY <2>3, <2>5
<1>2. CASE BeginAdd(t)
  <2>1. PICK ts \in Batches :
          BeginIndex(t, [kind |-> "add", targets |-> ts, seq |-> 0])
    BY <1>2 DEF BeginAdd
  <2>2. [kind |-> "add", targets |-> ts, seq |-> 0] \in AddOp
    BY DEF AddOp
  <2> QED
    BY <1>1, <2>1, <2>2
<1>3. CASE BeginUpdate(t)
  <2>1. PICK b \in BOOLEAN, ts \in Batches, k \in Targets \ Queries :
          BeginIndex(t, [kind |-> "update", batch |-> b, targets |-> ts,
                         del |-> k, seq |-> 0])
    BY <1>3 DEF BeginUpdate
  <2>2. [kind |-> "update", batch |-> b, targets |-> ts, del |-> k,
         seq |-> 0] \in UpdateOp
    BY DEF UpdateOp
  <2> QED
    BY <1>1, <2>1, <2>2
<1>4. CASE AbortDwpt(t)
  <2>1. TypeOK'
    BY <1>4 DEF TypeOK, AbortDwpt, Ops, PCs
  <2>2. OpMatchesPC'
    BY <1>4 DEF TypeOK, OpMatchesPC, AbortDwpt
  <2> QED
    BY <2>1, <2>2
<1>5. CASE TakeSeqNo(t)
  <2>1. op[t] \in AddOp /\ nextSeqNo \in Nat
    BY <1>5, OpKinds DEF TypeOK, TakeSeqNo
  <2>2. [op[t] EXCEPT !.seq = nextSeqNo] \in AddOp
    BY <2>1 DEF AddOp
  <2>3. op' = [op EXCEPT ![t] = [op[t] EXCEPT !.seq = nextSeqNo]]
    BY <1>5 DEF TakeSeqNo, TypeOK
  <2>4. op' \in [Threads -> Ops] /\ op'[t].kind = "add"
    BY <2>2, <2>3 DEF TypeOK, Ops, AddOp
  <2>5. TypeOK'
    BY <1>5, <2>4 DEF TypeOK, TakeSeqNo, PCs
  <2>6. OpMatchesPC'
    BY <1>5, <2>3, <2>4 DEF TypeOK, OpMatchesPC, TakeSeqNo
  <2> QED
    BY <2>5, <2>6
<1>6. CASE UpdateSlice(t)
  <2>1. op[t] \in AddOp
    BY <1>6, OpKinds DEF TypeOK, OpMatchesPC, UpdateSlice
  <2>2. [slice[t] EXCEPT !.tail = tail] \in Slice
    BY <1>a DEF TypeOK, Slice
  <2>3. TypeOK'
    BY <1>6, <2>1, <2>2, <1>a, FinishDocumentsType DEF TypeOK, UpdateSlice
  <2>4. OpMatchesPC'
    BY <1>6 DEF TypeOK, OpMatchesPC, UpdateSlice, FinishDocuments
  <2> QED
    BY <2>3, <2>4
<1>7. CASE AddTermToSlice(t)
  <2>1. op[t] \in UpdateOp /\ nextSeqNo \in Nat
    BY <1>7, OpKinds DEF TypeOK, AddTermToSlice
  <2>2. [op[t] EXCEPT !.seq = nextSeqNo] \in UpdateOp
    BY <2>1 DEF UpdateOp
  <2>3. op' = [op EXCEPT ![t] = [op[t] EXCEPT !.seq = nextSeqNo]]
    BY <1>7 DEF AddTermToSlice, TypeOK
  <2>4. op' \in [Threads -> Ops] /\ op'[t].kind = "update"
    BY <2>2, <2>3 DEF TypeOK, Ops, UpdateOp
  <2>5. op[t].del \in Targets
    BY <2>1 DEF UpdateOp
  <2>6. list' \in Seq(Node) /\ nextSeqNo' \in Nat
    BY <1>7, <2>1, <2>5 DEF TypeOK, AddTermToSlice, AddNode, Node
  <2>7. slice' = [slice EXCEPT ![t] = [slice[t] EXCEPT !.tail = tail + 1]]
    BY <1>7 DEF AddTermToSlice, TypeOK
  <2>8. [slice[t] EXCEPT !.tail = tail + 1] \in Slice
    <3>1. slice[t] \in Slice /\ tail + 1 \in Nat
      BY <1>a DEF TypeOK
    <3> QED
      BY <3>1 DEF Slice
  <2>9. slice' \in [Threads -> Slice]
    BY <2>7, <2>8 DEF TypeOK
  <2>10. TypeOK'
    BY <1>7, <2>4, <2>6, <2>9 DEF TypeOK, AddTermToSlice, PCs
  <2>11. OpMatchesPC'
    BY <1>7, <2>3, <2>4 DEF TypeOK, OpMatchesPC, AddTermToSlice
  <2> QED
    BY <2>10, <2>11
<1>8. CASE FinishUpdate(t)
  <2>1. op[t] \in UpdateOp
    BY <1>8, OpKinds DEF TypeOK, OpMatchesPC, FinishUpdate
  <2>2. slice[t] \in Slice /\ slice[t].tail \in Nat
    BY DEF TypeOK, Slice
  <2>3. (op[t].batch \/ docs[t] # <<>>) \in BOOLEAN
    OBVIOUS
  <2>4. TypeOK'
    BY <1>8, <2>1, <2>2, <2>3, FinishDocumentsType DEF TypeOK, FinishUpdate
  <2>5. OpMatchesPC'
    BY <1>8 DEF TypeOK, OpMatchesPC, FinishUpdate, FinishDocuments
  <2> QED
    BY <2>4, <2>5
<1>9. CASE Delete(t)
  <2>1. PICK k \in Targets : AddNode(k)
    BY <1>9 DEF Delete
  <2>2. list' \in Seq(Node) /\ nextSeqNo' \in Nat
    BY <2>1 DEF TypeOK, AddNode, Node
  <2>3. TypeOK'
    BY <1>9, <2>2 DEF TypeOK, Delete, Ops, PCs
  <2>4. OpMatchesPC'
    BY <1>9 DEF TypeOK, OpMatchesPC, Delete
  <2> QED
    BY <2>3, <2>4
<1>10. CASE TryLockGlobal(t)
  <2>1. TypeOK'
    BY <1>10 DEF TypeOK, TryLockGlobal, AfterTry, Ops, PCs
  <2>2. OpMatchesPC'
    BY <1>10 DEF TypeOK, OpMatchesPC, TryLockGlobal, AfterTry
  <2> QED
    BY <2>1, <2>2
<1>11. CASE ApplyGlobalSlice(t)
  <2>1. globalSlice' \in Slice
    BY <1>11, <1>a, <1>b DEF TypeOK, ApplyGlobalSlice, CatchUpGlobal
  <2>2. TargetsIn(globalSlice.head, tail) \subseteq Targets
    BY TargetsInTargets, <1>a DEF TypeOK, Slice
  <2>3. globalBuffer' \subseteq Targets
    BY <1>11, <2>2 DEF TypeOK, ApplyGlobalSlice, CatchUpGlobal
  <2>4. TypeOK'
    BY <1>11, <2>1, <2>3 DEF TypeOK, ApplyGlobalSlice, AfterTry, Ops, PCs
  <2>5. OpMatchesPC'
    BY <1>11 DEF TypeOK, OpMatchesPC, ApplyGlobalSlice, AfterTry
  <2> QED
    BY <2>4, <2>5
<1>12. CASE LockGlobal(t)
  <2>1. TypeOK'
    BY <1>12 DEF TypeOK, LockGlobal, Ops, PCs
  <2>2. OpMatchesPC'
    BY <1>12 DEF TypeOK, OpMatchesPC, LockGlobal
  <2> QED
    BY <2>1, <2>2
<1>13. CASE Freeze(t)
  <2>1. TypeOK'
    BY <1>13, <1>a, <1>b
    DEF TypeOK, Freeze, FreezeGlobalBuffer, Unlock, Ops, PCs
  <2>2. OpMatchesPC'
    BY <1>13 DEF TypeOK, OpMatchesPC, Freeze, Unlock
  <2> QED
    BY <2>1, <2>2
<1>14. CASE PrepareFlush(t)
  <2>1. TypeOK'
    BY <1>14, <1>a, <1>b
    DEF TypeOK, PrepareFlush, FreezeGlobalBuffer, Unlock, Ops, PCs
  <2>2. OpMatchesPC'
    BY <1>14 DEF TypeOK, OpMatchesPC, PrepareFlush, Unlock
  <2> QED
    BY <2>1, <2>2
<1>15. CASE Clear(t)
  <2>1. TypeOK'
    BY <1>15, <1>a, <1>b DEF TypeOK, Clear, Unlock, Ops, PCs
  <2>2. OpMatchesPC'
    BY <1>15 DEF TypeOK, OpMatchesPC, Clear, Unlock
  <2> QED
    BY <2>1, <2>2
<1>16. CASE Return(t)
  <2>1. TypeOK'
    BY <1>16 DEF TypeOK, Return, PCs
  <2>2. OpMatchesPC'
    BY <1>16 DEF TypeOK, OpMatchesPC, Return
  <2> QED
    BY <2>1, <2>2
<1> QED
  BY <1>2, <1>3, <1>4, <1>5, <1>6, <1>7, <1>8, <1>9, <1>10, <1>11, <1>12,
     <1>13, <1>14, <1>15, <1>16 DEF ThreadStep

-----------------------------------------------------------------------------
(* The global buffer.                                                       *)

\* The steps that neither link a node nor touch the global buffer.
LocalStep(t) ==
  \/ BeginAdd(t) \/ BeginUpdate(t) \/ AbortDwpt(t)
  \/ TakeSeqNo(t) \/ UpdateSlice(t) \/ FinishUpdate(t)
  \/ TryLockGlobal(t) \/ LockGlobal(t) \/ Return(t)

\* A step of one thread outside the critical sections leaves the list and the
\* global buffer as they are.
LEMMA LocalStepFrame ==
  ASSUME NEW t \in Threads, LocalStep(t)
  PROVE  UNCHANGED <<list, globalSlice, globalBuffer, frozenUpto>>
BY DEF LocalStep, BeginAdd, BeginUpdate, BeginIndex, AbortDwpt, TakeSeqNo,
       UpdateSlice, FinishUpdate, TryLockGlobal, LockGlobal, Return,
       queueVars, globalVars

\* The steps that link a node leave the global slice and buffer alone.
LEMMA LinkStepFrame ==
  ASSUME TypeOK, NEW t \in Threads, AddTermToSlice(t) \/ Delete(t)
  PROVE  /\ UNCHANGED globalVars
         /\ \E k \in Targets : AddNode(k)
<1>1. CASE AddTermToSlice(t)
  <2>1. op[t] \in UpdateOp
    BY <1>1, OpKinds DEF TypeOK, AddTermToSlice
  <2> QED
    BY <1>1, <2>1 DEF AddTermToSlice, UpdateOp
<1>2. CASE Delete(t)
  BY <1>2 DEF Delete
<1> QED
  BY <1>1, <1>2

\* Every step of a thread keeps the global buffer exact.
LEMMA GlobalBufferStep ==
  ASSUME TypeOK, GlobalBufferExact, NEW t \in Threads, ThreadStep(t)
  PROVE  GlobalBufferExact'
<1>a. /\ tail \in Nat /\ frozenUpto \in Nat
      /\ globalSlice.head \in Nat /\ globalSlice.tail \in Nat
  BY DEF TypeOK, Slice, tail
<1>b. TargetsIn(frozenUpto, tail)
        = globalBuffer \cup TargetsIn(globalSlice.head, tail)
  BY <1>a, TargetsSplit DEF GlobalBufferExact
<1>1. CASE LocalStep(t)
  BY <1>1, LocalStepFrame DEF GlobalBufferExact, TargetsIn, tail
<1>2. CASE AddTermToSlice(t) \/ Delete(t)
  <2>1. PICK k \in Targets : AddNode(k)
    BY <1>2, LinkStepFrame
  <2>2. UNCHANGED <<globalSlice, globalBuffer, frozenUpto>>
    BY <1>2, LinkStepFrame DEF globalVars
  <2>3. /\ tail' = tail + 1
        /\ \A a, b \in Nat : b <= tail => TargetsIn(a, b)' = TargetsIn(a, b)
    BY <2>1, TargetsAppend DEF AddNode
  <2>4. TargetsIn(frozenUpto, globalSlice.head)'
          = TargetsIn(frozenUpto, globalSlice.head)
    <3>1. ASSUME NEW a \in Nat, NEW b \in Nat, b <= tail,
                 a = frozenUpto, b = globalSlice.head
          PROVE  TargetsIn(frozenUpto, globalSlice.head)' = TargetsIn(a, b)
      <4>1. TargetsIn(a, b)' = TargetsIn(a, b)
        BY <2>3, <3>1
      <4>2. frozenUpto' = a /\ globalSlice'.head = b
        BY <2>2, <3>1
      <4> QED
        BY <4>1, <4>2 DEF TargetsIn
    <3> QED
      BY <3>1, <1>a DEF GlobalBufferExact
  <2> QED
    BY <1>a, <2>2, <2>3, <2>4 DEF GlobalBufferExact
<1>3. CASE ApplyGlobalSlice(t)
  <2>1. UNCHANGED <<list, frozenUpto>>
    BY <1>3 DEF ApplyGlobalSlice, queueVars
  <2>2. /\ globalSlice'.head = tail
        /\ globalSlice'.tail = tail
        /\ globalBuffer' = TargetsIn(frozenUpto, tail)
    BY <1>3, <1>b
    DEF ApplyGlobalSlice, CatchUpGlobal, EmptySlice, GlobalBufferExact
  <2> QED
    BY <1>a, <2>1, <2>2 DEF GlobalBufferExact, TargetsIn, tail
<1>4. CASE Freeze(t) \/ PrepareFlush(t) \/ Clear(t)
  <2>1. UNCHANGED list
    BY <1>4 DEF Freeze, PrepareFlush, Clear, queueVars
  <2>2. /\ globalSlice'.head = tail
        /\ globalSlice'.tail = tail
        /\ globalBuffer' = {}
        /\ frozenUpto' = tail
    BY <1>4 DEF Freeze, PrepareFlush, Clear, FreezeGlobalBuffer, EmptySlice,
                GlobalBufferExact
  <2>3. tail' = tail
    BY <2>1 DEF tail
  <2>4. TargetsIn(frozenUpto, globalSlice.head)' = {}
    BY <1>a, <2>2 DEF TargetsIn
  <2> QED
    BY <1>a, <2>2, <2>3, <2>4 DEF GlobalBufferExact
<1> QED
  BY <1>1, <1>2, <1>3, <1>4 DEF ThreadStep, LocalStep

-----------------------------------------------------------------------------
(* The deletes private to a DWPT.                                           *)

\* Every step keeps the list up to the old tail.
LEMMA ListGrows ==
  ASSUME TypeOK, NEW t \in Threads, ThreadStep(t)
  PROVE  /\ tail <= tail'
         /\ \A a, b \in Nat : b <= tail => TargetsIn(a, b)' = TargetsIn(a, b)
<1>1. CASE AddTermToSlice(t) \/ Delete(t)
  <2>1. PICK k \in Targets : AddNode(k)
    BY <1>1, LinkStepFrame
  <2>2. tail \in Nat
    BY DEF TypeOK, tail
  <2> QED
    BY <2>1, <2>2, TargetsAppend DEF AddNode
<1>2. CASE ~(AddTermToSlice(t) \/ Delete(t))
  <2>1. LocalStep(t) => list' = list
    BY LocalStepFrame
  <2>2. list' = list
    BY <1>2, <2>1 DEF ThreadStep, LocalStep, ApplyGlobalSlice, Freeze,
                      PrepareFlush, Clear, queueVars
  <2>3. tail \in Nat
    BY DEF TypeOK, tail
  <2> QED
    BY <2>2, <2>3 DEF TargetsIn, tail
<1> QED
  BY <1>1, <1>2

\* The DWPT of a thread that the step leaves alone keeps its invariant.
LEMMA DwptFrame ==
  ASSUME TypeOK, NEW u \in Threads, DwptInv(u),
         slice'[u] = slice[u], docs'[u] = docs[u], upto'[u] = upto[u],
         InUpdate(u)' \/ slice[u].head = slice[u].tail,
         tail' \in Nat, tail <= tail',
         \A a, b \in Nat : b <= tail => TargetsIn(a, b)' = TargetsIn(a, b)
  PROVE  DwptInv(u)'
<1>1. /\ slice[u].head \in Nat /\ slice[u].tail \in Nat
      /\ tail \in Nat
  BY DEF TypeOK, Slice, tail
<1>2. ASSUME NEW i \in 1..Len(docs[u])
      PROVE  TargetsIn(docs[u][i].pos, slice[u].head)'
               = TargetsIn(docs[u][i].pos, slice[u].head)
  <2>1. docs[u][i] \in Doc
    BY DEF TypeOK
  <2>2. docs[u][i].pos \in Nat
    BY <2>1 DEF Doc
  <2>3. ASSUME NEW a \in Nat, NEW b \in Nat, b <= tail,
               a = docs[u][i].pos, b = slice[u].head
        PROVE  TargetsIn(docs[u][i].pos, slice[u].head)' = TargetsIn(a, b)
    <3>1. TargetsIn(a, b)' = TargetsIn(a, b)
      BY <2>3
    <3>2. docs'[u][i].pos = a /\ slice'[u].head = b
      BY <2>3
    <3> QED
      BY <3>1, <3>2 DEF TargetsIn
  <2> QED
    BY <2>2, <2>3, <1>1 DEF DwptInv
<1>3. \A i \in 1..Len(docs[u]) :
        /\ docs'[u][i].pos <= slice'[u].head
        /\ i <= upto'[u][docs'[u][i].target]
             <=> docs'[u][i].target
                   \in TargetsIn(docs[u][i].pos, slice[u].head)'
  BY <1>2 DEF DwptInv
<1>4. \A k \in Targets : upto'[u][k] <= Len(docs'[u])
  BY DEF DwptInv
<1>5. slice'[u].head <= slice'[u].tail /\ slice'[u].tail <= tail'
  BY <1>1 DEF DwptInv
<1>6. InUpdate(u)' \/ slice'[u].head = slice'[u].tail
  OBVIOUS
<1> QED
  BY <1>3, <1>4, <1>5, <1>6 DEF DwptInv

\* Applying the slice at the end of an indexing call keeps the limits exact:
\* the documents before the call are all below the new limit, the documents
\* of the call are not.
LEMMA FinishDwpt ==
  ASSUME TypeOK, NEW t \in Threads, DwptInv(t),
         NEW o \in AddOp \cup UpdateOp, NEW s \in Slice,
         NEW applies \in BOOLEAN,
         s.head = slice[t].head, s.head <= s.tail, s.tail <= tail,
         applies \/ s.head = s.tail \/ docs[t] = <<>>,
         FinishDocuments(t, o, s, s.tail, applies), list' = list
  PROVE  DwptInv(t)'
<1> DEFINE n == Len(docs[t])
           m == upto[t]
           new == NewDocs(o, s.tail)
           l == Len(new)
<1>1. /\ docs[t] \in Seq(Doc)
      /\ m \in [Targets -> Nat]
      /\ s.head \in Nat /\ s.tail \in Nat
      /\ tail \in Nat
  BY DEF TypeOK, Slice, tail
<1>n. n \in Nat
  BY <1>1
<1>2. docs'[t] = docs[t] \o new
  BY DEF FinishDocuments, NewDocs, TypeOK
<1>l. /\ new \in Seq(Doc) /\ l \in Nat
      /\ \A i \in 1..l : new[i].pos = s.tail /\ new[i].target \in Targets
  <2>1. /\ new \in Seq(Doc)
        /\ l = Len(o.targets)
        /\ \A i \in 1..Len(o.targets) : new[i].pos = s.tail
    BY <1>1, NewDocsType
  <2>2. \A i \in 1..l : new[i] \in Doc
    BY <2>1
  <2>3. \A i \in 1..l : new[i].target \in Targets
    BY <2>2 DEF Doc
  <2> QED
    BY <2>1, <2>3
<1>3. /\ Len(docs'[t]) = n + l
      /\ \A i \in 1..n : docs'[t][i] = docs[t][i]
      /\ \A i \in 1..l : docs'[t][n + i] = new[i]
  <2>1. /\ Len(docs[t] \o new) = n + l
        /\ \A i \in 1..n : (docs[t] \o new)[i] = docs[t][i]
        /\ \A i \in 1..l : (docs[t] \o new)[n + i] = new[i]
    <3> HIDE DEF new
    <3> QED
      BY <1>1, <1>l, ConcatParts
  <2> QED
    BY <1>2, <2>1
<1>4. upto'[t] = IF applies THEN ApplySlice(m, s, n) ELSE m
  BY DEF FinishDocuments, TypeOK
<1>5. slice'[t] = EmptySlice(s.tail)
  BY DEF FinishDocuments, TypeOK, Reset
<1>6. \A k \in Targets : m[k] <= n
  BY DEF DwptInv
<1>d. \A i \in 1..n :
        /\ docs[t][i] \in Doc
        /\ docs[t][i].pos <= s.head
        /\ i <= m[docs[t][i].target]
             <=> docs[t][i].target \in TargetsIn(docs[t][i].pos, s.head)
  BY <1>1 DEF DwptInv
<1>e. applies \/ s.head = s.tail \/ n = 0
  BY <1>1
<1> HIDE DEF n, m, new, l
<1>7. \A k \in Targets :
        /\ upto'[t][k] \in Nat
        /\ upto'[t][k] <= n
        /\ applies => upto'[t][k] =
             IF k \notin TargetsIn(s.head, s.tail) THEN m[k]
             ELSE IF k \in Queries \/ n > m[k] THEN n ELSE m[k]
  <2>1. CASE applies
    <3>1. upto'[t] = ApplySlice(m, s, n)
      BY <1>4, <2>1
    <3>2. \A k \in Targets :
            upto'[t][k] =
              IF k \notin TargetsIn(s.head, s.tail) THEN m[k]
              ELSE IF k \in Queries \/ n > m[k] THEN n ELSE m[k]
      BY <1>1, <1>n, <3>1, ApplySliceType
    <3> QED
      BY <1>1, <1>n, <1>6, <3>2
  <2>2. CASE ~applies
    BY <1>1, <1>4, <1>6, <2>2
  <2> QED
    BY <2>1, <2>2
<1>8. ASSUME NEW i \in 1..n
      PROVE  /\ docs[t][i].pos <= s.tail
             /\ i <= upto'[t][docs[t][i].target]
                  <=> docs[t][i].target \in TargetsIn(docs[t][i].pos, s.tail)
  <2> DEFINE d == docs[t][i]
             k == d.target
  <2>2. k \in Targets /\ d.pos \in Nat
    BY <1>d DEF Doc
  <2>3. /\ d.pos <= s.head
        /\ i <= m[k] <=> k \in TargetsIn(d.pos, s.head)
    BY <1>d
  <2>4. TargetsIn(d.pos, s.tail)
          = TargetsIn(d.pos, s.head) \cup TargetsIn(s.head, s.tail)
    BY <1>1, <2>2, <2>3, TargetsSplit
  <2>5. m[k] \in Nat /\ m[k] <= n
    BY <1>1, <1>6, <2>2
  <2> HIDE DEF d, k
  <2>6. d.pos <= s.tail
    BY <1>1, <2>2, <2>3
  <2>7. i <= upto'[t][k] <=> k \in TargetsIn(d.pos, s.tail)
    <3>1. CASE applies
      <4>1. k \in TargetsIn(s.head, s.tail) => upto'[t][k] = n
        BY <1>7, <1>n, <2>2, <2>5, <3>1
      <4>2. k \notin TargetsIn(s.head, s.tail) => upto'[t][k] = m[k]
        BY <1>7, <2>2, <3>1
      <4> QED
        BY <1>n, <2>3, <2>4, <4>1, <4>2
    <3>2. CASE ~applies
      <4>1. s.head = s.tail
        BY <1>e, <1>n, <3>2
      <4> QED
        BY <1>4, <2>3, <3>2, <4>1
    <3> QED
      BY <3>1, <3>2
  <2> QED
    BY <2>6, <2>7 DEF d, k
<1>9. ASSUME NEW j \in 1..l
      PROVE  /\ new[j].pos <= s.tail
             /\ ~(n + j <= upto'[t][new[j].target])
             /\ new[j].target \notin TargetsIn(new[j].pos, s.tail)
  <2>1. new[j].pos = s.tail /\ new[j].target \in Targets
    BY <1>l
  <2>2. upto'[t][new[j].target] \in Nat /\ upto'[t][new[j].target] <= n
    BY <1>7, <2>1
  <2> QED
    BY <1>1, <1>n, <1>l, <2>1, <2>2, TargetsEmpty
<1>11. slice'[t].head = s.tail /\ slice'[t].tail = s.tail
  BY <1>5 DEF EmptySlice
<1>12. ASSUME NEW i \in 1..Len(docs'[t])
       PROVE  /\ docs'[t][i].pos <= slice'[t].head
              /\ i <= upto'[t][docs'[t][i].target]
                   <=> docs'[t][i].target
                         \in TargetsIn(docs[t][i].pos, slice[t].head)'
  <2>1. TargetsIn(docs[t][i].pos, slice[t].head)'
          = TargetsIn(docs'[t][i].pos, s.tail)
    BY <1>11 DEF TargetsIn
  <2>2. CASE i \in 1..n
    BY <1>3, <1>8, <1>11, <2>1, <2>2
  <2>3. CASE i \notin 1..n
    <3>1. i - n \in 1..l /\ i = n + (i - n)
      BY <1>n, <1>l, <1>3, <2>3
    <3>2. docs'[t][i] = new[i - n]
      BY <1>3, <3>1
    <3> QED
      BY <1>9, <1>11, <2>1, <3>1, <3>2
  <2> QED
    BY <2>2, <2>3
<1>13. \A k \in Targets : upto'[t][k] <= Len(docs'[t])
  <2>1. \A k \in Targets : upto'[t][k] \in Nat /\ upto'[t][k] <= n
    BY <1>7
  <2> QED
    BY <1>n, <1>l, <1>3, <2>1
<1>14. tail' = tail
  BY DEF tail
<1> QED
  BY <1>1, <1>11, <1>12, <1>13, <1>14 DEF DwptInv

\* A DWPT without documents satisfies its invariant as soon as its slice is
\* empty.
LEMMA EmptyDwpt ==
  ASSUME NEW t \in Threads, NEW p \in Nat,
         slice[t] = EmptySlice(p), p <= tail, docs[t] = <<>>,
         upto[t] = [k \in Targets |-> 0]
  PROVE  DwptInv(t)
<1>1. slice[t].head = p /\ slice[t].tail = p
  BY DEF EmptySlice
<1>2. Len(docs[t]) = 0 /\ 1..Len(docs[t]) = {}
  OBVIOUS
<1>3. \A k \in Targets : upto[t][k] <= Len(docs[t])
  BY <1>2
<1>4. \A i \in 1..Len(docs[t]) : FALSE
  BY <1>2
<1> QED
  BY <1>1, <1>3, <1>4 DEF DwptInv

\* The step of a thread preserves the invariant of its own DWPT.
LEMMA OwnDwptStep ==
  ASSUME IInv, TypeOK', NEW t \in Threads, ThreadStep(t)
  PROVE  DwptInv(t)'
<1> USE DEF queueVars, globalVars, dwptVars, threadVars
<1>a. TypeOK /\ OpMatchesPC /\ DwptInv(t)
  BY DEF IInv
<1>b. tail \in Nat /\ tail' \in Nat
  BY <1>a DEF TypeOK, tail
<1>c. /\ tail <= tail'
      /\ \A a, b \in Nat : b <= tail => TargetsIn(a, b)' = TargetsIn(a, b)
  BY <1>a, ListGrows
<1>s. /\ slice[t] \in Slice
      /\ slice[t].head \in Nat /\ slice[t].tail \in Nat
      /\ slice[t].head <= slice[t].tail /\ slice[t].tail <= tail
      /\ ~InUpdate(t) => slice[t].head = slice[t].tail
  BY <1>a DEF TypeOK, Slice, DwptInv
<1>1. CASE BeginAdd(t) \/ BeginUpdate(t)
  <2>1. PICK o : BeginIndex(t, o)
    BY <1>1 DEF BeginAdd, BeginUpdate
  <2>2. pc[t] = "idle" /\ docs' = docs /\ upto' = upto
    BY <2>1 DEF BeginIndex
  <2>3. slice[t].head = slice[t].tail
    BY <1>s, <2>2 DEF InUpdate
  <2>4. CASE docs[t] = <<>>
    <3>1. /\ slice'[t].head = tail /\ slice'[t].tail = tail
          /\ tail' = tail
      BY <1>a, <2>1, <2>4 DEF BeginIndex, TypeOK, EmptySlice, tail
    <3>2. \A k \in Targets : upto'[t][k] <= Len(docs'[t])
      BY <1>a, <2>2 DEF DwptInv
    <3>3. Len(docs'[t]) = 0
      BY <2>2, <2>4
    <3>4. \A i \in 1..Len(docs'[t]) : FALSE
      BY <3>3
    <3> QED
      BY <1>b, <3>1, <3>2, <3>4 DEF DwptInv
  <2>5. CASE docs[t] # <<>>
    <3>1. slice' = slice
      BY <2>1, <2>5 DEF BeginIndex
    <3> QED
      BY <1>a, <1>b, <1>c, <2>2, <2>3, <3>1, DwptFrame
  <2> QED
    BY <2>4, <2>5
<1>2. CASE AbortDwpt(t)
  <2>1. slice[t].head = slice[t].tail
    BY <1>2, <1>s DEF AbortDwpt, InUpdate
  <2>2. slice'[t] = EmptySlice(slice[t].tail)
    BY <1>2, <1>s, <2>1 DEF AbortDwpt, EmptySlice, Slice
  <2>3. docs'[t] = <<>> /\ upto'[t] = [k \in Targets |-> 0] /\ tail' = tail
    BY <1>2, <1>a DEF AbortDwpt, TypeOK, tail
  <2>4. slice[t].tail \in Nat /\ slice[t].tail <= tail'
    BY <1>s, <2>3
  <2>5. ASSUME NEW p \in Nat, p = slice[t].tail
        PROVE  DwptInv(t)'
    <3>1. slice'[t] = EmptySlice(p) /\ p <= tail'
      BY <2>2, <2>4, <2>5
    <3>2. slice'[t].head = p /\ slice'[t].tail = p
      BY <3>1 DEF EmptySlice
    <3>3. \A k \in Targets : upto'[t][k] <= Len(docs'[t])
      BY <2>3
    <3>4. \A i \in 1..Len(docs'[t]) : FALSE
      BY <2>3
    <3> QED
      BY <3>1, <3>2, <3>3, <3>4 DEF DwptInv
  <2> QED
    BY <2>4, <2>5
<1>3. CASE UpdateSlice(t)
  <2> DEFINE s == [slice[t] EXCEPT !.tail = tail]
  <2>1. op[t] \in AddOp
    BY <1>3, <1>a, OpKinds DEF TypeOK, OpMatchesPC, UpdateSlice
  <2>2. /\ s \in Slice /\ s.head = slice[t].head /\ s.tail = tail
    BY <1>b, <1>s DEF Slice
  <2>3. slice[t].head = slice[t].tail
    BY <1>3, <1>s DEF UpdateSlice, InUpdate
  <2>4. FinishDocuments(t, op[t], s, s.tail, slice[t].tail # tail)
    BY <1>3, <2>2 DEF UpdateSlice
  <2>5. list' = list
    BY <1>3 DEF UpdateSlice
  <2>6. /\ s.head <= s.tail /\ s.tail <= tail
        /\ slice[t].tail # tail \/ s.head = s.tail
    BY <1>b, <1>s, <2>2, <2>3
  <2> HIDE DEF s
  <2> QED
    BY <1>a, <2>1, <2>2, <2>4, <2>5, <2>6, FinishDwpt
<1>4. CASE FinishUpdate(t)
  <2>1. op[t] \in UpdateOp
    BY <1>4, <1>a, OpKinds DEF TypeOK, OpMatchesPC, FinishUpdate
  <2>2. FinishDocuments(t, op[t], slice[t], slice[t].tail,
                        op[t].batch \/ docs[t] # <<>>)
    BY <1>4 DEF FinishUpdate
  <2>3. list' = list
    BY <1>4 DEF FinishUpdate
  <2>4. ASSUME NEW applies \in BOOLEAN,
               applies = (op[t].batch \/ docs[t] # <<>>)
        PROVE  DwptInv(t)'
    BY <1>a, <1>s, <2>1, <2>2, <2>3, <2>4, FinishDwpt
  <2> QED
    BY <2>4
<1>5. CASE AddTermToSlice(t)
  <2>1. slice[t].head = slice[t].tail
    BY <1>5, <1>s DEF AddTermToSlice, InUpdate
  <2>2. docs' = docs /\ upto' = upto
    BY <1>5 DEF AddTermToSlice
  <2>3. slice'[t].head = slice[t].head /\ slice'[t].tail = tail + 1
    BY <1>5, <1>a, <1>s DEF AddTermToSlice, TypeOK, Slice
  <2>4. tail' = tail + 1
    BY <1>5, <1>a, TargetsAppend DEF AddTermToSlice, AddNode
  <2>5. InUpdate(t)'
    <3>1. pc'[t] = "try"
      BY <1>5, <1>a DEF AddTermToSlice, TypeOK
    <3>2. op[t] \in UpdateOp
      BY <1>5, <1>a, OpKinds DEF TypeOK, AddTermToSlice
    <3>3. op'[t].kind = "update"
      BY <1>5, <1>a, <3>2 DEF AddTermToSlice, TypeOK, UpdateOp
    <3> QED
      BY <3>1, <3>3 DEF InUpdate
  <2>6. ASSUME NEW i \in 1..Len(docs[t])
        PROVE  TargetsIn(docs[t][i].pos, slice[t].head)'
                 = TargetsIn(docs[t][i].pos, slice[t].head)
    <3>1. docs[t][i] \in Doc
      BY <1>a DEF TypeOK
    <3>2. docs[t][i].pos \in Nat
      BY <3>1 DEF Doc
    <3>3. ASSUME NEW a \in Nat, NEW b \in Nat, b <= tail,
                 a = docs[t][i].pos, b = slice[t].head
          PROVE  TargetsIn(docs[t][i].pos, slice[t].head)' = TargetsIn(a, b)
      <4>1. TargetsIn(a, b)' = TargetsIn(a, b)
        BY <1>c, <3>3
      <4>2. docs'[t][i].pos = a /\ slice'[t].head = b
        BY <2>2, <2>3, <3>3
      <4> QED
        BY <4>1, <4>2 DEF TargetsIn
    <3>4. slice[t].head <= tail
      BY <1>b, <1>s
    <3> QED
      BY <1>s, <3>2, <3>3, <3>4
  <2>7. \A i \in 1..Len(docs'[t]) :
          /\ docs'[t][i].pos <= slice'[t].head
          /\ i <= upto'[t][docs'[t][i].target]
               <=> docs'[t][i].target
                     \in TargetsIn(docs[t][i].pos, slice[t].head)'
    BY <1>a, <2>2, <2>3, <2>6 DEF DwptInv
  <2>8. \A k \in Targets : upto'[t][k] <= Len(docs'[t])
    BY <1>a, <2>2 DEF DwptInv
  <2>9. slice'[t].head <= slice'[t].tail /\ slice'[t].tail <= tail'
    BY <1>b, <1>s, <2>3, <2>4
  <2> QED
    BY <2>5, <2>7, <2>8, <2>9 DEF DwptInv
<1>6. CASE PrepareFlush(t)
  <2>1. /\ slice'[t] = EmptySlice(tail) /\ docs'[t] = <<>>
        /\ upto'[t] = [k \in Targets |-> 0] /\ tail' = tail
    BY <1>6, <1>a DEF PrepareFlush, TypeOK, tail
  <2>2. slice'[t].head = tail' /\ slice'[t].tail = tail'
    BY <2>1 DEF EmptySlice
  <2>3. \A k \in Targets : upto'[t][k] <= Len(docs'[t])
    BY <2>1
  <2>4. \A i \in 1..Len(docs'[t]) : FALSE
    BY <2>1
  <2> QED
    BY <1>b, <2>2, <2>3, <2>4 DEF DwptInv
<1>7. CASE TakeSeqNo(t) \/ Delete(t) \/ TryLockGlobal(t)
           \/ ApplyGlobalSlice(t) \/ LockGlobal(t) \/ Freeze(t) \/ Clear(t)
           \/ Return(t)
  <2>1. slice' = slice /\ docs' = docs /\ upto' = upto
    BY <1>7 DEF TakeSeqNo, Delete, TryLockGlobal, ApplyGlobalSlice,
                LockGlobal, Freeze, Clear, Return
  <2>2. InUpdate(t) => InUpdate(t)'
    BY <1>7, <1>a DEF TakeSeqNo, Delete, TryLockGlobal, ApplyGlobalSlice,
                AfterTry, LockGlobal, Freeze, Clear, Return, InUpdate, TypeOK
  <2> QED
    BY <1>a, <1>b, <1>c, <1>s, <2>1, <2>2, DwptFrame
<1> QED
  BY <1>1, <1>2, <1>3, <1>4, <1>5, <1>6, <1>7 DEF ThreadStep

\* The step of a thread leaves the call and the DWPT of another alone.
LEMMA OtherFrame ==
  ASSUME TypeOK, NEW t \in Threads, ThreadStep(t), NEW u \in Threads, u # t
  PROVE  /\ slice'[u] = slice[u] /\ docs'[u] = docs[u] /\ upto'[u] = upto[u]
         /\ op'[u] = op[u] /\ pc'[u] = pc[u]
BY DEF TypeOK, ThreadStep, BeginAdd, BeginUpdate, BeginIndex,
       AbortDwpt, TakeSeqNo, UpdateSlice, FinishDocuments, AddTermToSlice,
       FinishUpdate, Delete, TryLockGlobal, AfterTry, ApplyGlobalSlice,
       LockGlobal, Freeze, PrepareFlush, Clear, Unlock, Return,
       queueVars, globalVars, dwptVars, threadVars

\* The step of a thread preserves the invariant of the other DWPTs.
LEMMA OtherDwptStep ==
  ASSUME IInv, TypeOK', NEW t \in Threads, ThreadStep(t),
         NEW u \in Threads, u # t
  PROVE  DwptInv(u)'
<1>a. TypeOK /\ DwptInv(u)
  BY DEF IInv
<1>b. tail' \in Nat
  BY DEF TypeOK, tail
<1>c. /\ tail <= tail'
      /\ \A a, b \in Nat : b <= tail => TargetsIn(a, b)' = TargetsIn(a, b)
  BY <1>a, ListGrows
<1>1. /\ slice'[u] = slice[u] /\ docs'[u] = docs[u] /\ upto'[u] = upto[u]
      /\ op'[u] = op[u] /\ pc'[u] = pc[u]
  BY <1>a, OtherFrame
<1>2. InUpdate(u)' \/ slice[u].head = slice[u].tail
  BY <1>a, <1>1 DEF InUpdate, DwptInv
<1> QED
  BY <1>a, <1>b, <1>c, <1>1, <1>2, DwptFrame

-----------------------------------------------------------------------------
(* The theorems.                                                            *)

\* The inductive invariant holds at the start.
LEMMA InvInit == Init => IInv
<1> SUFFICES ASSUME Init PROVE IInv
  OBVIOUS
<1>1. TypeOK
  BY DEF Init, TypeOK, EmptySlice, Slice, Ops, PCs
<1>2. OpMatchesPC
  BY DEF Init, OpMatchesPC
<1>3. tail = 0
  BY DEF Init, tail
<1>4. GlobalBufferExact
  BY <1>3, TargetsEmpty DEF Init, GlobalBufferExact, EmptySlice
<1>5. ASSUME NEW t \in Threads PROVE DwptInv(t)
  <2>1. /\ slice[t] = EmptySlice(0) /\ docs[t] = <<>>
        /\ upto[t] = [k \in Targets |-> 0]
    BY DEF Init
  <2> QED
    BY <1>3, <2>1, EmptyDwpt
<1> QED
  BY <1>1, <1>2, <1>4, <1>5 DEF IInv

\* The inductive invariant is kept by every step.
LEMMA InvStep == IInv /\ [Next]_vars => IInv'
<1> SUFFICES ASSUME IInv, [Next]_vars PROVE IInv'
  OBVIOUS
<1>1. ASSUME NEW t \in Threads, ThreadStep(t) PROVE IInv'
  <2>1. TypeOK' /\ OpMatchesPC'
    BY <1>1, TypeStep DEF IInv
  <2>2. GlobalBufferExact'
    BY <1>1, GlobalBufferStep DEF IInv
  <2>3. \A u \in Threads : DwptInv(u)'
    BY <1>1, <2>1, OwnDwptStep, OtherDwptStep
  <2> QED
    BY <2>1, <2>2, <2>3 DEF IInv
<1>2. CASE UNCHANGED vars
  BY <1>2 DEF IInv, TypeOK, OpMatchesPC, GlobalBufferExact, DwptInv, InUpdate,
     TargetsIn, tail, vars, queueVars, globalVars, dwptVars, threadVars
<1> QED
  BY <1>1, <1>2 DEF Next

\* The inductive invariant holds in every reachable state of the queue.
THEOREM Invariance == Spec => []IInv
<1> QED
  BY InvInit, InvStep, PTL DEF Spec

\* The variables of the queue and of the DWPTs keep their types.
THEOREM TypeCorrect == Spec => []TypeOK
<1>1. IInv => TypeOK
  BY DEF IInv
<1> QED
  BY <1>1, Invariance, PTL

\* No delete is lost or handed out twice by the global buffer, whatever
\* threads find the lock taken in try_apply_global_slice.
THEOREM GlobalBufferCorrect == Spec => []GlobalBufferExact
<1>1. IInv => GlobalBufferExact
  BY DEF IInv
<1> QED
  BY <1>1, Invariance, PTL

\* The limits private to each DWPT delete exactly the documents that were
\* added before a matching delete.
THEOREM PrivateDeletesCorrect == Spec => []PrivateDeletesExact
<1>1. IInv => PrivateDeletesExact
  BY DEF IInv, DwptInv, PrivateDeletesExact
<1> QED
  BY <1>1, Invariance, PTL

\* When any_changes answers no, no delete waits outside a packet.
THEOREM AnyChangesCorrect == Spec => []AnyChangesSound
<1>1. ASSUME IInv PROVE AnyChangesSound
  <2>1. SUFFICES ASSUME ~AnyChanges PROVE frozenUpto = tail
    BY DEF AnyChangesSound
  <2>2. /\ globalBuffer = {} /\ globalSlice.head = tail
        /\ frozenUpto \in Nat /\ tail \in Nat /\ frozenUpto <= tail
    BY <1>1, <2>1 DEF AnyChanges, IInv, TypeOK, GlobalBufferExact, tail
  <2>3. TargetsIn(frozenUpto, tail) = {}
    BY <1>1, <2>2 DEF IInv, GlobalBufferExact
  <2> QED
    BY <2>2, <2>3, TargetsEmptyRange
<1> QED
  BY <1>1, Invariance, PTL

=============================================================================
