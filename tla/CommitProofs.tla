---------------------------- MODULE CommitProofs ----------------------------
(*****************************************************************************)
(* What a commit contains, proved for any numbers of threads, flush daemons, *)
(* operations and generations, with documents and daemons that may fail: a   *)
(* commit has the effects of exactly the operations of the generations       *)
(* before its full flush, and has_uncommitted_changes misses nothing.        *)
(*                                                                           *)
(* To Kills and Carries of DeletePathProofs four things are added.           *)
(*                                                                           *)
(*   Terms       deletes are by term, so that every packet is one that       *)
(*               BufferedUpdatesStream::any counts;                          *)
(*   Unlost      a document that an error dropped is nowhere else;           *)
(*   Past        nothing that is still on its way is of a generation that    *)
(*               the commit covers;                                          *)
(*   Same, Counted  the flags changed and                                    *)
(*               pending_changes_in_current_full_flush tell when the index   *)
(*               or the old queue is ahead of the commit.                    *)
(*                                                                           *)
(* At the snapshot of a commit the tickets are drained, what is left in the  *)
(* threads is of the new queue, and the deletes of the old ones are packets  *)
(* of the stream: what ApplyStream leaves alive is then, by Carries, what    *)
(* the log does not delete, and by Kills all of it.                          *)
(*****************************************************************************)
EXTENDS DeletePathProofs

\* What the log says the index contains after the operations of the generations up to g: Expected of
\* IndexingChain with the log and the lost documents as arguments.
Contained(lg, ls, g) == {d \in Added(lg) \ ls : lg[d].gen <= g /\ ~KilledTo(lg, d, g)}

\* Deletes are by term: no DWPT has documents to delete by query, and every packet of the stream is
\* global and has a term.
TermLog == \A j \in 1..Len(log) : log[j].del # "query"
Terms(U, P, pd, ix) ==
  /\ \A w \in U : w.doomed = {}
  /\ \A i \in 1..Len(P) : P[i].dels \subseteq {"term"} /\ (P[i].dwpt # None => P[i].dwpt.doomed = {})
  /\ \A g \in 1..MaxGen : pd[g] \subseteq {"term"}
  /\ \A p \in Elements(ix.stream) : ~p.private /\ "term" \in p.dels

\* A document that an error dropped is in no DWPT, in no ticket that will be published and in no
\* segment.
Unlost(U, P, ix, lg, ls) ==
  /\ ls \subseteq 1..Len(lg)
  /\ \A w \in U : w.docs \cap ls = {}
  /\ \A i \in 1..Len(P) : Written(P[i]) => P[i].dwpt.docs \cap ls = {}
  /\ \A x \in ix.segs : x.docs \cap ls = {}

\* The generations of the commit are over: a full flush under way is of a later one, and so is every
\* DWPT that a flusher holds.
Past ==
  /\ commit.gen < gen /\ (cpc \in {"mark", "flush", "purge", "events"} => commit.gen < gen - 1)
  /\ \A f \in Flushers : hand[f] # None => hand[f].gen > commit.gen

\* The flags that has_uncommitted_changes reads: without a change the segments are those of the
\* commit, and what is left of the old queue while it is flushed was there when the full flush began.
Same == ~changed => commit.live = LiveDocs(index)
Counted ==
  Rolling /\ (pending[gen - 1] # {} \/ \E s \in Inited : active[s].gen # gen) => pendingFull

\* The invariant of the commit.
TermInv == TermLog /\ Terms(Unticketed, Pipeline, pending, index)
CommitInv ==
  /\ Unlost(Unticketed, Pipeline, index, log, lost) /\ Past /\ Same /\ Counted /\ CommitReflects

-----------------------------------------------------------------------------
\* Who writes the history: operations the log, errors the lost documents, a snapshot the commit.
LogWrites ==
  \/ \E s \in States, kind \in {"none"} \cup (Kinds \cap {"term"}) : Index(s, kind)
  \/ \E kind \in Kinds : Delete(kind)
LostWrites == (\E s \in States : IndexFails(s)) \/ \E f \in Flushers : FlushDwpt(f)
HistoryFrame ==
  /\ UNCHANGED log \/ LogWrites
  /\ UNCHANGED lost \/ LostWrites
  /\ UNCHANGED commit \/ ApplyAndSnapshot

\* No other action does.
LEMMA HistoryWrites ==
  ASSUME Next
  PROVE  HistoryFrame
<1> USE DEF HistoryFrame, history
<1>1. ASSUME NEW s \in States, Obtain(s) \/ MarkState(s) PROVE HistoryFrame
  BY <1>1 DEF Obtain, MarkState
<1>2. ASSUME NEW s \in States, IndexFails(s) PROVE HistoryFrame
  BY <1>2 DEF IndexFails, LostWrites
<1>3. ASSUME NEW s \in States, NEW kind \in {"none"} \cup (Kinds \cap {"term"}), Index(s, kind) PROVE HistoryFrame
  <2>1. UNCHANGED <<lost, commit>>
    BY <1>3 DEF Index
  <2> QED
    BY <1>3, <2>1 DEF LogWrites
<1>4. ASSUME NEW kind \in Kinds, Delete(kind) PROVE HistoryFrame
  <2>1. UNCHANGED <<lost, commit>>
    BY <1>4 DEF Delete
  <2> QED
    BY <1>4, <2>1 DEF LogWrites
<1>5. ASSUME NEW m \in Modes, BeginFullFlush(m) PROVE HistoryFrame
  BY <1>5 DEF BeginFullFlush
<1>6. ASSUME NEW f \in Flushers, FlushDwpt(f) PROVE HistoryFrame
  BY <1>6 DEF FlushDwpt, LostWrites
<1>7. ASSUME NEW f \in Flushers, NextPendingFlush(f) \/ AddFlushTicket(f) \/ AfterFlush(f) PROVE HistoryFrame
  BY <1>7 DEF NextPendingFlush, AddFlushTicket, AfterFlush
<1>8. ASSUME NEW x \in Actors, Local(x) PROVE HistoryFrame
  BY <1>8 DEF Local, ApplyAllDeletesLocal, AddDeletes
<1>9. ASSUME Events PROVE HistoryFrame
  BY <1>9 DEF Events, BeginEvent, PopHead, PublishPopped, EndEvent, ApplyEvent
<1>10. ASSUME ApplyAndSnapshot PROVE HistoryFrame
  BY <1>10 DEF ApplyAndSnapshot
<1>11. ASSUME WaitForFlush \/ ForcePurge \/ EndForcePurge \/ FinishFullFlush PROVE HistoryFrame
  BY <1>11 DEF WaitForFlush, ForcePurge, EndForcePurge, FinishFullFlush
<1> HIDE DEF HistoryFrame
<1> QED
  BY <1>1, <1>2, <1>3, <1>4, <1>5, <1>6, <1>7, <1>8, <1>9, <1>10, <1>11
     DEF Next, Operation, Work, FullFlush

\* Where deletes are by term the log has no other delete.
LEMMA TermLogStep ==
  ASSUME Kinds \subseteq {"term"}, ControlInv, TermLog, Next
  PROVE  TermLog'
<1>1. log \in Seq(Entry)
  BY DEF ControlInv, ChainType
<1>2. ASSUME NEW e, log' = Append(log, e), e.del # "query" PROVE TermLog'
  <2>1. Len(log') = Len(log) + 1 /\ log'[Len(log) + 1] = e /\ \A j \in 1..Len(log) : log'[j] = log[j]
    BY <1>1, <1>2
  <2> QED
    BY <1>1, <1>2, <2>1 DEF TermLog
<1>3. ASSUME NEW s \in States, NEW kind \in {"none"} \cup (Kinds \cap {"term"}), Index(s, kind) PROVE TermLog'
  <2>1. PICK g : log' = Append(log, [gen |-> g, add |-> TRUE, del |-> kind])
    BY <1>3 DEF Index, Log
  <2> DEFINE e == [gen |-> g, add |-> TRUE, del |-> kind]
  <2>2. log' = Append(log, e) /\ e.del # "query"
    BY <2>1
  <2> HIDE DEF e
  <2> QED
    BY <1>2, <2>2
<1>4. ASSUME NEW kind \in Kinds, Delete(kind) PROVE TermLog'
  <2> DEFINE e == [gen |-> gen, add |-> FALSE, del |-> kind]
  <2>2. log' = Append(log, e) /\ e.del # "query"
    BY <1>4 DEF Delete, Log
  <2> HIDE DEF e
  <2> QED
    BY <1>2, <2>2
<1>5. CASE UNCHANGED log
  BY <1>5 DEF TermLog
<1> QED
  BY <1>3, <1>4, <1>5, HistoryWrites DEF HistoryFrame, LogWrites

\* Terms is kept by each kind of step.
LEMMA TermsOperate ==
  ASSUME NEW U, NEW P, NEW pd, NEW ix, NEW lg, NEW sd, NEW st, NEW U2, NEW pd2, NEW lg2,
         NEW g \in 1..MaxGen, NEW add, NEW kind \in {"none", "term"},
         PathType(U, P, pd, ix, lg, sd, st), Terms(U, P, pd, ix),
         Operates(U, U2, pd, pd2, lg, lg2, g, add, kind)
  PROVE  Terms(U2, P, pd2, ix)
<1>1. \A w \in U \cup {NewDwpt(g)} : w \in Dwpt /\ w.doomed = {}
  BY NewDwptFacts DEF PathType, Terms
<1>2. Len(lg) + 1 \in Nat
  BY DEF PathType
<1>3. \A w \in U \cup {NewDwpt(g)} : Kill(w, g, kind).doomed = {} /\ AddDoc(Kill(w, g, kind), Len(lg) + 1).doomed = {}
  BY <1>1, <1>2, KillType, AddDocFacts
<1>4. \A w \in U2 : w.doomed = {}
  BY <1>3 DEF Operates
<1>5. \A h \in 1..MaxGen : pd2[h] \subseteq {"term"}
  <2>1. pd2 = [pd EXCEPT ![g] = pd[g] \cup ({kind} \ {"none"})]
    BY DEF Operates
  <2> QED
    BY <2>1 DEF PathType, Terms
<1> QED
  BY <1>4, <1>5 DEF Terms

\* Freezing hands on what was by term.
LEMMA TermsFreeze ==
  ASSUME NEW U, NEW P, NEW pd, NEW ix, NEW lg, NEW sd, NEW st, NEW U2, NEW P2, NEW pd2,
         NEW g \in 1..MaxGen, NEW t \in Ticket,
         PathType(U, P, pd, ix, lg, sd, st), Terms(U, P, pd, ix),
         Freezes(U, U2, P, P2, pd, pd2, g, t)
  PROVE  Terms(U2, P2, pd2, ix)
<1>1. P \in Seq(Ticket) /\ P2 = Append(P, t)
  BY DEF PathType, Freezes
<1>2. Len(P) \in Nat /\ Len(P2) = Len(P) + 1 /\ P2[Len(P) + 1] = t /\ \A i \in 1..Len(P) : P2[i] = P[i]
  BY <1>1
<1>3. t.dels \subseteq {"term"} /\ (t.dwpt # None => t.dwpt.doomed = {})
  BY DEF Freezes, Terms
<1>4. \A i \in 1..Len(P2) : P2[i].dels \subseteq {"term"} /\ (P2[i].dwpt # None => P2[i].dwpt.doomed = {})
  <2> SUFFICES ASSUME NEW i \in 1..Len(P2) PROVE P2[i].dels \subseteq {"term"} /\ (P2[i].dwpt # None => P2[i].dwpt.doomed = {})
    OBVIOUS
  <2>1. i \in 1..Len(P) \/ i = Len(P) + 1
    BY <1>2
  <2> QED
    BY <1>2, <1>3, <2>1 DEF Terms
<1>5. \A h \in 1..MaxGen : pd2[h] \subseteq {"term"}
  BY DEF Freezes, Terms, PathType
<1>6. \A w \in U2 : w.doomed = {}
  BY DEF Freezes, Terms
<1> QED
  BY <1>4, <1>5, <1>6 DEF Terms

\* Publishing a ticket makes a packet with a term, and no private one.
LEMMA TermsPublish ==
  ASSUME NEW U, NEW P, NEW pd, NEW ix, NEW lg, NEW sd, NEW st, NEW P2, NEW ix2,
         PathType(U, P, pd, ix, lg, sd, st), Terms(U, P, pd, ix),
         Leaves(P, P2), Attached(P[1]), Published(ix, ix2, P[1])
  PROVE  Terms(U, P2, pd, ix2)
<1>1. P \in Seq(Ticket)
  BY DEF PathType
<1>2. 1 \in 1..Len(P) /\ \A i \in 1..Len(P2) : i + 1 \in 1..Len(P) /\ P2[i] = P[i + 1]
  BY <1>1, LeavesFacts
<1>3. \A i \in 1..Len(P2) : P2[i].dels \subseteq {"term"} /\ (P2[i].dwpt # None => P2[i].dwpt.doomed = {})
  BY <1>2 DEF Terms
<1>4. P[1].dels \subseteq {"term"} /\ (P[1].status = "ready" => P[1].dwpt.doomed = {})
  BY <1>2 DEF Terms, Attached
<1>5. \A p \in Elements(ix2.stream) : p \in Elements(ix.stream) \/ (P[1].dels # {} /\ p = Global(ix.next, P[1].dels))
  BY <1>4 DEF Published
<1>6. P[1].dels # {} => ~Global(ix.next, P[1].dels).private /\ "term" \in Global(ix.next, P[1].dels).dels
  BY <1>4 DEF Global
<1>7. \A p \in Elements(ix2.stream) : ~p.private /\ "term" \in p.dels
  BY <1>5, <1>6 DEF Terms
<1> QED
  BY <1>3, <1>7 DEF Terms

\* Every step keeps Terms.
LEMMA TermStep ==
  ASSUME Main \notin MayFail, Kinds \subseteq {"term"}, ControlInv, DeleteTrigger \/ NoTrigger, KillInv, TermInv, Next
  PROVE  TermInv'
<1> DEFINE Goal == Terms(Unticketed', Pipeline', pending', index')
<1>1. /\ PathType(Unticketed, Pipeline, pending, index, log, FiledGen, Settled)
      /\ Terms(Unticketed, Pipeline, pending, index)
  BY PathTyped DEF TermInv
<1>2. StepEffect /\ TermLog'
  BY NextEffect, TermLogStep DEF TermInv
<1>3. ASSUME NEW g, NEW add, NEW kind \in {"none", "term", "query"}, log' = Append(log, OpEntry(g, add, kind))
      PROVE  kind \in {"none", "term"}
  <2>1. log \in Seq(Entry)
    BY <1>1 DEF PathType
  <2>2. Len(log') = Len(log) + 1 /\ log'[Len(log) + 1] = OpEntry(g, add, kind)
    BY <1>3, <2>1
  <2>3. Len(log) + 1 \in 1..Len(log') /\ log'[Len(log) + 1].del = kind
    BY <2>1, <2>2 DEF OpEntry
  <2> QED
    BY <1>2, <2>3 DEF TermLog
<1>4. ControlInv'
  BY ControlStep
<1>5. ASSUME MoveStep PROVE Goal
  BY <1>1, <1>5 DEF MoveStep, Moves, Terms
<1>6. ASSUME NEW g \in 1..MaxGen, NEW add \in BOOLEAN, NEW kind \in {"none", "term", "query"}, OperateStep(g, add, kind)
      PROVE  Goal
  <2>1. kind \in {"none", "term"}
    BY <1>3, <1>6 DEF OperateStep, Operates
  <2>2. Terms(Unticketed', Pipeline, pending', index)
    BY <1>1, <1>6, <2>1, TermsOperate DEF OperateStep
  <2> QED
    BY <1>6, <2>2 DEF OperateStep
<1>7. ASSUME NEW g \in 1..MaxGen, NEW t \in Ticket, FreezeStep(g, t) PROVE Goal
  <2>1. Terms(Unticketed', Pipeline', pending', index)
    BY <1>1, <1>7, TermsFreeze DEF FreezeStep
  <2> QED
    BY <1>7, <2>1 DEF FreezeStep
<1>8. ASSUME NEW kind \in {"term", "query"}, OperateAndFreezeStep(kind) PROVE Goal
  <2>1. PICK pd : /\ Operates(Unticketed, Unticketed', pending, pd, log, log', gen, FALSE, kind)
                  /\ Freezes(Unticketed', Unticketed', Pipeline, Pipeline', pd, pending', gen, GlobalTicket(pd[gen]))
                  /\ UNCHANGED <<index, lost, gen, fullFlush>> /\ FiledGen <= gen /\ gen <= Settled
    BY <1>8 DEF OperateAndFreezeStep
  <2> DEFINE add == FALSE
             t == GlobalTicket(pd[gen])
  <2>2. gen \in 1..MaxGen /\ add \in BOOLEAN /\ Operates(Unticketed, Unticketed', pending, pd, log, log', gen, add, kind)
    BY <2>1 DEF ControlInv, ChainType
  <2> HIDE DEF add
  <2>3. kind \in {"none", "term"}
    BY <1>3, <2>2 DEF Operates
  <2>4. Terms(Unticketed', Pipeline, pd, index)
    BY <1>1, <2>2, <2>3, TermsOperate
  <2>5. PathType(Unticketed', Pipeline, pd, index, log', FiledGen, Settled)
    BY <1>1, <1>4, <2>1, <2>2, OperatedPath DEF KillInv
  <2>6. t \in Ticket
    BY <2>2, <2>5 DEF PathType, GlobalTicket, Ticket
  <2>7. Freezes(Unticketed', Unticketed', Pipeline, Pipeline', pd, pending', gen, t)
    BY <2>1
  <2> HIDE DEF t
  <2>8. Terms(Unticketed', Pipeline', pending', index)
    BY <2>2, <2>4, <2>5, <2>6, <2>7, TermsFreeze
  <2> QED
    BY <2>1, <2>8
<1>9. ASSUME PublishStep PROVE Goal
  <2>1. Terms(Unticketed, Pipeline', pending, index')
    BY <1>1, <1>9, TermsPublish DEF PublishStep
  <2> QED
    BY <1>9, <2>1 DEF PublishStep
<1>10. ASSUME ApplyStep PROVE Goal
  BY <1>1, <1>10 DEF ApplyStep, Applied, Terms
<1>11. Goal
  BY <1>2, <1>5, <1>6, <1>7, <1>8, <1>9, <1>10 DEF StepEffect
<1> QED
  BY <1>2, <1>11 DEF TermInv

-----------------------------------------------------------------------------
\* An error drops the DWPT w, of a thread state or in the hand of a flusher: its documents are lost,
\* and after the step they are nowhere else.
Drop(w) ==
  /\ lost' = lost \cup w.docs /\ DwptOK(log, w)
  /\ (\E s \in Inited : w = active[s]) \/ (\E f \in Flushers : hand[f] # None /\ w = hand[f])
  /\ \A v \in Unticketed' : v.docs \cap w.docs = {}
  /\ \A i \in 1..Len(Pipeline') : Written(Pipeline'[i]) => Pipeline'[i].dwpt.docs \cap w.docs = {}
  /\ \A x \in index.segs : x.docs \cap w.docs = {}

\* A document that fails drops the DWPT of its thread state (DocumentsWriterPerThread::abort).
LEMMA IndexFailsDrops ==
  ASSUME ControlInv, KillInv, CarryInv, NEW s \in States, IndexFails(s)
  PROVE  UNCHANGED lost \/ \E w : Drop(w)
<1>1. /\ UNCHANGED <<index, log, tickets, popped, flushQueue, hand>>
      /\ lost' = lost \cup (IF s \in Inited THEN active[s].docs ELSE {})
  BY DEF IndexFails, ticketVars, indexVars, history
<1>2. CASE s \notin Inited
  BY <1>1, <1>2
<1>3. CASE s \in Inited
  <2> DEFINE w == active[s]
  <2>1. \A f \in Flushers : pc'[f] = pc[f]
    BY ActorFacts DEF IndexFails, ControlInv, ChainType
  <2>2. Inited' = Inited \ {s} /\ \A u \in Inited \ {s} : active'[u] = active[u]
    BY DEF IndexFails, Inited, ControlInv, ChainType
  <2>3. Taken' = Taken /\ Pipeline' = Pipeline
    BY <1>1, <2>1, PipelineSame DEF Taken
  <2>4. w \in Unticketed
    BY <1>3, UnticketedParts
  <2>5. \A v \in Unticketed' : v.docs \cap w.docs = {}
    <3> SUFFICES ASSUME NEW v \in Unticketed' PROVE v.docs \cap w.docs = {}
      OBVIOUS
    <3>1. CASE \E u \in Inited' : v = active'[u]
      BY <1>3, <2>2, <3>1 DEF CarryInv, Slots
    <3>2. CASE \E i \in 1..Len(flushQueue') : v = flushQueue'[i]
      BY <1>1, <1>3, <3>2 DEF CarryInv, Slots
    <3>3. CASE \E f \in Taken' : v = hand'[f]
      BY <1>1, <1>3, <2>3, <3>3 DEF CarryInv, Slots
    <3> QED
      BY <3>1, <3>2, <3>3, UnticketedParts
  <2>6. /\ \A i \in 1..Len(Pipeline) : Written(Pipeline[i]) => Pipeline[i].dwpt.docs \cap w.docs = {}
        /\ \A x \in index.segs : x.docs \cap w.docs = {}
    BY <2>4 DEF CarryInv, Carries, Apart, Written
  <2>7. DwptOK(log, w)
    BY <2>4 DEF KillInv, Kills, Fresh
  <2>8. Drop(w)
    BY <1>1, <1>3, <2>3, <2>5, <2>6, <2>7 DEF Drop
  <2> QED
    BY <2>8
<1> QED
  BY <1>2, <1>3

\* A flush that fails drops the DWPT in hand, and its ticket publishes no segment.
LEMMA FlushDrops ==
  ASSUME ControlInv, KillInv, CarryInv, NEW f \in Flushers, FlushDwpt(f)
  PROVE  UNCHANGED lost \/ \E w : Drop(w)
<1> DEFINE i == OpenTicket(f)
           w == hand[f]
<1>1. UNCHANGED <<index, log, popped, active, flushQueue, hand>>
  BY DEF FlushDwpt, dwptVars, indexVars, history
<1>2. /\ pc[f] = "ticketed" /\ pc'[f] # "taken" /\ \A h \in Flushers : h # f => pc'[h] = pc[h]
  BY ActorFacts DEF FlushDwpt, ControlInv, ChainType
<1>3. Unticketed' = Unticketed
  BY <1>1, <1>2, UnticketedSame
<1>4. i \in 1..Len(tickets) /\ tickets[i].owner = f /\ tickets[i].status = "open"
  BY <1>2, OpenTicketFound DEF ControlInv, IsOpen
<1>5. tickets[i].dwpt = w /\ tickets \in Seq(Ticket) /\ popped \in Ticket \cup {None}
  BY <1>4 DEF ControlInv, Owned, IsOpen, ChainType
<1>6. w # None
  BY <1>2 DEF ControlInv, ChainType, Busy
<1>7. \/ UNCHANGED lost
      \/ lost' = lost \cup w.docs /\ tickets' = [tickets EXCEPT ![i].status = "failed"]
  BY DEF FlushDwpt
<1> HIDE DEF i, w
<1>8. CASE lost' = lost \cup w.docs /\ tickets' = [tickets EXCEPT ![i].status = "failed"]
  <2>1. /\ tickets' \in Seq(Ticket) /\ Len(tickets') = Len(tickets) /\ tickets'[i].status = "failed"
        /\ \A k \in 1..Len(tickets) : k # i => tickets'[k] = tickets[k]
    <3>1. tickets' = [tickets EXCEPT ![i].status = "failed"]
      BY <1>8
    <3>2. /\ Len(tickets') = Len(tickets) /\ tickets'[i].status = "failed"
          /\ \A k \in 1..Len(tickets) : k # i => tickets'[k] = tickets[k]
      BY <1>4, <1>5, <3>1, StatusTyped
    <3>3. tickets' \in Seq(Ticket)
      BY <1>4, <1>5, <3>1, StatusTyped
    <3> QED
      BY <3>2, <3>3
  <2>2. PipeShape(popped, tickets, Pipeline) /\ PipeShape(popped, tickets', Pipeline')
    <3>1. Pipeline = PipeOf(popped, tickets) /\ Pipeline' = PipeOf(popped, tickets')
      BY <1>1 DEF Pipeline, PipeOf
    <3> QED
      BY <1>5, <2>1, <3>1, PipeParts
  <2>3. PICK n \in 1..Len(Pipeline) :
          /\ Pipeline[n] = tickets[i] /\ Pipeline'[n] = tickets'[i] /\ Len(Pipeline') = Len(Pipeline)
          /\ \A k \in 1..Len(Pipeline) : k # n => Pipeline'[k] = Pipeline[k]
    <3>1. CASE popped = None
      BY <1>4, <2>1, <2>2, <3>1 DEF PipeShape
    <3>2. CASE popped # None
      <4>1. /\ Len(Pipeline) = Len(tickets) + 1 /\ Len(Pipeline') = Len(tickets) + 1 /\ Pipeline'[1] = Pipeline[1]
            /\ \A k \in 1..Len(tickets) : Pipeline[k + 1] = tickets[k] /\ Pipeline'[k + 1] = tickets'[k]
        BY <2>1, <2>2, <3>2 DEF PipeShape
      <4>2. i + 1 \in 1..Len(Pipeline) /\ Len(tickets) \in Nat
        BY <1>4, <1>5, <4>1
      <4>3. ASSUME NEW k \in 1..Len(Pipeline), k # i + 1 PROVE Pipeline'[k] = Pipeline[k]
        <5>1. CASE k = 1
          BY <4>1, <5>1
        <5>2. CASE k # 1
          <6>1. k - 1 \in 1..Len(tickets) /\ k - 1 # i /\ (k - 1) + 1 = k
            BY <1>4, <4>1, <4>2, <4>3, <5>2
          <6> QED
            BY <2>1, <4>1, <6>1
        <5> QED
          BY <5>1, <5>2
      <4> QED
        BY <1>4, <4>1, <4>2, <4>3
    <3> QED
      BY <3>1, <3>2
  <2>4. Pipeline[n].dwpt # None /\ Pipeline[n].dwpt = w
    BY <1>5, <1>6, <2>3
  <2>5. DwptOK(log, w)
    BY <2>4 DEF KillInv, Kills, Filed
  <2>6. /\ \A v \in Unticketed : v.docs \cap w.docs = {}
        /\ \A x \in index.segs : x.docs \cap w.docs = {}
        /\ \A k \in 1..Len(Pipeline) : k # n /\ Written(Pipeline[k]) => Pipeline[k].dwpt.docs \cap w.docs = {}
    BY <2>4 DEF CarryInv, Carries, Apart, Written
  <2>7. \A k \in 1..Len(Pipeline') : Written(Pipeline'[k]) => Pipeline'[k].dwpt.docs \cap w.docs = {}
    <3>1. ~Written(Pipeline'[n])
      BY <2>1, <2>3 DEF Written
    <3> QED
      BY <2>3, <2>6, <3>1
  <2>8. Drop(w)
    BY <1>3, <1>6, <1>8, <2>5, <2>6, <2>7 DEF Drop, w
  <2> QED
    BY <2>8
<1> QED
  BY <1>7, <1>8

\* A step that drops no DWPT leaves the lost documents as they are.
LEMMA LostStep ==
  ASSUME ControlInv, KillInv, CarryInv, Next
  PROVE  UNCHANGED lost \/ \E w : Drop(w)
BY HistoryWrites, IndexFailsDrops, FlushDrops DEF HistoryFrame, LostWrites

\* An operation brings a document that no error has dropped.
LEMMA UnlostOperate ==
  ASSUME NEW U, NEW P, NEW pd, NEW ix, NEW lg, NEW ls, NEW sd, NEW st, NEW U2, NEW pd2, NEW lg2,
         NEW g \in 1..MaxGen, NEW add \in BOOLEAN, NEW kind \in {"none", "term", "query"},
         PathType(U, P, pd, ix, lg, sd, st), Unlost(U, P, ix, lg, ls),
         Operates(U, U2, pd, pd2, lg, lg2, g, add, kind)
  PROVE  Unlost(U2, P, ix, lg2, ls)
<1>1. lg \in Seq(Entry) /\ lg2 = Append(lg, OpEntry(g, add, kind))
  BY DEF PathType, Operates
<1>2. Len(lg) \in Nat /\ Len(lg2) = Len(lg) + 1
  BY <1>1
<1>3. ls \subseteq 1..Len(lg2) /\ Len(lg) + 1 \notin ls
  BY <1>2 DEF Unlost
<1>4. \A w \in U \cup {NewDwpt(g)} : w \in Dwpt /\ w.docs \cap ls = {}
  BY NewDwptFacts DEF PathType, Unlost
<1>5. \A w \in U \cup {NewDwpt(g)} :
        Kill(w, g, kind).docs = w.docs /\ AddDoc(Kill(w, g, kind), Len(lg) + 1).docs = w.docs \cup {Len(lg) + 1}
  <2>1. Len(lg) + 1 \in Nat
    BY <1>2
  <2> QED
    BY <1>4, <2>1, KillType, AddDocFacts
<1>6. \A v \in U2 : v.docs \cap ls = {}
  <2> SUFFICES ASSUME NEW v \in U2 PROVE v.docs \cap ls = {}
    OBVIOUS
  <2>1. PICK w \in U \cup {NewDwpt(g)} : v = Kill(w, g, kind) \/ v = AddDoc(Kill(w, g, kind), Len(lg) + 1)
    BY DEF Operates
  <2>2. v.docs \subseteq w.docs \cup {Len(lg) + 1}
    BY <1>5, <2>1
  <2> QED
    BY <1>3, <1>4, <2>2
<1> QED
  BY <1>3, <1>6 DEF Unlost

\* Freezing a queue drops nothing.
LEMMA UnlostFreeze ==
  ASSUME NEW U, NEW P, NEW pd, NEW ix, NEW lg, NEW ls, NEW U2, NEW P2, NEW pd2, NEW g, NEW t \in Ticket,
         P \in Seq(Ticket), Unlost(U, P, ix, lg, ls), Freezes(U, U2, P, P2, pd, pd2, g, t)
  PROVE  Unlost(U2, P2, ix, lg, ls)
<1>1. P2 = Append(P, t) /\ U2 \subseteq U
  BY DEF Freezes
<1>2. Len(P) \in Nat /\ Len(P2) = Len(P) + 1 /\ P2[Len(P) + 1] = t /\ \A i \in 1..Len(P) : P2[i] = P[i]
  BY <1>1
<1>3. Written(t) => t.dwpt.docs \cap ls = {}
  BY DEF Freezes, Unlost, Written
<1>4. \A i \in 1..Len(P2) : Written(P2[i]) => P2[i].dwpt.docs \cap ls = {}
  <2> SUFFICES ASSUME NEW i \in 1..Len(P2) PROVE Written(P2[i]) => P2[i].dwpt.docs \cap ls = {}
    OBVIOUS
  <2>1. i \in 1..Len(P) \/ i = Len(P) + 1
    BY <1>2
  <2> QED
    BY <1>2, <1>3, <2>1 DEF Unlost
<1> QED
  BY <1>1, <1>4 DEF Unlost

\* Publishing a ticket drops nothing.
LEMMA UnlostPublish ==
  ASSUME NEW U, NEW P, NEW ix, NEW lg, NEW ls, NEW P2, NEW ix2,
         P \in Seq(Ticket), Unlost(U, P, ix, lg, ls),
         Leaves(P, P2), Attached(P[1]), Published(ix, ix2, P[1])
  PROVE  Unlost(U, P2, ix2, lg, ls)
<1>2. 1 \in 1..Len(P) /\ \A i \in 1..Len(P2) : i + 1 \in 1..Len(P) /\ P2[i] = P[i + 1]
  BY LeavesFacts
<1>3. \A i \in 1..Len(P2) : Written(P2[i]) => P2[i].dwpt.docs \cap ls = {}
  BY <1>2 DEF Unlost
<1>4. P[1].status = "ready" => P[1].dwpt.docs \cap ls = {}
  BY <1>2 DEF Unlost, Attached, Written
<1>5. \A x \in ix2.segs : x \in ix.segs \/ (P[1].status = "ready" /\ x.docs = P[1].dwpt.docs)
  BY DEF Published, SegmentOf
<1>6. \A x \in ix2.segs : x.docs \cap ls = {}
  BY <1>4, <1>5 DEF Unlost
<1> QED
  BY <1>3, <1>6 DEF Unlost

\* Every step keeps the lost documents apart from the rest.
LEMMA UnlostStep ==
  ASSUME Main \notin MayFail, ControlInv, DeleteTrigger \/ NoTrigger, KillInv, CarryInv, Next,
         Unlost(Unticketed, Pipeline, index, log, lost)
  PROVE  Unlost(Unticketed', Pipeline', index', log', lost')
<1> DEFINE Goal == Unlost(Unticketed', Pipeline', index', log', lost')
<1>1. PathType(Unticketed, Pipeline, pending, index, log, FiledGen, Settled)
  BY PathTyped
<1>2. StepEffect /\ ControlInv'
  BY NextEffect, ControlStep
<1>3. Pipeline \in Seq(Ticket) /\ index \in Index0
  BY <1>1 DEF PathType
<1>4. ASSUME MoveStep, UNCHANGED lost PROVE Goal
  <2>1. /\ Unticketed' \subseteq Unticketed /\ Len(Pipeline') = Len(Pipeline) /\ UNCHANGED <<index, log, lost>>
        /\ \A i \in 1..Len(Pipeline) : Pipeline'[i].dwpt = Pipeline[i].dwpt /\ (Written(Pipeline'[i]) => Written(Pipeline[i]))
    BY <1>4 DEF MoveStep, Moves
  <2> QED
    BY <2>1 DEF Unlost
<1>5. ASSUME MoveStep, NEW w, Drop(w) PROVE Goal
  <2>1. /\ Unticketed' \subseteq Unticketed /\ Len(Pipeline') = Len(Pipeline) /\ UNCHANGED <<index, log>>
        /\ \A i \in 1..Len(Pipeline) : Pipeline'[i].dwpt = Pipeline[i].dwpt /\ (Written(Pipeline'[i]) => Written(Pipeline[i]))
    BY <1>5 DEF MoveStep, Moves
  <2>2. w.docs \subseteq 1..Len(log) /\ lost' = lost \cup w.docs
    BY <1>5 DEF Drop, DwptOK, Added
  <2>3. \A v \in Unticketed' : v.docs \cap lost' = {}
    BY <1>5, <2>1, <2>2 DEF Drop, Unlost
  <2>4. \A i \in 1..Len(Pipeline') : Written(Pipeline'[i]) => Pipeline'[i].dwpt.docs \cap lost' = {}
    BY <1>5, <2>1, <2>2 DEF Drop, Unlost
  <2>5. \A x \in index'.segs : x.docs \cap lost' = {}
    BY <1>5, <2>1, <2>2 DEF Drop, Unlost
  <2> QED
    BY <2>1, <2>2, <2>3, <2>4, <2>5 DEF Unlost
<1>6. ASSUME NEW g \in 1..MaxGen, NEW add \in BOOLEAN, NEW kind \in {"none", "term", "query"}, OperateStep(g, add, kind)
      PROVE  Goal
  <2>1. Unlost(Unticketed', Pipeline, index, log', lost)
    BY <1>1, <1>6, UnlostOperate DEF OperateStep
  <2> QED
    BY <1>6, <2>1 DEF OperateStep
<1>7. ASSUME NEW g \in 1..MaxGen, NEW t \in Ticket, FreezeStep(g, t) PROVE Goal
  <2>1. Unlost(Unticketed', Pipeline', index, log, lost)
    BY <1>3, <1>7, UnlostFreeze DEF FreezeStep
  <2> QED
    BY <1>7, <2>1 DEF FreezeStep
<1>8. ASSUME NEW kind \in {"term", "query"}, OperateAndFreezeStep(kind) PROVE Goal
  <2>1. PICK pd : /\ Operates(Unticketed, Unticketed', pending, pd, log, log', gen, FALSE, kind)
                  /\ Freezes(Unticketed', Unticketed', Pipeline, Pipeline', pd, pending', gen, GlobalTicket(pd[gen]))
                  /\ UNCHANGED <<index, lost, gen, fullFlush>> /\ FiledGen <= gen /\ gen <= Settled
    BY <1>8 DEF OperateAndFreezeStep
  <2> DEFINE add == FALSE
             t == GlobalTicket(pd[gen])
  <2>2. /\ gen \in 1..MaxGen /\ add \in BOOLEAN /\ kind \in {"none", "term", "query"}
        /\ Operates(Unticketed, Unticketed', pending, pd, log, log', gen, add, kind)
    BY <2>1 DEF ControlInv, ChainType
  <2> HIDE DEF add
  <2>4. Unlost(Unticketed', Pipeline, index, log', lost)
    BY <1>1, <2>2, UnlostOperate
  <2>5. PathType(Unticketed', Pipeline, pd, index, log', FiledGen, Settled)
    BY <1>1, <1>2, <2>1, <2>2, OperatedPath DEF KillInv
  <2>6. t \in Ticket
    BY <2>2, <2>5 DEF PathType, GlobalTicket, Ticket
  <2>7. Freezes(Unticketed', Unticketed', Pipeline, Pipeline', pd, pending', gen, t)
    BY <2>1
  <2> HIDE DEF t
  <2>8. Unlost(Unticketed', Pipeline', index, log', lost)
    BY <1>3, <2>4, <2>6, <2>7, UnlostFreeze
  <2> QED
    BY <2>1, <2>8
<1>9. ASSUME PublishStep PROVE Goal
  <2>1. Unlost(Unticketed, Pipeline', index', log, lost)
    BY <1>3, <1>9, UnlostPublish DEF PublishStep
  <2> QED
    BY <1>9, <2>1 DEF PublishStep
<1>10. ASSUME ApplyStep PROVE Goal
  <2>1. \A y \in index'.segs : \E x \in index.segs : y.docs = x.docs
    <3>1. CASE index'.segs = index.segs
      BY <3>1
    <3>2. CASE \A y \in index'.segs : \E x \in index.segs : y = Stamp(index, x)
      <4>1. \A x \in index.segs : Stamp(index, x).docs = x.docs
        BY <1>3 DEF Stamp, Index0, Segment
      <4> QED
        BY <3>2, <4>1
    <3> QED
      BY <1>10, <3>1, <3>2 DEF ApplyStep, Applied
  <2> QED
    BY <1>10, <2>1 DEF ApplyStep, Unlost
<1>11. MoveStep => Goal
  BY <1>4, <1>5, LostStep
<1> QED
  BY <1>2, <1>6, <1>7, <1>8, <1>9, <1>10, <1>11 DEF StepEffect

-----------------------------------------------------------------------------
\* An operation of a generation after n.
LaterOperation(lg, lg2, n) ==
  \E g \in 1..MaxGen, add \in BOOLEAN, kind \in {"none", "term", "query"} :
    n < g /\ lg2 = Append(lg, OpEntry(g, add, kind))

\* The history of a commit does not change any more: an operation of a later generation ...
LEMMA ContainedGrows ==
  ASSUME NEW lg \in Seq(Entry), NEW lg2, NEW ls, NEW n \in Nat, LaterOperation(lg, lg2, n)
  PROVE  Contained(lg2, ls, n) = Contained(lg, ls, n)
<1>0. PICK g \in 1..MaxGen, add \in BOOLEAN, kind \in {"none", "term", "query"} :
        n < g /\ lg2 = Append(lg, OpEntry(g, add, kind))
  BY DEF LaterOperation
<1>1. Grown(lg, lg2, g, add, kind) /\ lg2 \in Seq(Entry)
  BY <1>0, OpLog
<1>2. /\ Len(lg) \in Nat /\ Len(lg2) = Len(lg) + 1 /\ lg2[Len(lg) + 1].gen = g
      /\ \A j \in 1..Len(lg) : lg2[j] = lg[j]
      /\ Added(lg) \subseteq Added(lg2) /\ \A d \in Added(lg2) : d \in Added(lg) \/ d = Len(lg) + 1
  BY <1>1 DEF Grown
<1>3. \A j \in 1..Len(lg) : j \in 1..Len(lg2)
  BY <1>2
<1>4. ~(lg2[Len(lg) + 1].gen <= n)
  BY <1>0, <1>2
<1>5. \A j \in 1..Len(lg2) : lg2[j].gen <= n => j \in 1..Len(lg)
  BY <1>2, <1>4
<1>6. \A d \in 1..Len(lg) : KilledTo(lg2, d, n) <=> KilledTo(lg, d, n)
  BY <1>2, <1>3, <1>5 DEF KilledTo, Struck
<1>7. Added(lg) \subseteq 1..Len(lg)
  BY DEF Added
<1> QED
  BY <1>2, <1>4, <1>6, <1>7 DEF Contained

\* ... and a document of a later generation that an error drops do not change what it has to contain.
LEMMA ContainedDrops ==
  ASSUME NEW lg, NEW ls, NEW ds, NEW n, \A d \in ds : ~(lg[d].gen <= n)
  PROVE  Contained(lg, ls \cup ds, n) = Contained(lg, ls, n)
BY DEF Contained

\* Contained is what Expected of IndexingChain says, before and after a step.
LEMMA ExpectedIs ==
  /\ \A g : Expected(g) = Contained(log, lost, g)
  /\ (CommitReflects <=> commit.live = Contained(log, lost, commit.gen))
  /\ (CommitReflects' <=> commit'.live = Contained(log', lost', commit'.gen))
<1>1. \A d, g : Killed(d, g) <=> KilledTo(log, d, g)
  BY DEF Killed, KilledTo, Deletes, Before, Struck
<1>2. Docs = Added(log)
  BY DEF Docs, Added
<1>3. \A g : Expected(g) = Contained(log, lost, g)
  BY <1>1, <1>2 DEF Expected, Contained
<1>4. CommitReflects <=> commit.live = Contained(log, lost, commit.gen)
  BY <1>3 DEF CommitReflects
<1> HIDE DEF CommitReflects
<1>5. (CommitReflects <=> commit.live = Contained(log, lost, commit.gen))'
  BY <1>4, PTL
<1> QED
  BY <1>3, <1>4, <1>5 DEF Contained, Added, KilledTo, Struck

\* Nothing that is buffered without a ticket is of a generation that the commit covers.
LEMMA UnticketedPast ==
  ASSUME ControlInv, Past
  PROVE  /\ commit.gen \in Nat /\ gen \in Nat /\ commit.gen < gen
         /\ \A w \in Unticketed : w.gen \in Nat /\ commit.gen < w.gen
         /\ \A s \in Inited : active[s].gen \in Nat /\ commit.gen < active[s].gen
<1>1. commit.gen \in Nat /\ gen \in Nat /\ commit.gen < gen
  BY DEF ControlInv, ChainType, Past
<1>2. Rolling => commit.gen < gen - 1
  BY DEF Past, Rolling
<1>3. \A s \in Inited : active[s].gen \in Nat /\ commit.gen < active[s].gen
  BY <1>1, <1>2 DEF ControlInv, Generations, Rolling
<1>4. \A i \in 1..Len(flushQueue) : flushQueue[i].gen \in Nat /\ commit.gen < flushQueue[i].gen
  BY <1>1, <1>2 DEF ControlInv, Generations
<1>5. \A f \in Taken : hand[f].gen \in Nat /\ commit.gen < hand[f].gen
  BY <1>1, <1>2 DEF ControlInv, Generations
<1> QED
  BY <1>1, <1>3, <1>4, <1>5, UnticketedParts

\* The step only moves within a full flush or takes nothing in hand: then Past is kept.
LEMMA PastFrame ==
  ASSUME ControlInv, Past, UNCHANGED <<gen, commit>>,
         cpc' \in {"mark", "flush", "purge", "events"} => cpc \in {"mark", "flush", "purge", "events"},
         \A f \in Flushers : hand'[f] # None => hand[f] # None /\ hand'[f].gen = hand[f].gen
  PROVE  Past'
BY DEF Past

\* A delete leaves what a flusher holds of the same generation.
LEMMA KillHand ==
  ASSUME ControlInv, NEW g, NEW kind,
         hand' = [f \in Flushers |-> IF pc[f] = "taken" THEN Kill(hand[f], g, kind) ELSE hand[f]]
  PROVE  \A f \in Flushers : hand'[f] # None => hand[f] # None /\ hand'[f].gen = hand[f].gen
<1> SUFFICES ASSUME NEW f \in Flushers, hand'[f] # None PROVE hand[f] # None /\ hand'[f].gen = hand[f].gen
  OBVIOUS
<1>1. hand[f] \in Dwpt \cup {None}
  BY DEF ControlInv, ChainType
<1> QED
  BY <1>1, KillType, KillNone

\* Every step keeps the generations of the commit behind.
LEMMA PastStep ==
  ASSUME ControlInv, Past, Next
  PROVE  Past'
<1> USE IndexingChainAssumption, ActorFacts DEF queueVars, dwptVars, fullVars, history
<1>1. ASSUME NEW s \in States, Obtain(s) \/ IndexFails(s) PROVE Past'
  BY <1>1, PastFrame DEF Obtain, IndexFails
<1>2. ASSUME NEW s \in States, MarkState(s) PROVE Past'
  <2>1. UNCHANGED <<gen, commit, hand>> /\ cpc = "mark"
    BY <1>2 DEF MarkState
  <2> QED
    BY <2>1, PastFrame
<1>3. ASSUME NEW s \in States, NEW kind \in {"none"} \cup (Kinds \cap {"term"}), Index(s, kind) PROVE Past'
  <2>1. /\ UNCHANGED <<gen, commit, cpc>>
        /\ \E g : hand' = [f \in Flushers |-> IF pc[f] = "taken" THEN Kill(hand[f], g, kind) ELSE hand[f]]
    BY <1>3 DEF Index, Buffer
  <2>2. \A f \in Flushers : hand'[f] # None => hand[f] # None /\ hand'[f].gen = hand[f].gen
    BY <2>1, KillHand
  <2> QED
    BY <2>1, <2>2, PastFrame
<1>4. ASSUME NEW kind \in Kinds, Delete(kind) PROVE Past'
  <2>1. /\ UNCHANGED <<gen, commit, cpc>>
        /\ hand' = [f \in Flushers |-> IF pc[f] = "taken" THEN Kill(hand[f], gen, kind) ELSE hand[f]]
    BY <1>4 DEF Delete
  <2>2. \A f \in Flushers : hand'[f] # None => hand[f] # None /\ hand'[f].gen = hand[f].gen
    BY <2>1, KillHand
  <2> QED
    BY <2>1, <2>2, PastFrame
<1>5. ASSUME NEW m \in Modes, BeginFullFlush(m) PROVE Past'
  <2>1. gen' = gen + 1 /\ UNCHANGED <<commit, hand>>
    BY <1>5 DEF BeginFullFlush
  <2>2. gen \in Nat /\ commit.gen \in Nat
    BY DEF ControlInv, ChainType
  <2> QED
    BY <2>1, <2>2 DEF Past
<1>6. ASSUME NEW f \in Flushers, NextPendingFlush(f) PROVE Past'
  <2>1. UNCHANGED <<gen, commit, cpc>>
    BY <1>6 DEF NextPendingFlush
  <2>2. PICK w : /\ hand' = [hand EXCEPT ![f] = w]
                 /\ \/ w = Head(flushQueue) /\ flushQueue # <<>>
                    \/ \E s \in flushPending : w = active[s]
    BY <1>6 DEF NextPendingFlush
  <2>3. w \in Unticketed
    <3>1. CASE w = Head(flushQueue) /\ flushQueue # <<>>
      <4>1. flushQueue \in Seq(Dwpt)
        BY DEF ControlInv, ChainType
      <4>2. w = flushQueue[1] /\ 1 \in 1..Len(flushQueue)
        BY <3>1, <4>1
      <4> QED
        BY <4>2, UnticketedParts
    <3>2. CASE \E s \in flushPending : w = active[s]
      BY <3>2, UnticketedParts DEF ControlInv, ChainType
    <3> QED
      BY <2>2, <3>1, <3>2
  <2>4. w.gen > commit.gen
    BY <2>3, UnticketedPast
  <2>5. \A h \in Flushers : hand'[h] = IF h = f THEN w ELSE hand[h]
    BY <2>2 DEF ControlInv, ChainType
  <2> QED
    BY <2>1, <2>4, <2>5 DEF Past
<1>7. ASSUME NEW f \in Flushers, AddFlushTicket(f) \/ FlushDwpt(f) PROVE Past'
  BY <1>7, PastFrame DEF AddFlushTicket, FlushDwpt
<1>8. ASSUME NEW f \in Flushers, AfterFlush(f) PROVE Past'
  <2>1. UNCHANGED <<gen, commit>> /\ hand' = [hand EXCEPT ![f] = None] /\ (cpc' = cpc \/ cpc' = "idle")
    BY <1>8 DEF AfterFlush, LeaveFullFlush
  <2>2. \A h \in Flushers : hand'[h] # None => hand[h] # None /\ hand'[h].gen = hand[h].gen
    BY <2>1 DEF ControlInv, ChainType
  <2> QED
    BY <2>1, <2>2, PastFrame
<1>9. ASSUME NEW x \in Actors, Local(x) PROVE Past'
  BY <1>9, PastFrame DEF Local, ApplyAllDeletesLocal, AddDeletes
<1>10. ASSUME Events PROVE Past'
  <2>1. UNCHANGED <<gen, commit, cpc, hand>>
    BY <1>10 DEF Events, BeginEvent, PopHead, PublishPopped, EndEvent, ApplyEvent
  <2> QED
    BY <2>1, PastFrame
<1>11. ASSUME WaitForFlush \/ ForcePurge \/ FinishFullFlush PROVE Past'
  <2>1. UNCHANGED <<gen, commit, hand>> /\ (cpc' = cpc \/ cpc = "flush" \/ cpc' = "idle")
    BY <1>11 DEF WaitForFlush, ForcePurge, FinishFullFlush, LeaveFullFlush
  <2> QED
    BY <2>1, PastFrame
<1>12. ASSUME EndForcePurge PROVE Past'
  <2>1. UNCHANGED <<gen, commit, hand>> /\ purging = Main
    BY <1>12 DEF EndForcePurge
  <2>2. cpc = "purge"
    BY <2>1 DEF ControlInv, Phase
  <2> QED
    BY <2>1, <2>2, PastFrame
<1>13. ASSUME ApplyAndSnapshot PROVE Past'
  <2>1. UNCHANGED <<gen, hand>> /\ cpc' = "finish" /\ cpc = "events"
    BY <1>13 DEF ApplyAndSnapshot
  <2>2. CASE mode # "commit"
    BY <1>13, <2>1, <2>2, PastFrame DEF ApplyAndSnapshot
  <2>3. CASE mode = "commit"
    <3>1. commit' = [gen |-> gen - 1, live |-> LiveDocs(index')]
      BY <1>13, <2>3 DEF ApplyAndSnapshot
    <3>2. commit'.gen = gen - 1 /\ gen \in Nat
      BY <3>1 DEF ControlInv, ChainType
    <3>3. \A f \in Flushers : hand[f] = None
      BY <2>1, <2>3 DEF ControlInv, Phase, Generations, Rolling
    <3> QED
      BY <2>1, <3>2, <3>3 DEF Past
  <2> QED
    BY <2>2, <2>3
<1> QED
  BY <1>1, <1>2, <1>3, <1>4, <1>5, <1>6, <1>7, <1>8, <1>9, <1>10, <1>11, <1>12, <1>13
     DEF Next, Operation, Work, FullFlush

-----------------------------------------------------------------------------
\* Equal contents have equal live documents.
LEMMA ContentsLive ==
  ASSUME NEW ix, NEW ix2, Contents(ix) = Contents(ix2)
  PROVE  LiveDocs(ix) = LiveDocs(ix2)
<1>1. ASSUME NEW a, NEW b, Contents(a) = Contents(b) PROVE LiveDocs(a) \subseteq LiveDocs(b)
  <2> SUFFICES ASSUME NEW x \in a.segs, NEW d \in x.live PROVE \E y \in b.segs : d \in y.live
    BY DEF LiveDocs
  <2>1. <<x.docs, x.live>> \in Contents(b)
    BY <1>1 DEF Contents
  <2>2. PICK y \in b.segs : <<x.docs, x.live>> = <<y.docs, y.live>>
    BY <2>1 DEF Contents
  <2> QED
    BY <2>2
<1> QED
  BY <1>1

\* Whatever changes the live documents of the index is a change (check_point).
LEMMA SameStep ==
  ASSUME ControlInv, Same, Next
  PROVE  Same'
<1> USE DEF indexVars, history
<1>1. ASSUME UNCHANGED <<index, changed, commit>> PROVE Same'
  BY <1>1 DEF Same, LiveDocs
<1>2. ASSUME NEW s \in States, NEW kind \in {"none"} \cup (Kinds \cap {"term"}), Index(s, kind) PROVE Same'
  BY <1>1, <1>2 DEF Index
<1>3. ASSUME NEW kind \in Kinds, Delete(kind) PROVE Same'
  BY <1>1, <1>3 DEF Delete
<1>4. ASSUME NEW s \in States, Obtain(s) \/ IndexFails(s) \/ MarkState(s) PROVE Same'
  BY <1>1, <1>4 DEF Obtain, IndexFails, MarkState
<1>5. ASSUME NEW m \in Modes, BeginFullFlush(m) PROVE Same'
  BY <1>1, <1>5 DEF BeginFullFlush
<1>6. ASSUME NEW f \in Flushers, Work(f) PROVE Same'
  BY <1>1, <1>6 DEF Work, NextPendingFlush, AddFlushTicket, FlushDwpt, AfterFlush
<1>7. ASSUME NEW x \in Actors, Local(x) PROVE Same'
  BY <1>1, <1>7 DEF Local, ApplyAllDeletesLocal, AddDeletes
<1>8. ASSUME (\E e \in {"purge", "apply"} : BeginEvent(e)) \/ PopHead \/ EndEvent PROVE Same'
  BY <1>1, <1>8 DEF BeginEvent, PopHead, EndEvent
<1>9. ASSUME PublishPopped PROVE Same'
  <2>1. /\ popped # None /\ index' = Publish(index, popped) /\ UNCHANGED commit
        /\ changed' = (changed \/ popped.status = "ready")
    BY <1>9 DEF PublishPopped
  <2>2. popped \in Ticket /\ index \in Index0 /\ (popped.status = "ready" => popped.dwpt # None)
    BY <2>1 DEF ControlInv, ChainType, Owned, Attached
  <2>3. popped.status # "ready" => index'.segs = index.segs
    BY <2>1, <2>2, PublishParts DEF Published
  <2> QED
    BY <2>1, <2>3 DEF Same, LiveDocs
<1>10. ASSUME ApplyEvent PROVE Same'
  <2>1. changed' = (changed \/ Contents(index') # Contents(index)) /\ UNCHANGED commit
    BY <1>10 DEF ApplyEvent, ApplyAllDeletesAndUpdate
  <2>2. Contents(index') = Contents(index) => LiveDocs(index') = LiveDocs(index)
    BY ContentsLive
  <2> QED
    BY <2>1, <2>2 DEF Same, LiveDocs
<1>11. ASSUME ApplyAndSnapshot PROVE Same'
  <2>1. CASE mode = "commit"
    <3>1. commit' = [gen |-> gen - 1, live |-> LiveDocs(index')]
      BY <1>11, <2>1 DEF ApplyAndSnapshot
    <3> QED
      BY <3>1 DEF Same, LiveDocs
  <2>2. CASE mode # "commit"
    <3>1. changed' = (changed \/ Contents(index') # Contents(index)) /\ UNCHANGED commit
      BY <1>11, <2>2 DEF ApplyAndSnapshot
    <3>2. Contents(index') = Contents(index) => LiveDocs(index') = LiveDocs(index)
      BY ContentsLive
    <3> QED
      BY <3>1, <3>2 DEF Same, LiveDocs
  <2> QED
    BY <2>1, <2>2
<1>12. ASSUME WaitForFlush \/ ForcePurge \/ EndForcePurge \/ FinishFullFlush PROVE Same'
  BY <1>1, <1>12 DEF WaitForFlush, ForcePurge, EndForcePurge, FinishFullFlush
<1> HIDE DEF Same
<1> QED
  BY <1>2, <1>3, <1>4, <1>5, <1>6, <1>7, <1>8, <1>9, <1>10, <1>11, <1>12
     DEF Next, Operation, Events, FullFlush

\* A step that adds neither deletes nor documents to an old queue keeps its count.
LEMMA CountedFrame ==
  ASSUME ControlInv, Counted, UNCHANGED <<gen, pendingFull>>, Rolling' => Rolling,
         Rolling => (pending'[gen - 1] # {} => pending[gen - 1] # {}),
         \A s \in Inited' : active'[s].gen # gen => s \in Inited /\ active[s].gen # gen
  PROVE  Counted'
BY DEF Counted

\* What is left of the old queue was there when the full flush began, and was counted then.
LEMMA CountedStep ==
  ASSUME ControlInv, Counted, Next
  PROVE  Counted'
<1> USE IndexingChainAssumption, ActorFacts DEF queueVars, dwptVars, fullVars
<1>0. /\ gen \in 1..MaxGen /\ (Rolling => gen - 1 \in 1..MaxGen /\ gen - 1 # gen)
      /\ active \in [States -> Dwpt \cup {None}] /\ pending \in [1..MaxGen -> SUBSET {"term", "query"}]
  BY DEF ControlInv, ChainType, Phase, Rolling
<1>1. ASSUME NEW s \in States, AddFlushableState(s) \/ UNCHANGED active
      PROVE  \A u \in Inited' : active'[u].gen # gen => u \in Inited /\ active[u].gen # gen
  BY <1>0, <1>1 DEF AddFlushableState, Inited
<1>2. ASSUME NEW s \in States, Obtain(s) PROVE Counted'
  <2>1. UNCHANGED <<gen, pending, pendingFull, cpc>> /\ (AddFlushableState(s) \/ UNCHANGED active)
    BY <1>2 DEF Obtain
  <2> QED
    BY <1>1, <2>1, CountedFrame DEF Rolling
<1>3. ASSUME NEW s \in States, MarkState(s) PROVE Counted'
  <2>1. UNCHANGED <<gen, pending, pendingFull>> /\ (AddFlushableState(s) \/ UNCHANGED active) /\ cpc = "mark"
    BY <1>3 DEF MarkState
  <2> QED
    BY <1>1, <2>1, CountedFrame DEF Rolling
<1>4. ASSUME NEW s \in States, IndexFails(s) PROVE Counted'
  <2>1. UNCHANGED <<gen, pending, pendingFull, cpc>> /\ active' = [active EXCEPT ![s] = None]
    BY <1>4 DEF IndexFails
  <2>2. \A u \in Inited' : active'[u].gen # gen => u \in Inited /\ active[u].gen # gen
    BY <1>0, <2>1 DEF Inited
  <2> QED
    BY <2>1, <2>2, CountedFrame DEF Rolling
<1>5. ASSUME NEW s \in States, NEW kind \in {"none"} \cup (Kinds \cap {"term"}), Index(s, kind) PROVE Counted'
  <2> DEFINE w == Target(s)
  <2>1. /\ UNCHANGED <<gen, pendingFull, cpc>>
        /\ pending' = [pending EXCEPT ![w.gen] = pending[w.gen] \cup ({kind} \ {"none"})]
        /\ active' = [u \in States |-> IF u = s THEN AddDoc(Kill(w, w.gen, kind), Len(log) + 1)
                                       ELSE Kill(active[u], w.gen, kind)]
    BY <1>5 DEF Index, Buffer, Target
  <2>2. w \in Dwpt /\ w.gen \in 1..MaxGen /\ (s \in Inited => w = active[s]) /\ (s \notin Inited => w.gen = gen)
    BY <1>0, TargetFacts, NewDwptFacts DEF Target
  <2>3. Len(log) + 1 \in Nat
    BY DEF ControlInv, ChainType
  <2> HIDE DEF w
  <2>4. \A u \in Inited' : active'[u].gen # gen => u \in Inited /\ active[u].gen # gen
    <3> SUFFICES ASSUME NEW u \in Inited', active'[u].gen # gen PROVE u \in Inited /\ active[u].gen # gen
      OBVIOUS
    <3>1. u \in States /\ active'[u] # None
      BY DEF Inited
    <3>2. CASE u = s
      <4>1. active'[u].gen = w.gen
        BY <2>1, <2>2, <2>3, <3>1, <3>2, AddDocFacts
      <4> QED
        BY <2>2, <3>2, <4>1
    <3>3. CASE u # s
      <4>1. active'[u] = Kill(active[u], w.gen, kind)
        BY <2>1, <3>1, <3>3
      <4>2. active[u] # None /\ active[u] \in Dwpt
        BY <1>0, <3>1, <4>1, KillNone
      <4> QED
        BY <3>1, <4>1, <4>2, KillType DEF Inited
    <3> QED
      BY <3>2, <3>3
  <2>5. CASE w.gen = gen
    <3>1. Rolling => pending'[gen - 1] = pending[gen - 1]
      BY <1>0, <2>1, <2>2, <2>5
    <3> QED
      BY <2>1, <2>4, <3>1, CountedFrame DEF Rolling
  <2>6. CASE w.gen # gen
    <3>1. s \in Inited /\ active[s].gen # gen
      BY <2>2, <2>6
    <3> QED
      BY <2>1, <3>1 DEF Counted, Rolling
  <2> QED
    BY <2>5, <2>6
<1>6. ASSUME NEW kind \in Kinds, Delete(kind) PROVE Counted'
  <2>1. /\ UNCHANGED <<gen, pendingFull, cpc>> /\ active' = [s \in States |-> Kill(active[s], gen, kind)]
        /\ \E q : pending' = [pending EXCEPT ![gen] = q]
    BY <1>6 DEF Delete
  <2>2. Rolling => pending'[gen - 1] = pending[gen - 1]
    BY <1>0, <2>1
  <2>3. \A u \in Inited' : active'[u].gen # gen => u \in Inited /\ active[u].gen # gen
    <3> SUFFICES ASSUME NEW u \in Inited', active'[u].gen # gen PROVE u \in Inited /\ active[u].gen # gen
      OBVIOUS
    <3>1. u \in States /\ active'[u] # None /\ active'[u] = Kill(active[u], gen, kind)
      BY <2>1 DEF Inited
    <3>2. active[u] # None /\ active[u] \in Dwpt
      BY <1>0, <3>1, KillNone
    <3> QED
      BY <3>1, <3>2, KillType DEF Inited
  <2> QED
    BY <2>1, <2>2, <2>3, CountedFrame DEF Rolling
<1>7. ASSUME NEW m \in Modes, BeginFullFlush(m) PROVE Counted'
  <2>1. gen' = gen + 1 /\ pendingFull' = AnyChanges /\ UNCHANGED <<pending, active>>
    BY <1>7 DEF BeginFullFlush
  <2>2. gen' - 1 = gen
    BY <1>0, <2>1
  <2>3. pending[gen] # {} \/ Inited # {} => AnyChanges
    BY DEF AnyChanges
  <2> QED
    BY <2>1, <2>2, <2>3 DEF Counted, Inited
<1>8. ASSUME NEW f \in Flushers, NextPendingFlush(f) PROVE Counted'
  <2>1. UNCHANGED <<gen, pending, pendingFull, cpc>> /\ (UNCHANGED active \/ \E s \in flushPending : active' = [active EXCEPT ![s] = None])
    BY <1>8 DEF NextPendingFlush
  <2>2. \A u \in Inited' : active'[u].gen # gen => u \in Inited /\ active[u].gen # gen
    BY <1>0, <2>1 DEF Inited
  <2> QED
    BY <2>1, <2>2, CountedFrame DEF Rolling
<1>9. ASSUME NEW g, NEW t, AddTicket(g, t) \/ UNCHANGED pending, UNCHANGED <<gen, pendingFull, active>>, Rolling' => Rolling
      PROVE  Counted'
  <2>1. Rolling => (pending'[gen - 1] # {} => pending[gen - 1] # {})
    BY <1>0, <1>9 DEF AddTicket
  <2> QED
    BY <1>9, <2>1, CountedFrame DEF Inited
<1>10. ASSUME NEW f \in Flushers, AddFlushTicket(f) PROVE Counted'
  BY <1>9, <1>10 DEF AddFlushTicket, Rolling
<1>11. ASSUME NEW f \in Flushers, FlushDwpt(f) PROVE Counted'
  BY <1>9, <1>11 DEF FlushDwpt, Rolling
<1>12. ASSUME NEW f \in Flushers, AfterFlush(f) PROVE Counted'
  <2>1. UNCHANGED <<gen, pending, active>> /\ (UNCHANGED <<cpc, pendingFull>> \/ cpc' = "idle")
    BY <1>12 DEF AfterFlush, LeaveFullFlush
  <2>2. CASE cpc' = "idle"
    BY <2>2 DEF Counted, Rolling
  <2>3. CASE UNCHANGED <<cpc, pendingFull>>
    BY <1>9, <2>1, <2>3 DEF Rolling
  <2> QED
    BY <2>1, <2>2, <2>3
<1>13. ASSUME NEW x \in Actors, Local(x) PROVE Counted'
  BY <1>9, <1>13 DEF Local, ApplyAllDeletesLocal, AddDeletes, Rolling
<1>14. ASSUME Events PROVE Counted'
  BY <1>9, <1>14 DEF Events, BeginEvent, PopHead, PublishPopped, EndEvent, ApplyEvent, Rolling
<1>15. ASSUME WaitForFlush \/ EndForcePurge \/ ApplyAndSnapshot \/ FinishFullFlush PROVE Counted'
  BY <1>15 DEF WaitForFlush, EndForcePurge, ApplyAndSnapshot, FinishFullFlush, LeaveFullFlush, Counted, Rolling
<1>16. ASSUME ForcePurge PROVE Counted'
  BY <1>9, <1>16 DEF ForcePurge, Rolling
<1> HIDE DEF Counted
<1> QED
  BY <1>2, <1>3, <1>4, <1>5, <1>6, <1>7, <1>8, <1>10, <1>11, <1>12, <1>13, <1>14, <1>15, <1>16
     DEF Next, Operation, Work, FullFlush

-----------------------------------------------------------------------------
\* Once the stream has been applied, no packet of it strikes a segment any more.
LEMMA AppliedAll ==
  ASSUME ControlInv, TermInv, Segments(index, log, FiledGen), NEW ix2, ix2 = ApplyAllDeletes(index)
  PROVE  \A p \in Elements(ix2.stream), x \in ix2.segs : ~Applies(p, x)
<1>1. index \in Index0
  BY DEF ControlInv, ChainType
<1>2. Applied(index, ix2) /\ ix2.segs = Kept(index)
  BY <1>1, ApplyApplied, ApplyParts
<1>3. \A p \in Elements(ix2.stream) : p \in Elements(index.stream)
  BY <1>2 DEF Applied
<1>4. \A p \in Elements(index.stream) : ~p.private /\ "term" \in p.dels /\ p.gen < index.next /\ p.gen \in Nat
  BY <1>1, StreamElements DEF TermInv, Terms, Segments
<1>5. CASE Opened(index)
  <2>1. \A x \in ix2.segs : \E y \in index.segs : x = Stamp(index, y)
    BY <1>2, <1>5 DEF Kept
  <2>2. \A y \in index.segs : Stamp(index, y).gen = index.next
    BY <1>1 DEF Stamp, Index0, Segment
  <2>3. index.next \in Nat
    BY <1>1 DEF Index0
  <2> QED
    BY <1>3, <1>4, <2>1, <2>2, <2>3 DEF Applies
<1>6. CASE ~Opened(index)
  <2>1. ix2.segs = index.segs
    BY <1>2, <1>6 DEF Kept
  <2>2. ASSUME NEW p \in Elements(index.stream) PROVE StreamAny(index)
    BY <1>4, <2>2 DEF Elements, StreamAny
  <2> QED
    BY <1>3, <1>6, <2>1, <2>2 DEF Opened
<1> QED
  BY <1>5, <1>6

\* With the pipeline empty, no packet left to strike and no old delete waiting, the live documents
\* are those that the log says: nothing else is alive, because every delete has arrived, and nothing
\* is missing, because only deletes take documents away.
LEMMA LiveExact ==
  ASSUME NEW U, NEW P, NEW pd, NEW ix, NEW lg \in Seq(Entry), NEW ls, NEW sd, NEW st \in Nat, NEW n \in Nat,
         Kills(U, P, pd, ix, lg, ls, sd, st), Carries(U, P, pd, ix, lg, st), Unlost(U, P, ix, lg, ls),
         sd \in Nat, sd <= n, Len(P) = 0,
         \A p \in Elements(ix.stream), x \in ix.segs : ~Applies(p, x),
         \A g \in 1..MaxGen : g <= n => pd[g] = {},
         \A w \in U : ~(w.gen <= n),
         \A d \in Added(lg) : KilledBy(lg, d, st) /\ lg[d].gen <= n => KilledTo(lg, d, n)
  PROVE  LiveDocs(ix) = Contained(lg, ls, n)
<1>1. ASSUME NEW x \in ix.segs, NEW d \in x.live PROVE d \in Contained(lg, ls, n)
  <2>1. d \in x.docs /\ d \in Added(lg) /\ lg[d].gen <= sd
    BY <1>1 DEF Kills, Segments
  <2>2. d \notin ls
    BY <2>1 DEF Unlost
  <2>3. lg[d].gen \in Nat
    BY <2>1, LogFacts DEF Added
  <2>4. ASSUME NEW j \in 1..Len(lg), Struck(lg, d, j), lg[j].gen <= n PROVE FALSE
    <3>1. lg[j] \in Entry
      OBVIOUS
    <3>5. lg[j].gen \in 1..MaxGen
      BY <3>1 DEF Entry
    <3>2. pd[lg[j].gen] = {}
      BY <2>4, <3>5
    <3>3. ~Awaits(pd, lg, j)
      BY <3>2 DEF Awaits
    <3>4. \E p \in Elements(ix.stream) : Strikes(p, x, d, lg[j].del)
      BY <2>4, <3>3 DEF Carries, CarryS
    <3> QED
      BY <3>4 DEF Strikes
  <2>5. ~KilledTo(lg, d, n)
    BY <2>4 DEF KilledTo
  <2> QED
    BY <2>1, <2>2, <2>3, <2>5 DEF Contained
<1>2. ASSUME NEW d \in Contained(lg, ls, n) PROVE \E x \in ix.segs : d \in x.live
  <2>1. d \in Added(lg) \ ls /\ lg[d].gen <= n /\ ~KilledTo(lg, d, n)
    BY DEF Contained
  <2>2. AliveIn(U, P, ix, d)
    BY <2>1 DEF Kills, Accounted
  <2>3. \A w \in U : d \notin w.docs
    BY <2>1 DEF Kills, Fresh, DwptOK
  <2> QED
    BY <2>2, <2>3 DEF AliveIn
<1> QED
  BY <1>1, <1>2 DEF LiveDocs

\* The commit that a full flush takes has the effects of exactly the operations before its start.
LEMMA SnapshotExact ==
  ASSUME ~DeleteTrigger, Main \notin MayFail, Kinds \subseteq {"term"}, ControlInv, DrainInv, KillInv, CarryInv,
         TermInv, CommitInv, ApplyAndSnapshot, mode = "commit"
  PROVE  CommitReflects'
<1>1. /\ cpc = "events" /\ index' = ApplyAllDeletes(index) /\ commit' = [gen |-> gen - 1, live |-> LiveDocs(index')]
      /\ UNCHANGED <<gen, fullFlush, pending, log, lost, active, tickets, popped, flushQueue, hand, pc>>
  BY DEF ApplyAndSnapshot, queueVars, dwptVars, ticketVars
<1>2. Next
  BY DEF Next, FullFlush
<1>3. KillInv' /\ CarryInv' /\ ControlInv'
  BY <1>2, KillStep, CarryStep, ControlStep DEF DrainInv
<1>4. Unlost(Unticketed', Pipeline', index', log', lost')
  BY <1>2, UnlostStep DEF CommitInv, DrainInv
<1>5. fullFlush /\ ~Rolling
  BY <1>1 DEF ControlInv, Phase, Rolling
<1>6. gen \in Nat /\ gen - 1 \in Nat /\ gen \in 1..MaxGen
  BY IndexingChainAssumption DEF ControlInv, ChainType
<1>7. FiledGen' = gen - 1 /\ Settled' = gen - 1
  BY <1>1, <1>5 DEF FiledGen, Settled
<1>8. tickets = <<>> /\ popped = None
  BY <1>1, <1>5 DEF DrainInv, Drained
<1>9. Pipeline = <<>>
  BY <1>8 DEF Pipeline
<1>10. Pipeline' = <<>>
  BY <1>1, <1>9, PipelineSame
<1>11. Len(Pipeline') = 0
  BY <1>10
<1>12. \A w \in Unticketed : w.gen = gen
  <2>1. \A s \in Inited : active[s].gen = gen
    BY <1>1 DEF ControlInv, Generations
  <2>2. Len(flushQueue) = 0 /\ \A f \in Taken : hand[f].gen = gen
    BY <1>5 DEF ControlInv, Generations
  <2> QED
    BY <2>1, <2>2, UnticketedParts
<1>13. \A w \in Unticketed' : ~(w.gen <= gen - 1)
  BY <1>1, <1>6, <1>12, UnticketedSame
<1>14. \A g \in 1..MaxGen : g <= gen - 1 => pending'[g] = {}
  BY <1>1, <1>5, <1>6 DEF ControlInv, OldQueues
<1>15. \A p \in Elements(index'.stream), x \in index'.segs : ~Applies(p, x)
  BY <1>1, AppliedAll DEF KillInv, Kills
<1>16. log' \in Seq(Entry)
  BY <1>1 DEF ControlInv, ChainType
<1>17. \A d \in Added(log') : KilledBy(log', d, Settled') /\ log'[d].gen <= gen - 1 => KilledTo(log', d, gen - 1)
  <2> SUFFICES ASSUME NEW d \in Added(log'), KilledBy(log', d, Settled'), log'[d].gen <= gen - 1
               PROVE  KilledTo(log', d, gen - 1)
    OBVIOUS
  <2>1. log'[d].gen \in Nat
    BY <1>16, LogFacts DEF Added
  <2> QED
    BY <1>6, <1>7, <1>16, <2>1, LogFacts DEF KilledBy
<1>18. LiveDocs(index') = Contained(log', lost', gen - 1)
  <2>1. Kills(Unticketed', Pipeline', pending', index', log', lost', FiledGen', Settled')
    BY <1>3 DEF KillInv
  <2>2. Carries(Unticketed', Pipeline', pending', index', log', Settled')
    BY <1>3 DEF CarryInv
  <2>3. FiledGen' \in Nat /\ Settled' \in Nat /\ FiledGen' <= gen - 1
    BY <1>6, <1>7
  <2> QED
    BY <1>4, <1>6, <1>11, <1>13, <1>14, <1>15, <1>16, <1>17, <2>1, <2>2, <2>3, LiveExact
<1>19. commit'.live = LiveDocs(index') /\ commit'.gen = gen - 1
  BY <1>1
<1> QED
  BY <1>18, <1>19, ExpectedIs

\* A commit stays what it is: later operations and errors are of later generations.
LEMMA ReflectsStep ==
  ASSUME ~DeleteTrigger, Main \notin MayFail, Kinds \subseteq {"term"}, ControlInv, DrainInv, KillInv, CarryInv,
         TermInv, CommitInv, Next
  PROVE  CommitReflects'
<1>1. commit.live = Contained(log, lost, commit.gen)
  BY ExpectedIs DEF CommitInv
<1>2. log \in Seq(Entry) /\ commit.gen \in Nat /\ gen \in 1..MaxGen
  BY DEF ControlInv, ChainType
<1>3. ASSUME NEW g \in 1..MaxGen, NEW add \in BOOLEAN, NEW kind \in {"none", "term", "query"}, commit.gen < g,
             log' = Append(log, OpEntry(g, add, kind)), UNCHANGED <<lost, commit>>
      PROVE  CommitReflects'
  <2>1. Contained(log', lost, commit.gen) = Contained(log, lost, commit.gen)
    <3>1. LaterOperation(log, log', commit.gen)
      BY <1>3 DEF LaterOperation
    <3> QED
      BY <1>2, <3>1, ContainedGrows
  <2> QED
    BY <1>1, <1>3, <2>1, ExpectedIs
<1>4. ASSUME NEW s \in States, NEW kind \in {"none"} \cup (Kinds \cap {"term"}), Index(s, kind) PROVE CommitReflects'
  <2>1. Target(s).gen \in 1..MaxGen /\ (s \in Inited => Target(s) = active[s]) /\ (s \notin Inited => Target(s).gen = gen)
    BY <1>2, TargetFacts, NewDwptFacts DEF Target
  <2>2. commit.gen < Target(s).gen
    BY <2>1, UnticketedPast DEF CommitInv
  <2>3. log' = Append(log, OpEntry(Target(s).gen, TRUE, kind)) /\ UNCHANGED <<lost, commit>>
    BY <1>4 DEF Index, Log, Target, OpEntry
  <2>4. kind \in {"none", "term", "query"} /\ TRUE \in BOOLEAN
    OBVIOUS
  <2> QED
    BY <1>3, <2>1, <2>2, <2>3, <2>4
<1>5. ASSUME NEW kind \in Kinds, Delete(kind) PROVE CommitReflects'
  <2> DEFINE add == FALSE
  <2>1. commit.gen < gen /\ add \in BOOLEAN /\ kind \in {"none", "term", "query"}
    BY DEF CommitInv, Past
  <2>2. log' = Append(log, OpEntry(gen, add, kind)) /\ UNCHANGED <<lost, commit>>
    BY <1>5 DEF Delete, Log, OpEntry
  <2> HIDE DEF add
  <2> QED
    BY <1>2, <1>3, <2>1, <2>2
<1>6. ASSUME UNCHANGED <<log, lost, commit>> PROVE CommitReflects'
  BY <1>1, <1>6, ExpectedIs
<1>7. ASSUME NEW w, Drop(w), UNCHANGED <<log, commit>> PROVE CommitReflects'
  <2>1. lost' = lost \cup w.docs /\ \A d \in w.docs : log[d].gen = w.gen
    BY <1>7 DEF Drop, DwptOK
  <2>2. w.gen \in Nat /\ commit.gen < w.gen
    <3>1. CASE \E s \in Inited : w = active[s]
      BY <3>1, UnticketedPast DEF CommitInv
    <3>2. CASE \E f \in Flushers : hand[f] # None /\ w = hand[f]
      <4>1. PICK f \in Flushers : hand[f] # None /\ w = hand[f]
        BY <3>2
      <4>2. hand[f] \in Dwpt /\ hand[f].gen > commit.gen
        BY <4>1 DEF ControlInv, ChainType, CommitInv, Past
      <4> QED
        BY <1>2, <4>1, <4>2 DEF Dwpt
    <3> QED
      BY <1>7, <3>1, <3>2 DEF Drop
  <2>3. \A d \in w.docs : ~(log[d].gen <= commit.gen)
    BY <1>2, <2>1, <2>2
  <2>4. Contained(log, lost \cup w.docs, commit.gen) = Contained(log, lost, commit.gen)
    BY <2>3, ContainedDrops
  <2> QED
    BY <1>1, <1>7, <2>1, <2>4, ExpectedIs
<1>8. ASSUME ApplyAndSnapshot PROVE CommitReflects'
  <2>1. UNCHANGED <<log, lost>>
    BY <1>8 DEF ApplyAndSnapshot
  <2>2. CASE mode # "commit"
    BY <1>6, <1>8, <2>1, <2>2 DEF ApplyAndSnapshot
  <2>3. CASE mode = "commit"
    BY <1>8, <2>3, SnapshotExact
  <2> QED
    BY <2>2, <2>3
<1>9. ASSUME NEW s \in States, IndexFails(s) PROVE CommitReflects'
  <2>1. UNCHANGED <<log, commit>>
    BY <1>9 DEF IndexFails
  <2> QED
    BY <1>6, <1>7, <1>9, <2>1, IndexFailsDrops
<1>10. ASSUME NEW f \in Flushers, FlushDwpt(f) PROVE CommitReflects'
  <2>1. UNCHANGED <<log, commit>>
    BY <1>10 DEF FlushDwpt
  <2> QED
    BY <1>6, <1>7, <1>10, <2>1, FlushDrops
<1> QED
  BY <1>4, <1>5, <1>6, <1>8, <1>9, <1>10, HistoryWrites DEF HistoryFrame, LogWrites, LostWrites

\* With nothing buffered, nothing in a ticket and no packet with a term, the live documents of the
\* index are what the log says.
LEMMA QuietExact ==
  ASSUME ~DeleteTrigger, ControlInv, KillInv, CarryInv, TermInv, CommitInv,
         popped = None, ~AnyChanges, ~StreamAny(index)
  PROVE  LiveDocs(index) = Expected(gen)
<1>1. Inited = {} /\ FlushingWriters = {} /\ pending[gen] = {} /\ tickets = <<>> /\ ~pendingFull
  BY DEF AnyChanges
<1>2. gen \in Nat /\ gen \in 1..MaxGen /\ log \in Seq(Entry)
  BY DEF ControlInv, ChainType
<1>3. Pipeline = <<>>
  BY <1>1 DEF Pipeline
<1>4. Len(Pipeline) = 0
  BY <1>3
<1>5. Unticketed = {}
  <2>1. \A i \in 1..Len(flushQueue) : flushQueue[i] \in FlushingWriters
    BY DEF FlushingWriters, Elements
  <2>2. \A f \in Flushers : hand[f] # None => hand[f] \in FlushingWriters
    BY DEF FlushingWriters
  <2>3. \A f \in Taken : f \in Flushers /\ hand[f] # None
    BY DEF ControlInv, ChainType, Taken, Busy
  <2> QED
    BY <1>1, <2>1, <2>2, <2>3, UnticketedParts
<1>6. Elements(index.stream) = {}
  <2>1. \A p \in Elements(index.stream) : "term" \in p.dels
    BY DEF TermInv, Terms
  <2> QED
    BY <2>1 DEF Elements, StreamAny
<1>7. \A g \in 1..MaxGen : pending[g] = {}
  <2> SUFFICES ASSUME NEW g \in 1..MaxGen, pending[g] # {} PROVE FALSE
    OBVIOUS
  <2>1. g = gen - 1 /\ Rolling
    BY <1>1 DEF ControlInv, OldQueues
  <2> QED
    BY <1>1, <2>1 DEF CommitInv, Counted
<1>8. FiledGen \in Nat /\ Settled \in Nat /\ FiledGen <= gen /\ Settled <= gen
  BY LevelTypes
<1>9. \A d \in Added(log) : KilledBy(log, d, Settled) /\ log[d].gen <= gen => KilledTo(log, d, gen)
  <2> SUFFICES ASSUME NEW d \in Added(log), KilledBy(log, d, Settled), log[d].gen <= gen PROVE KilledTo(log, d, gen)
    OBVIOUS
  <2>1. log[d].gen \in Nat
    BY <1>2, LogFacts DEF Added
  <2> QED
    BY <1>2, <1>8, <2>1, LogFacts DEF KilledBy
<1>10. LiveDocs(index) = Contained(log, lost, gen)
  <2>1. /\ Kills(Unticketed, Pipeline, pending, index, log, lost, FiledGen, Settled)
        /\ Carries(Unticketed, Pipeline, pending, index, log, Settled)
        /\ Unlost(Unticketed, Pipeline, index, log, lost)
    BY DEF KillInv, CarryInv, CommitInv
  <2> QED
    BY <1>2, <1>4, <1>5, <1>6, <1>7, <1>8, <1>9, <2>1, LiveExact
<1> QED
  BY <1>10, ExpectedIs

\* The whole invariant.
CommitStateInv == ControlInv /\ DrainInv /\ KillInv /\ CarryInv /\ TermInv /\ CommitInv

\* It holds at the start ...
LEMMA CommitStateInit == Init => CommitStateInv
<1> SUFFICES ASSUME Init PROVE CommitStateInv
  OBVIOUS
<1>1. ControlInv /\ KillInv /\ CarryInv
  BY ControlInit, KillInit, CarryInit
<1>2. DrainInv
  BY ActorFacts DEF Init, DrainInv, NoTrigger, Drained
<1>3. Inited = {} /\ Taken = {} /\ Len(flushQueue) = 0
  BY ActorFacts DEF Init, Inited, Taken
<1>4. Unticketed = {}
  BY <1>3, UnticketedParts
<1>5. Pipeline = <<>>
  BY DEF Init, Pipeline
<1>6. /\ Len(Pipeline) = 0 /\ log = <<>> /\ Len(log) = 0 /\ lost = {} /\ index.segs = {} /\ Elements(index.stream) = {}
      /\ \A g \in 1..MaxGen : pending[g] = {}
  BY <1>5 DEF Init, Elements
<1>7. TermInv
  BY <1>4, <1>6 DEF TermInv, TermLog, Terms
<1>8. Unlost(Unticketed, Pipeline, index, log, lost)
  BY <1>4, <1>6 DEF Unlost
<1>9. Past
  BY DEF Init, Past
<1>10. Same
  BY <1>6 DEF Init, Same, LiveDocs
<1>11. Counted
  BY DEF Init, Counted, Rolling
<1>12. CommitReflects
  <2>1. Contained(log, lost, 0) = {}
    BY <1>6 DEF Contained, Added
  <2>2. commit.live = {} /\ commit.gen = 0
    BY DEF Init
  <2> QED
    BY <2>1, <2>2, ExpectedIs
<1> QED
  BY <1>1, <1>2, <1>7, <1>8, <1>9, <1>10, <1>11, <1>12 DEF CommitStateInv, CommitInv

\* ... and every step keeps it.
LEMMA CommitStateStep ==
  ASSUME ~DeleteTrigger, Main \notin MayFail, Kinds \subseteq {"term"}, CommitStateInv, [Next]_vars
  PROVE  CommitStateInv'
<1>1. ControlInv /\ DrainInv /\ NoTrigger /\ KillInv /\ CarryInv /\ TermInv /\ CommitInv
  BY DEF CommitStateInv, DrainInv
<1>2. ControlInv' /\ DrainInv'
  BY <1>1, ControlStep, DrainStep
<1>3. CASE Next
  <2>1. KillInv' /\ CarryInv' /\ TermInv'
    BY <1>1, <1>3, KillStep, CarryStep, TermStep
  <2>2. (Unlost(Unticketed, Pipeline, index, log, lost))'
    BY <1>1, <1>3, UnlostStep DEF CommitInv
  <2>3. Past' /\ Same' /\ Counted' /\ CommitReflects'
    BY <1>1, <1>3, PastStep, SameStep, CountedStep, ReflectsStep DEF CommitInv
  <2> QED
    BY <1>2, <2>1, <2>2, <2>3 DEF CommitStateInv, CommitInv
<1>4. CASE UNCHANGED vars
  <2>1. /\ Unticketed' = Unticketed /\ Pipeline' = Pipeline /\ FiledGen' = FiledGen /\ Settled' = Settled
        /\ Inited' = Inited /\ Taken' = Taken
    BY <1>4 DEF vars, queueVars, dwptVars, ticketVars, fullVars, Unticketed, Inited, Elements,
       Pipeline, FiledGen, Settled, Taken
  <2>2. UNCHANGED <<gen, pending, active, flushQueue, hand, index, changed, pendingFull, cpc, log, lost, commit>>
    BY <1>4 DEF vars, queueVars, dwptVars, indexVars, fullVars, history
  <2>3. KillInv'
    BY <1>1, <2>1, <2>2 DEF KillInv, LogGens
  <2>4. CarryInv'
    <3>1. Slots'
      BY <1>1, <2>1, <2>2, SlotsFrame DEF CarryInv
    <3> QED
      BY <1>1, <2>1, <2>2, <3>1 DEF CarryInv
  <2>5. TermInv'
    BY <1>1, <2>1, <2>2 DEF TermInv, TermLog
  <2>6. Past' /\ Counted' /\ Same'
    BY <1>1, <2>1, <2>2 DEF CommitInv, Past, Counted, Rolling, Same, LiveDocs
  <2>7. CommitReflects'
    <3>1. commit.live = Contained(log, lost, commit.gen)
      BY <1>1, ExpectedIs DEF CommitInv
    <3> QED
      BY <2>2, <3>1, ExpectedIs
  <2>8. (Unlost(Unticketed, Pipeline, index, log, lost))'
    BY <1>1, <2>1, <2>2 DEF CommitInv
  <2> QED
    BY <1>2, <2>3, <2>4, <2>5, <2>6, <2>7, <2>8 DEF CommitStateInv, CommitInv
<1> QED
  BY <1>3, <1>4

\* A commit has the effects of exactly the operations up to the start of its full flush
\* (prepare_commit_internal), for any numbers of threads, daemons, operations and generations, with
\* documents and daemons that may fail.  The flushes of Main do not fail and
\* max_buffered_delete_terms is not set, as for NoLostDelete; and deletes are by term, because
\* BufferedUpdatesStream::any does not count queries and a packet of queries alone is not applied
\* (README, section 6).
THEOREM CommitReflectsCorrect ==
  ASSUME Main \notin MayFail, ~DeleteTrigger, Kinds \subseteq {"term"}
  PROVE  Spec => []CommitReflects
<1>1. CommitStateInv /\ [Next]_vars => CommitStateInv'
  BY CommitStateStep
<1>2. CommitStateInv => CommitReflects
  BY DEF CommitStateInv, CommitInv
<1> QED
  BY <1>1, <1>2, CommitStateInit, PTL DEF Spec

\* has_uncommitted_changes misses nothing that the commit does not have, under the same hypotheses:
\* while no ticket is being published, a difference between the commit and all the operations so far
\* shows in a DWPT, in a queue, in a ticket, in the stream, or in the change count.
THEOREM UncommittedSeenCorrect ==
  ASSUME Main \notin MayFail, ~DeleteTrigger, Kinds \subseteq {"term"}
  PROVE  Spec => []UncommittedSeen
<1>1. CommitStateInv /\ [Next]_vars => CommitStateInv'
  BY CommitStateStep
<1>2. CommitStateInv => UncommittedSeen
  <2> SUFFICES ASSUME CommitStateInv, popped = None, ~HasUncommittedChanges PROVE commit.live = Expected(gen)
    BY DEF UncommittedSeen
  <2>1. ~changed /\ ~AnyChanges /\ ~StreamAny(index)
    BY DEF HasUncommittedChanges
  <2>2. commit.live = LiveDocs(index)
    BY <2>1 DEF CommitStateInv, CommitInv, Same
  <2>3. LiveDocs(index) = Expected(gen)
    BY <2>1, QuietExact DEF CommitStateInv
  <2> QED
    BY <2>2, <2>3
<1> QED
  BY <1>1, <1>2, CommitStateInit, PTL DEF Spec
=============================================================================
