------------------------ MODULE IndexingChainProofs ------------------------
(*****************************************************************************)
(* The control of the indexing chain, proved for any numbers of threads,     *)
(* flush daemons, operations and generations: the types, and ControlInv, an  *)
(* inductive invariant of five parts.                                        *)
(*                                                                           *)
(*   ChainType   the types of the variables;                                 *)
(*   Owned       an open ticket has one owner, which is in                   *)
(*               flush_dwpt and holds the DWPT of the                        *)
(*               ticket;                                                     *)
(*   Phase       where Main is in a full flush, and the                      *)
(*               flags that show it;                                         *)
(*   Generations which DWPTs may belong to the old queue,                    *)
(*               and when;                                                   *)
(*   OldQueues   which queues may hold deletes that are not                  *)
(*               frozen.                                                     *)
(*                                                                           *)
(* FullFlushDrained, the debug_assert! of flush_all_threads, follows from    *)
(* ControlInv and DrainInv: the ticket queue is drained by force_purge and   *)
(* nobody adds a ticket until the full flush is over.                        *)
(*****************************************************************************)
EXTENDS IndexingChain, SequenceTheorems, WellOrder

\* The types of what the chain hands on: entries of the log, segments, packets of frozen deletes, and
\* the index of the module IndexingChain.
Entry == [gen : 1..MaxGen, add : BOOLEAN, del : {"none", "term", "query"}]
Segment == [docs : SUBSET Nat, live : SUBSET Nat, gen : Nat]
Packet == [gen : Nat, dels : SUBSET {"term", "query"}, private : BOOLEAN, docs : SUBSET Nat]
Index0 == [segs : SUBSET Segment, stream : Seq(Packet), next : Nat]
\* Where an actor and where Main can be.
PCs == {"idle", "held", "check", "freeze", "taken", "ticketed", "flushed", "failed"}
CPCs == {"idle", "mark", "flush", "purge", "events", "finish"}
\* The flushers that hold a DWPT and have no ticket for it yet, and those that hold one at all.
Taken == {f \in Flushers : pc[f] = "taken"}
Busy == {"taken", "ticketed", "flushed", "failed"}

\* The types of the variables; a flusher holds a DWPT just while it is in do_flush.
ChainType ==
  /\ gen \in 1..MaxGen /\ pending \in [1..MaxGen -> SUBSET {"term", "query"}]
  /\ active \in [States -> Dwpt \cup {None}] /\ flushPending \subseteq Inited
  /\ flushQueue \in Seq(Dwpt)
  /\ hand \in [Flushers -> Dwpt \cup {None}]
  /\ pc \in [Actors -> PCs]
  /\ \A f \in Flushers : hand[f] # None <=> pc[f] \in Busy
  /\ tickets \in Seq(Ticket) /\ popped \in Ticket \cup {None}
  /\ index \in Index0 /\ log \in Seq(Entry)
  /\ lost \subseteq Nat /\ commit \in [gen : Nat, live : SUBSET Nat]
  /\ fullFlush \in BOOLEAN /\ pendingFull \in BOOLEAN /\ helped \in BOOLEAN
  /\ changed \in BOOLEAN /\ applyFlag \in BOOLEAN /\ cpc \in CPCs

\* The tickets: an open one is completed by the flusher that put it there, and by nobody else.
Attached(t) ==
  /\ t.status \in {"open", "ready"} => t.dwpt # None
  /\ t.status = "global" => t.dwpt = None
IsOpen(i) == tickets[i].status = "open"
Owned ==
  /\ \A i \in 1..Len(tickets) : Attached(tickets[i])
  /\ popped # None => Attached(popped) /\ popped.status # "open"
  /\ \A i \in 1..Len(tickets) : IsOpen(i) =>
       /\ tickets[i].owner \in Flushers /\ pc[tickets[i].owner] = "ticketed"
       /\ tickets[i].dwpt = hand[tickets[i].owner]
  /\ \A i, j \in 1..Len(tickets) :
       IsOpen(i) /\ IsOpen(j) /\ tickets[i].owner = tickets[j].owner => i = j
  /\ \A f \in Flushers : pc[f] = "ticketed" =>
       \E i \in 1..Len(tickets) : IsOpen(i) /\ tickets[i].owner = f

\* Where Main is in a full flush.
Phase ==
  /\ cpc \in {"mark", "flush", "purge"} => fullFlush
  /\ cpc = "idle" => ~fullFlush
  /\ cpc \in {"events", "finish"} => (fullFlush <=> mode # "flush")
  /\ cpc # "idle" => gen > 1
  /\ cpc # "flush" => pc[Main] = "idle" /\ ~helped
  /\ pc[Main] # "failed"
  /\ purging = Main => cpc = "purge"

\* Which queue the DWPTs follow.  While Main enrols and flushes those of the old queue the flush
\* queue holds nothing else; at any other time nothing of an older queue is left.
Rolling == cpc \in {"mark", "flush"}
Generations ==
  /\ \A s \in Inited : active[s].gen = gen
        \/ (active[s].gen = gen - 1 /\ cpc = "mark" /\ s \in todo)
  /\ Rolling => /\ \A i \in 1..Len(flushQueue) : flushQueue[i].gen = gen - 1
                /\ \A f \in Taken : hand[f].gen = gen - 1
  /\ ~Rolling => /\ flushQueue = <<>>
                 /\ \A f \in Taken : hand[f].gen = gen
  /\ fullFlush /\ ~Rolling => \A f \in Flushers : hand[f] = None

\* Deletes are left in the current queue, and in the one before it until Main has flushed a DWPT
\* of it or frozen what is left of it.
OldQueues ==
  \A g \in 1..MaxGen : pending[g] # {} =>
    \/ g = gen
    \/ /\ g = gen - 1 /\ Rolling /\ ~helped /\ pc[Main] \notin {"ticketed", "flushed"}

\* The inductive invariant of the control state.
ControlInv == ChainType /\ Owned /\ Phase /\ Generations /\ OldQueues

\* A delete keeps a DWPT a DWPT, with its generation and its documents (Kill: the slice of a DWPT
\* follows one queue).
LEMMA KillType ==
  ASSUME NEW w \in Dwpt, NEW g, NEW kind
  PROVE  /\ Kill(w, g, kind) \in Dwpt /\ Kill(w, g, kind) # None
         /\ Kill(w, g, kind).gen = w.gen /\ Kill(w, g, kind).docs = w.docs
         /\ Kill(w, g, kind).dead = IF w.gen = g /\ kind = "term" THEN w.docs ELSE w.dead
         /\ Kill(w, g, kind).doomed = IF w.gen = g /\ kind = "query" THEN w.docs ELSE w.doomed
<1>1. w # None
  BY NoneAssumption
<1>2. Kill(w, g, kind) \in Dwpt
  BY <1>1 DEF Kill, Dwpt
<1> QED
  BY <1>1, <1>2, NoneAssumption DEF Kill, Dwpt

\* A thread state without a DWPT receives nothing.
LEMMA KillNone == \A g, kind : Kill(None, g, kind) = None
BY DEF Kill

\* BufferedUpdatesStream::push keeps the index well-typed: one packet more, with the generation
\* handed out.
LEMMA PushType ==
  ASSUME NEW ix \in Index0, NEW dels \in SUBSET {"term", "query"}, NEW private \in BOOLEAN, NEW docs \in SUBSET Nat
  PROVE  /\ Push(ix, dels, private, docs) \in Index0
         /\ Push(ix, dels, private, docs).segs = ix.segs
         /\ Push(ix, dels, private, docs).next = ix.next + 1
         /\ Push(ix, dels, private, docs).stream
              = Append(ix.stream, [gen |-> ix.next, dels |-> dels, private |-> private, docs |-> docs])
<1> DEFINE p == [gen |-> ix.next, dels |-> dels, private |-> private, docs |-> docs]
<1>1. p \in Packet /\ ix.stream \in Seq(Packet) /\ ix.next + 1 \in Nat /\ ix.segs \in SUBSET Segment
  BY DEF Packet, Index0
<1> HIDE DEF p
<1>2. Append(ix.stream, p) \in Seq(Packet)
  BY <1>1
<1>3. Push(ix, dels, private, docs) = [ix EXCEPT !.stream = Append(ix.stream, p), !.next = ix.next + 1]
  BY DEF Push, p
<1> QED
  BY <1>1, <1>2, <1>3 DEF Index0, p

\* publish_flushed_segment and publish_frozen_updates keep the index well-typed.
LEMMA PublishType ==
  ASSUME NEW ix \in Index0, NEW t \in Ticket, t.status = "ready" => t.dwpt # None
  PROVE  Publish(ix, t) \in Index0
<1>1. PushGlobal(ix, t.dels) \in Index0
  BY PushType DEF PushGlobal, Ticket
<1>2. CASE t.status # "ready"
  BY <1>1, <1>2 DEF Publish
<1>3. CASE t.status = "ready"
  <2> DEFINE glob == PushGlobal(ix, t.dels)
             seg == [docs |-> t.dwpt.docs, live |-> t.dwpt.docs \ t.dwpt.dead, gen |-> glob.next]
             priv == IF t.dwpt.doomed = {} THEN [glob EXCEPT !.next = @ + 1]
                     ELSE Push(glob, {"query"}, TRUE, t.dwpt.doomed)
  <2>1. t.dwpt \in Dwpt
    BY <1>3 DEF Ticket
  <2>2. glob \in Index0
    BY <1>1
  <2>3. seg \in Segment
    BY <2>1, <2>2 DEF Segment, Dwpt, Index0
  <2>4. priv \in Index0
    <3>1. Push(glob, {"query"}, TRUE, t.dwpt.doomed) \in Index0
      BY <2>1, <2>2, PushType DEF Dwpt
    <3>2. [glob EXCEPT !.next = @ + 1] \in Index0
      BY <2>2, SMTT(30) DEF Index0
    <3> QED
      BY <3>1, <3>2
  <2>5. Publish(ix, t) = [priv EXCEPT !.segs = @ \cup {seg}]
    BY <1>3 DEF Publish
  <2> HIDE DEF priv, seg
  <2> QED
    BY <2>3, <2>4, <2>5 DEF Index0
<1> QED
  BY <1>2, <1>3

\* prune finds its limit.
LEMMA LimitFound ==
  ASSUME NEW ix \in Index0
  PROVE  /\ Limit(ix) \in 0..Len(ix.stream)
         /\ \A i \in 1..Limit(ix) : Older(ix.stream[i], ix)
<1> DEFINE n == Len(ix.stream)
           young == {k \in 0..n : k < n => ~Older(ix.stream[k + 1], ix)}
<1>1. n \in Nat
  BY DEF Index0
<1>2. PICK m \in young : \A k \in young : m <= k
  <2>1. young \in SUBSET Nat /\ young # {}
    BY <1>1
  <2> HIDE DEF young
  <2> QED
    BY <2>1, LeastNat
<1>3. \A i \in 1..m : Older(ix.stream[i], ix)
  <2> SUFFICES ASSUME NEW i \in 1..m PROVE Older(ix.stream[i], ix)
    OBVIOUS
  <2>1. i - 1 \in 0..n /\ i - 1 < n /\ i - 1 < m /\ (i - 1) + 1 = i
    BY <1>1
  <2>2. i - 1 \notin young
    BY <1>1, <1>2, <2>1
  <2> QED
    BY <2>1, <2>2
<1>4. \E k \in 0..n : /\ \A i \in 1..k : Older(ix.stream[i], ix)
                      /\ k < n => ~Older(ix.stream[k + 1], ix)
  BY <1>2, <1>3
<1> QED
  BY <1>4 DEF Limit

\* The parts of apply_deletes_and_updates: a segment up to date with the stream, whether the
\* segments are opened at all, and the segments afterwards.
Stamp(ix, seg) == [seg EXCEPT !.live = @ \ Deleted(ix, seg), !.gen = ix.next]
Opened(ix) == StreamAny(ix) /\ \E seg \in ix.segs, p \in Elements(ix.stream) : Applies(p, seg)
Kept(ix) ==
  IF Opened(ix) THEN {seg \in {Stamp(ix, x) : x \in ix.segs} : seg.live # {}} ELSE ix.segs

\* What ApplyAllDeletes leaves: the segments of Kept, and of the stream a suffix that drops only
\* packets older than every one of these segments.
LEMMA ApplyParts ==
  ASSUME NEW ix \in Index0
  PROVE  /\ ApplyAllDeletes(ix) \in Index0
         /\ ApplyAllDeletes(ix).segs = Kept(ix)
         /\ ApplyAllDeletes(ix).next = ix.next + 1
         /\ \E n \in 0..Len(ix.stream) :
              /\ ApplyAllDeletes(ix).stream = SubSeq(ix.stream, n + 1, Len(ix.stream))
              /\ \A i \in 1..n : \A seg \in Kept(ix) : ix.stream[i].gen < seg.gen
<1> DEFINE ap == ApplyStream(ix)
<1>1. Kept(ix) \in SUBSET Segment
  <2>1. \A seg \in ix.segs : Stamp(ix, seg) \in Segment
    BY DEF Index0, Segment, Stamp
  <2> QED
    BY <2>1 DEF Kept, Index0
<1>2. ap = [ix EXCEPT !.next = @ + 1, !.segs = Kept(ix)]
  BY DEF ApplyStream, Kept, Opened, Stamp
<1> HIDE DEF ap
<1>3. ap \in Index0 /\ ap.segs = Kept(ix) /\ ap.next = ix.next + 1 /\ ap.stream = ix.stream
  <2>1. ix.next \in Nat /\ ix.stream \in Seq(Packet) /\ ix.next + 1 \in Nat
    BY DEF Index0
  <2>2. ap.segs = Kept(ix) /\ ap.next = ix.next + 1 /\ ap.stream = ix.stream
    BY <1>2 DEF Index0
  <2>3. ap = [segs |-> Kept(ix), stream |-> ix.stream, next |-> ix.next + 1]
    BY <1>2 DEF Index0
  <2> QED
    BY <1>1, <2>1, <2>2, <2>3 DEF Index0
<1>4. /\ Limit(ap) \in 0..Len(ix.stream) /\ ix.stream \in Seq(Packet)
      /\ \A i \in 1..Limit(ap) : Older(ix.stream[i], ap)
  BY <1>3, LimitFound DEF Index0
<1>5. SubSeq(ix.stream, Limit(ap) + 1, Len(ix.stream)) \in Seq(Packet)
  BY <1>4
<1>6. ApplyAllDeletes(ix) = [ap EXCEPT !.stream = SubSeq(ix.stream, Limit(ap) + 1, Len(ix.stream))]
  BY <1>3 DEF ApplyAllDeletes, Prune, ap
<1>7. /\ ApplyAllDeletes(ix) \in Index0
      /\ ApplyAllDeletes(ix).segs = Kept(ix)
      /\ ApplyAllDeletes(ix).next = ix.next + 1
      /\ ApplyAllDeletes(ix).stream = SubSeq(ix.stream, Limit(ap) + 1, Len(ix.stream))
  BY <1>3, <1>5, <1>6 DEF Index0
<1> QED
  BY <1>3, <1>4, <1>7 DEF Older

-----------------------------------------------------------------------------
\* Who is a thread: the thread states and the flushers are different actors.
LEMMA ActorFacts ==
  /\ States \subseteq Actors /\ Flushers \subseteq Actors /\ Main \in Flushers
  /\ \A s \in States : s \notin Flushers
BY IndexingChainAssumption DEF Actors, Flushers

\* The writer starts well-typed.
LEMMA TypeInit == Init => ChainType
<1> SUFFICES ASSUME Init PROVE ChainType
  OBVIOUS
<1> USE IndexingChainAssumption
<1>1. /\ flushQueue \in Seq(Dwpt) /\ tickets \in Seq(Ticket) /\ log \in Seq(Entry)
      /\ <<>> \in Seq(Packet)
  BY EmptySeq DEF Init
<1>2. index \in Index0
  BY <1>1 DEF Init, Index0
<1>3. gen \in 1..MaxGen /\ pending \in [1..MaxGen -> SUBSET {"term", "query"}]
  BY DEF Init
<1>4. active \in [States -> Dwpt \cup {None}] /\ hand \in [Flushers -> Dwpt \cup {None}]
  BY DEF Init
<1>5. pc \in [Actors -> PCs] /\ \A f \in Flushers : hand[f] # None <=> pc[f] \in Busy
  BY ActorFacts DEF Init, PCs, Busy
<1> QED
  BY <1>1, <1>2, <1>3, <1>4, <1>5 DEF Init, ChainType, CPCs

\* Indexing a document keeps the types.
LEMMA IndexTyped ==
  ASSUME ChainType, NEW s \in States, NEW kind \in {"none", "term"}, Index(s, kind)
  PROVE  ChainType'
<1> USE IndexingChainAssumption, NoneAssumption, ActorFacts
<1> DEFINE w == IF s \in Inited THEN active[s] ELSE NewDwpt(gen)
           d == Len(log) + 1
<1>1. w \in Dwpt
  BY DEF ChainType, Inited, NewDwpt, Dwpt
<1>2. d \in Nat /\ log \in Seq(Entry) /\ w.gen \in 1..MaxGen
  BY <1>1 DEF ChainType, Dwpt
<1>3. AddDoc(Kill(w, w.gen, kind), d) \in Dwpt
  BY <1>1, <1>2, KillType, SMTT(30) DEF AddDoc, Dwpt
<1>4. \A u \in States : Kill(active[u], w.gen, kind) \in Dwpt \cup {None}
                        /\ (active[u] # None => Kill(active[u], w.gen, kind) # None)
  BY KillType, KillNone DEF ChainType
<1>5. active' \in [States -> Dwpt \cup {None}] /\ \A u \in States : u \in Inited \/ u = s => active'[u] # None
  BY <1>3, <1>4 DEF Index, Inited
<1>6. flushPending' \subseteq Inited'
  BY <1>5 DEF Index, Inited, ChainType
<1>7. flushQueue' \in Seq(Dwpt)
  <2>1. \A i \in 1..Len(flushQueue) : Kill(flushQueue[i], w.gen, kind) \in Dwpt
    BY KillType DEF ChainType
  <2>2. Len(flushQueue) \in Nat
    BY DEF ChainType
  <2>3. [i \in 1..Len(flushQueue) |-> Kill(flushQueue[i], w.gen, kind)] \in Seq(Dwpt)
    BY <2>1, <2>2
  <2> QED
    BY <2>3 DEF Index, Buffer
<1>8. hand' \in [Flushers -> Dwpt \cup {None}] /\ \A f \in Flushers : hand'[f] # None <=> hand[f] # None
  <2>1. \A f \in Flushers : Kill(hand[f], w.gen, kind) \in Dwpt \cup {None}
                            /\ (Kill(hand[f], w.gen, kind) # None <=> hand[f] # None)
    BY KillType, KillNone DEF ChainType
  <2> QED
    BY <2>1 DEF Index, Buffer, ChainType
<1>9. pending' \in [1..MaxGen -> SUBSET {"term", "query"}]
  BY <1>2 DEF Index, Buffer, ChainType
<1>10. pc' \in [Actors -> PCs] /\ \A f \in Flushers : pc'[f] = pc[f]
  BY DEF Index, ChainType, PCs
<1>11. log' \in Seq(Entry)
  <2>1. [gen |-> w.gen, add |-> TRUE, del |-> kind] \in Entry
    BY <1>2 DEF Entry
  <2>2. log' = Append(log, [gen |-> w.gen, add |-> TRUE, del |-> kind])
    BY DEF Index, Log
  <2> QED
    BY <1>2, <2>1, <2>2
<1>12. applyFlag' \in BOOLEAN
  BY DEF Index, OnDelete, ChainType
<1> HIDE DEF w, d
<1>13. UNCHANGED <<gen, ticketVars, eventVars, indexVars, fullVars, lost, commit>>
  BY DEF Index
<1> QED
  BY <1>5, <1>6, <1>7, <1>8, <1>9, <1>10, <1>11, <1>12, <1>13
     DEF ChainType, ticketVars, indexVars, fullVars

\* A delete keeps the types.
LEMMA DeleteTyped ==
  ASSUME ChainType, NEW kind \in Kinds, Delete(kind)
  PROVE  ChainType'
<1> USE IndexingChainAssumption, NoneAssumption, ActorFacts
<1>1. gen \in 1..MaxGen /\ log \in Seq(Entry) /\ kind \in {"term", "query"}
  BY DEF ChainType
<1>2. active' \in [States -> Dwpt \cup {None}] /\ \A u \in States : u \in Inited => active'[u] # None
  <2>1. \A u \in States : Kill(active[u], gen, kind) \in Dwpt \cup {None}
                        /\ (active[u] # None => Kill(active[u], gen, kind) # None)
    BY KillType, KillNone DEF ChainType
  <2> QED
    BY <2>1 DEF Delete, Inited
<1>3. flushPending' \subseteq Inited'
  BY <1>2 DEF Delete, Inited, ChainType
<1>4. flushQueue' \in Seq(Dwpt)
  <2>1. \A i \in 1..Len(flushQueue) : Kill(flushQueue[i], gen, kind) \in Dwpt
    BY KillType DEF ChainType
  <2>2. Len(flushQueue) \in Nat
    BY DEF ChainType
  <2>3. [i \in 1..Len(flushQueue) |-> Kill(flushQueue[i], gen, kind)] \in Seq(Dwpt)
    BY <2>1, <2>2
  <2> QED
    BY <2>3 DEF Delete
<1>5. hand' \in [Flushers -> Dwpt \cup {None}] /\ \A f \in Flushers : hand'[f] # None <=> hand[f] # None
  <2>1. \A f \in Flushers : Kill(hand[f], gen, kind) \in Dwpt \cup {None}
                            /\ (Kill(hand[f], gen, kind) # None <=> hand[f] # None)
    BY KillType, KillNone DEF ChainType
  <2> QED
    BY <2>1 DEF Delete, ChainType
<1>6. pending[gen] \cup {kind} \in SUBSET {"term", "query"}
  BY <1>1 DEF ChainType
<1>7. pending' \in [1..MaxGen -> SUBSET {"term", "query"}] /\ tickets' \in Seq(Ticket)
  <2>1. GlobalTicket(pending[gen] \cup {kind}) \in Ticket
    BY <1>6 DEF GlobalTicket, Ticket
  <2>2. tickets \in Seq(Ticket) /\ Append(tickets, GlobalTicket(pending[gen] \cup {kind})) \in Seq(Ticket)
    BY <2>1, AppendProperties DEF ChainType
  <2>3. tickets' \in {tickets, Append(tickets, GlobalTicket(pending[gen] \cup {kind}))}
    BY DEF Delete
  <2>4. /\ [pending EXCEPT ![gen] = {}] \in [1..MaxGen -> SUBSET {"term", "query"}]
        /\ [pending EXCEPT ![gen] = pending[gen] \cup {kind}] \in [1..MaxGen -> SUBSET {"term", "query"}]
    BY <1>1, <1>6 DEF ChainType
  <2>5. pending' \in {[pending EXCEPT ![gen] = {}], [pending EXCEPT ![gen] = pending[gen] \cup {kind}]}
    BY DEF Delete
  <2> QED
    BY <2>2, <2>3, <2>4, <2>5
<1>8. log' \in Seq(Entry)
  <2>1. [gen |-> gen, add |-> FALSE, del |-> kind] \in Entry
    BY <1>1 DEF Entry
  <2>2. log' = Append(log, [gen |-> gen, add |-> FALSE, del |-> kind])
    BY DEF Delete, Log
  <2> QED
    BY <1>1, <2>1, <2>2
<1>9. UNCHANGED <<gen, pc, popped, indexVars, fullVars, lost, commit>> /\ applyFlag' = FALSE
  BY DEF Delete
<1> QED
  BY <1>2, <1>3, <1>4, <1>5, <1>7, <1>8, <1>9 DEF ChainType, indexVars, fullVars
\* add_flushable_state keeps the types of what it changes.
LEMMA CheckOutTyped ==
  ASSUME ChainType, NEW s \in Inited, AddFlushableState(s)
  PROVE  /\ active' \in [States -> Dwpt \cup {None}] /\ flushPending' \subseteq Inited'
         /\ flushQueue' \in Seq(Dwpt)
<1>1. active[s] \in Dwpt /\ flushQueue \in Seq(Dwpt)
  BY DEF ChainType, Inited
<1>2. flushQueue' \in Seq(Dwpt)
  BY <1>1, AppendProperties DEF AddFlushableState
<1> QED
  BY <1>2 DEF AddFlushableState, ChainType, Inited

\* Freezing a queue into a ticket keeps the types of what it changes.
LEMMA FreezeTyped ==
  ASSUME ChainType, NEW g \in 1..MaxGen, NEW t \in Ticket, AddTicket(g, t)
  PROVE  /\ tickets' \in Seq(Ticket)
         /\ pending' \in [1..MaxGen -> SUBSET {"term", "query"}]
<1>1. tickets \in Seq(Ticket)
  BY DEF ChainType
<1>2. tickets' \in Seq(Ticket)
  BY <1>1, AppendProperties DEF AddTicket
<1> QED
  BY <1>2 DEF AddTicket, ChainType

\* The pointer that flush_dwpt keeps to its ticket is never dangling: the ticket is in the queue and
\* is its own.
LEMMA OpenTicketFound ==
  ASSUME Owned, NEW f \in Flushers, pc[f] = "ticketed"
  PROVE  /\ OpenTicket(f) \in 1..Len(tickets)
         /\ tickets[OpenTicket(f)].owner = f /\ IsOpen(OpenTicket(f))
BY DEF Owned, OpenTicket, IsOpen

\* flush_dwpt changes the status of one ticket.
LEMMA StatusTyped ==
  ASSUME NEW q \in Seq(Ticket), NEW i \in 1..Len(q), NEW st \in {"ready", "failed"}
  PROVE  LET r == [q EXCEPT ![i].status = st]
         IN /\ r \in Seq(Ticket) /\ Len(r) = Len(q)
            /\ \A k \in 1..Len(q) : k # i => r[k] = q[k]
            /\ r[i].status = st /\ r[i].owner = q[i].owner /\ r[i].dels = q[i].dels
            /\ r[i].dwpt = q[i].dwpt
<1> DEFINE e == [q[i] EXCEPT !.status = st]
           r == [q EXCEPT ![i] = e]
<1>1. q[i] \in Ticket
  BY ElementOfSeq
<1>2. /\ e \in Ticket /\ e.status = st /\ e.owner = q[i].owner /\ e.dels = q[i].dels
      /\ e.dwpt = q[i].dwpt
  BY <1>1 DEF Ticket
<1>3. [q EXCEPT ![i].status = st] = r
  OBVIOUS
<1> HIDE DEF e
<1>4. r \in Seq(Ticket) /\ Len(r) = Len(q) /\ \A j \in 1..Len(q) : r[j] = IF j = i THEN e ELSE q[j]
  BY <1>2, ExceptSeq
<1> QED
  BY <1>2, <1>3, <1>4

\* Every step keeps the types.
LEMMA TypeStep ==
  ASSUME ChainType, Owned, Phase, Next
  PROVE  ChainType'
<1> USE IndexingChainAssumption, NoneAssumption, ActorFacts
<1>1. ASSUME NEW s \in States, Obtain(s) PROVE ChainType'
  <2>1. pc' \in [Actors -> PCs] /\ \A f \in Flushers : pc'[f] = pc[f]
    BY <1>1 DEF Obtain, ChainType, PCs
  <2>2. /\ active' \in [States -> Dwpt \cup {None}] /\ flushPending' \subseteq Inited'
        /\ flushQueue' \in Seq(Dwpt)
    BY <1>1, CheckOutTyped DEF Obtain, ChainType, Inited
  <2> QED
    BY <1>1, <2>1, <2>2 DEF Obtain, ChainType, queueVars, dwptVars, ticketVars, indexVars,
       fullVars, history
<1>2. ASSUME NEW s \in States, IndexFails(s) PROVE ChainType'
  <2>1. pc' \in [Actors -> PCs] /\ \A f \in Flushers : pc'[f] = pc[f]
    BY <1>2 DEF IndexFails, ChainType, PCs
  <2>2. active' \in [States -> Dwpt \cup {None}] /\ flushPending' \subseteq Inited'
    BY <1>2 DEF IndexFails, ChainType, Inited
  <2>3. lost' \subseteq Nat
    BY <1>2 DEF IndexFails, ChainType, Inited, Dwpt
  <2> QED
    BY <1>2, <2>1, <2>2, <2>3 DEF IndexFails, ChainType, queueVars, dwptVars, ticketVars,
       indexVars, fullVars, history
<1>3. ASSUME NEW m \in Modes, BeginFullFlush(m) PROVE ChainType'
  <2>1. pendingFull' \in BOOLEAN
    BY <1>3 DEF BeginFullFlush, AnyChanges
  <2>2. gen' \in 1..MaxGen /\ cpc' \in CPCs
    BY <1>3 DEF BeginFullFlush, ChainType, CPCs
  <2> QED
    BY <1>3, <2>1, <2>2 DEF BeginFullFlush, ChainType, Inited, queueVars, dwptVars, ticketVars,
       indexVars, fullVars, history
<1>4. ASSUME NEW f \in Flushers, NextPendingFlush(f) PROVE ChainType'
  <2>1. pc' \in [Actors -> PCs] /\ \A h \in Flushers : pc'[h] = IF h = f THEN "taken" ELSE pc[h]
    BY <1>4 DEF NextPendingFlush, ChainType, PCs
  <2>2. /\ active' \in [States -> Dwpt \cup {None}] /\ flushPending' \subseteq Inited'
        /\ flushQueue' \in Seq(Dwpt)
        /\ \E w \in Dwpt : hand' = [hand EXCEPT ![f] = w]
    <3>1. CASE flushQueue # <<>>
      <4>1. Head(flushQueue) \in Dwpt /\ Tail(flushQueue) \in Seq(Dwpt)
        BY <3>1, HeadTailProperties DEF ChainType
      <4> QED
        BY <1>4, <3>1, <4>1 DEF NextPendingFlush, ChainType, Inited
    <3>2. CASE flushQueue = <<>>
      BY <1>4, <3>2 DEF NextPendingFlush, ChainType, Inited
    <3> QED
      BY <3>1, <3>2
  <2>3. /\ hand' \in [Flushers -> Dwpt \cup {None}]
        /\ \A h \in Flushers : hand'[h] # None <=> pc'[h] \in Busy
    BY <2>1, <2>2 DEF ChainType, Busy
  <2> QED
    BY <1>4, <2>1, <2>2, <2>3 DEF NextPendingFlush, ChainType, queueVars, dwptVars, ticketVars,
       indexVars, fullVars, history
<1>5. ASSUME NEW f \in Flushers, AddFlushTicket(f) PROVE ChainType'
  <2>1. pc' \in [Actors -> PCs] /\ \A h \in Flushers : pc'[h] = IF h = f THEN "ticketed" ELSE pc[h]
    BY <1>5 DEF AddFlushTicket, ChainType, PCs
  <2>2. hand[f] \in Dwpt
    BY <1>5 DEF AddFlushTicket, ChainType, Busy
  <2>3. hand[f].gen \in 1..MaxGen
    BY <2>2 DEF Dwpt
  <2>4. FlushTicket(f, pending[hand[f].gen]) \in Ticket
    BY <2>2, <2>3 DEF FlushTicket, Ticket, ChainType
  <2>5. tickets' \in Seq(Ticket) /\ pending' \in [1..MaxGen -> SUBSET {"term", "query"}]
    BY <1>5, <2>3, <2>4, FreezeTyped DEF AddFlushTicket
  <2>6. \A h \in Flushers : hand[h] # None <=> pc'[h] \in Busy
    BY <1>5, <2>1 DEF AddFlushTicket, ChainType, Busy
  <2> QED
    BY <1>5, <2>1, <2>5, <2>6 DEF AddFlushTicket, ChainType, Inited, queueVars, dwptVars,
       ticketVars, indexVars, fullVars, history
<1>6. ASSUME NEW f \in Flushers, FlushDwpt(f) PROVE ChainType'
  <2>1. \E st \in {"ready", "failed"} : tickets' = [tickets EXCEPT ![OpenTicket(f)].status = st]
    BY <1>6 DEF FlushDwpt
  <2>2. OpenTicket(f) \in 1..Len(tickets) /\ tickets \in Seq(Ticket)
    BY <1>6, OpenTicketFound DEF FlushDwpt, ChainType
  <2>3. tickets' \in Seq(Ticket)
    <3>1. PICK st \in {"ready", "failed"} : tickets' = [tickets EXCEPT ![OpenTicket(f)].status = st]
      BY <2>1
    <3> QED
      BY <2>2, <3>1, StatusTyped
  <2>4. pc' \in [Actors -> PCs] /\ \A h \in Flushers : hand[h] # None <=> pc'[h] \in Busy
    <3>1. pc[f] \in Busy /\ pc' \in [Actors -> PCs]
      BY <1>6, SMTT(30) DEF FlushDwpt, ChainType, PCs, Busy
    <3>2. \A h \in Flushers : pc'[h] \in Busy <=> pc[h] \in Busy
      BY <1>6, <3>1 DEF FlushDwpt, ChainType, Busy
    <3> QED
      BY <3>1, <3>2 DEF ChainType
  <2>5. hand[f] \in Dwpt
    BY <1>6 DEF FlushDwpt, ChainType, Busy
  <2>6. lost' \subseteq Nat
    BY <1>6, <2>5 DEF FlushDwpt, ChainType, Dwpt
  <2> QED
    BY <1>6, <2>3, <2>4, <2>6 DEF FlushDwpt, ChainType, Inited, queueVars, dwptVars, ticketVars,
       indexVars, fullVars, history
<1>7. ASSUME NEW f \in Flushers, AfterFlush(f) PROVE ChainType'
  <2>1. pc' \in [Actors -> PCs] /\ \A h \in Flushers : pc'[h] \in Busy <=> h # f /\ pc[h] \in Busy
    BY <1>7 DEF AfterFlush, ChainType, PCs, Busy
  <2>2. /\ hand' \in [Flushers -> Dwpt \cup {None}]
        /\ \A h \in Flushers : hand'[h] # None <=> h # f /\ hand[h] # None
    BY <1>7 DEF AfterFlush, ChainType
  <2>3. /\ fullFlush' \in BOOLEAN /\ pendingFull' \in BOOLEAN /\ helped' \in BOOLEAN
        /\ cpc' \in CPCs
    BY <1>7, ZenonT(40) DEF AfterFlush, LeaveFullFlush, ChainType, CPCs, fullVars
  <2>4. \A h \in Flushers : hand'[h] # None <=> pc'[h] \in Busy
    BY <2>1, <2>2 DEF ChainType
  <2>5. UNCHANGED <<queueVars, active, flushPending, flushQueue, applyFlag, ticketVars, indexVars, history>>
    BY <1>7 DEF AfterFlush
  <2> QED
    BY <2>1, <2>2, <2>3, <2>4, <2>5 DEF ChainType, Inited, queueVars, dwptVars, ticketVars,
       indexVars, fullVars, history
<1>8. ASSUME NEW x \in Actors, ApplyAllDeletesLocal(x) PROVE ChainType'
  BY <1>8 DEF ApplyAllDeletesLocal, ChainType, queueVars, dwptVars, ticketVars, indexVars,
     fullVars, history, Inited, PCs, CPCs, Busy
<1>9. ASSUME NEW x \in Actors, AddDeletes(x) PROVE ChainType'
  <2>1. gen \in 1..MaxGen /\ GlobalTicket(pending[gen]) \in Ticket
    BY DEF ChainType, GlobalTicket, Ticket
  <2>2. tickets' \in Seq(Ticket) /\ pending' \in [1..MaxGen -> SUBSET {"term", "query"}]
    BY <1>9, <2>1, FreezeTyped DEF AddDeletes
  <2>3. pc' \in [Actors -> PCs] /\ \A h \in Flushers : pc'[h] \in Busy <=> pc[h] \in Busy
    BY <1>9 DEF AddDeletes, ChainType, PCs, Busy
  <2> QED
    BY <1>9, <2>2, <2>3 DEF AddDeletes, ChainType, Inited, queueVars, dwptVars, ticketVars,
       indexVars, fullVars, history
<1>10. ASSUME NEW e \in {"purge", "apply"}, BeginEvent(e) PROVE ChainType'
  BY <1>10 DEF BeginEvent, ChainType, queueVars, dwptVars, ticketVars, indexVars, fullVars,
     history, Inited
<1>11. ASSUME PopHead PROVE ChainType'
  <2>1. Head(tickets) \in Ticket /\ Tail(tickets) \in Seq(Ticket)
    BY <1>11, HeadTailProperties DEF PopHead, ChainType
  <2> QED
    BY <1>11, <2>1 DEF PopHead, ChainType, queueVars, dwptVars, ticketVars, indexVars, fullVars,
       history, Inited
<1>12. ASSUME PublishPopped PROVE ChainType'
  <2>1. popped \in Ticket /\ (popped.status = "ready" => popped.dwpt # None) /\ index \in Index0
    BY <1>12 DEF PublishPopped, ChainType, Owned, Attached
  <2>2. index' \in Index0
    BY <1>12, <2>1, PublishType DEF PublishPopped
  <2> QED
    BY <1>12, <2>2 DEF PublishPopped, ChainType, queueVars, dwptVars, ticketVars, indexVars,
       fullVars, history, Inited
<1>13. ASSUME EndEvent PROVE ChainType'
  BY <1>13 DEF EndEvent, ChainType, queueVars, dwptVars, ticketVars, indexVars, fullVars,
     history, Inited
<1>14. ASSUME ApplyEvent PROVE ChainType'
  <2>1. index' \in Index0
    BY <1>14, ApplyParts DEF ApplyEvent, ApplyAllDeletesAndUpdate, ChainType
  <2>2. changed' \in BOOLEAN
    BY <1>14 DEF ApplyEvent, ApplyAllDeletesAndUpdate, ChainType
  <2> QED
    BY <1>14, <2>1, <2>2 DEF ApplyEvent, ChainType, queueVars, dwptVars, ticketVars, indexVars,
       fullVars, history, Inited
<1>15. ASSUME NEW s \in States, MarkState(s) PROVE ChainType'
  <2>1. /\ active' \in [States -> Dwpt \cup {None}] /\ flushPending' \subseteq Inited'
        /\ flushQueue' \in Seq(Dwpt)
    BY <1>15, CheckOutTyped DEF MarkState, ChainType, Inited
  <2> QED
    BY <1>15, <2>1 DEF MarkState, ChainType, CPCs, queueVars, dwptVars, ticketVars, indexVars,
       fullVars, history
<1>16. ASSUME WaitForFlush PROVE ChainType'
  <2>1. tickets' \in Seq(Ticket) /\ pending' \in [1..MaxGen -> SUBSET {"term", "query"}]
    <3>1. CASE ~helped /\ pending[gen - 1] # {}
      <4>1. gen - 1 \in 1..MaxGen
        BY <1>16 DEF ChainType, WaitForFlush, Phase
      <4>2. GlobalTicket(pending[gen - 1]) \in Ticket
        BY <4>1 DEF ChainType, GlobalTicket, Ticket
      <4> QED
        BY <1>16, <3>1, <4>1, <4>2, FreezeTyped DEF WaitForFlush
    <3>2. CASE ~(~helped /\ pending[gen - 1] # {})
      BY <1>16, <3>2 DEF WaitForFlush, ChainType
    <3> QED
      BY <3>1, <3>2
  <2> QED
    BY <1>16, <2>1 DEF WaitForFlush, ChainType, CPCs, Inited, queueVars, dwptVars, ticketVars,
       indexVars, fullVars, history
<1>17. ASSUME ForcePurge PROVE ChainType'
  BY <1>17 DEF ForcePurge, ChainType, queueVars, dwptVars, ticketVars, indexVars, fullVars,
     history, Inited
<1>18. ASSUME EndForcePurge PROVE ChainType'
  BY <1>18 DEF EndForcePurge, ChainType, queueVars, dwptVars, ticketVars, indexVars, fullVars,
     history, Inited, CPCs
<1>19. ASSUME ApplyAndSnapshot PROVE ChainType'
  <2>1. index' \in Index0
    BY <1>19, ApplyParts DEF ApplyAndSnapshot, ChainType
  <2>2. LiveDocs(index') \subseteq Nat
    BY <2>1 DEF LiveDocs, Index0, Segment
  <2>3. gen - 1 \in Nat /\ changed' \in BOOLEAN
    <3>1. changed' \in BOOLEAN
      BY <1>19 DEF ApplyAndSnapshot, ChainType
    <3>2. gen - 1 \in Nat
      BY DEF ChainType
    <3> QED
      BY <3>1, <3>2
  <2>4. commit' \in [gen : Nat, live : SUBSET Nat]
    BY <1>19, <2>2, <2>3 DEF ApplyAndSnapshot, ChainType
  <2> QED
    BY <1>19, <2>1, <2>3, <2>4 DEF ApplyAndSnapshot, ChainType, CPCs, Inited, queueVars,
       dwptVars, ticketVars, indexVars, fullVars, history
<1>20. ASSUME FinishFullFlush PROVE ChainType'
  BY <1>20 DEF FinishFullFlush, LeaveFullFlush, ChainType, queueVars, dwptVars, ticketVars,
     indexVars, fullVars, history, Inited, CPCs
<1> QED
  BY <1>1, <1>2, <1>3, <1>4, <1>5, <1>6, <1>7, <1>8, <1>9, <1>10, <1>11, <1>12, <1>13, <1>14,
     <1>15, <1>16, <1>17, <1>18, <1>19, <1>20, IndexTyped, DeleteTyped
     DEF Next, Operation, Work, Local, Events, FullFlush

\* Every step keeps Main's place in a full flush in line with the flags that it shares with the other
\* threads.
LEMMA PhaseStep ==
  ASSUME Main \notin MayFail, ControlInv, Next
  PROVE  Phase'
<1> USE IndexingChainAssumption, NoneAssumption, ActorFacts DEF ControlInv
<1>1. ASSUME NEW s \in States, Obtain(s) PROVE Phase'
  BY <1>1 DEF Obtain, Phase, ChainType, Busy, queueVars, ticketVars, fullVars
<1>2. ASSUME NEW s \in States, IndexFails(s) PROVE Phase'
  BY <1>2 DEF IndexFails, Phase, ChainType, Busy, queueVars, ticketVars, fullVars
<1>3. ASSUME NEW s \in States, NEW kind \in {"none", "term"}, Index(s,kind) PROVE Phase'
  BY <1>3 DEF Index, Phase, ChainType, OnDelete, Busy, ticketVars, fullVars
<1>4. ASSUME NEW kind \in Kinds, Delete(kind) PROVE Phase'
  BY <1>4 DEF Delete, Phase, ChainType, OnDelete, Busy, fullVars
<1>5. ASSUME NEW m \in Modes, BeginFullFlush(m) PROVE Phase'
  BY <1>5 DEF BeginFullFlush, Phase, ChainType, Busy, ticketVars
<1>6. ASSUME NEW f \in Flushers, NextPendingFlush(f) PROVE Phase'
  BY <1>6 DEF NextPendingFlush, MayTake, Phase, ChainType, Busy, queueVars, ticketVars, fullVars
<1>7. ASSUME NEW f \in Flushers, AddFlushTicket(f) PROVE Phase'
  BY <1>7 DEF AddFlushTicket, Phase, ChainType, Busy, fullVars
<1>8. ASSUME NEW f \in Flushers, FlushDwpt(f) PROVE Phase'
  BY <1>8 DEF FlushDwpt, Phase, ChainType, Busy, queueVars, fullVars
<1>9. ASSUME NEW f \in Flushers, AfterFlush(f) PROVE Phase'
  BY <1>9 DEF AfterFlush, Phase, LeaveFullFlush, ChainType, Busy, queueVars, ticketVars, fullVars
<1>10. ASSUME NEW x \in Actors, ApplyAllDeletesLocal(x) PROVE Phase'
  BY <1>10 DEF ApplyAllDeletesLocal, Phase, ChainType, Busy, queueVars, ticketVars, fullVars
<1>11. ASSUME NEW x \in Actors, AddDeletes(x) PROVE Phase'
  BY <1>11 DEF AddDeletes, Phase, ChainType, Busy, fullVars
<1>12. ASSUME NEW e \in {"purge", "apply"}, BeginEvent(e) PROVE Phase'
  BY <1>12 DEF BeginEvent, Phase, ChainType, Busy, queueVars, fullVars
<1>13. ASSUME PopHead PROVE Phase'
  BY <1>13 DEF PopHead, Phase, ChainType, Busy, queueVars, fullVars
<1>14. ASSUME PublishPopped PROVE Phase'
  BY <1>14 DEF PublishPopped, Phase, ChainType, Busy, queueVars, fullVars
<1>15. ASSUME EndEvent PROVE Phase'
  BY <1>15 DEF EndEvent, Phase, ChainType, Busy, queueVars, fullVars
<1>16. ASSUME ApplyEvent PROVE Phase'
  BY <1>16 DEF ApplyEvent, Phase, ChainType, Busy, queueVars, ticketVars, fullVars
<1>17. ASSUME NEW s \in States, MarkState(s) PROVE Phase'
  BY <1>17 DEF MarkState, Phase, ChainType, Busy, queueVars, ticketVars
<1>18. ASSUME WaitForFlush PROVE Phase'
  BY <1>18 DEF WaitForFlush, Phase, ChainType, Busy
<1>19. ASSUME ForcePurge PROVE Phase'
  BY <1>19 DEF ForcePurge, Phase, ChainType, Busy, queueVars, fullVars
<1>20. ASSUME EndForcePurge PROVE Phase'
  BY <1>20 DEF EndForcePurge, Phase, ChainType, Busy, queueVars
<1>21. ASSUME ApplyAndSnapshot PROVE Phase'
  BY <1>21 DEF ApplyAndSnapshot, Phase, ChainType, Busy, queueVars, ticketVars
<1>22. ASSUME FinishFullFlush PROVE Phase'
  BY <1>22 DEF FinishFullFlush, Phase, LeaveFullFlush, ChainType, Busy, queueVars, ticketVars
<1> QED
  BY <1>1, <1>2, <1>3, <1>4, <1>5, <1>6, <1>7, <1>8, <1>9, <1>10, <1>11, <1>12, <1>13, <1>14,
     <1>15, <1>16, <1>17, <1>18, <1>19, <1>20, <1>21, <1>22 DEF Next, Operation, Work, Local,
     Events, FullFlush

\* A step that touches no ticket, no popped ticket and no flusher with a ticket leaves the ownership
\* of tickets as it is.
LEMMA OwnedFrame ==
  ASSUME Owned, UNCHANGED <<tickets, popped>>,
         \A f \in Flushers : pc'[f] = "ticketed" <=> pc[f] = "ticketed",
         \A f \in Flushers : pc[f] = "ticketed" => hand'[f] = hand[f]
  PROVE  Owned'
BY DEF Owned, IsOpen, Attached

\* A ticket of frozen deletes alone joins the queue and belongs to nobody.
LEMMA OwnedAppend ==
  ASSUME ChainType, Owned, NEW t \in Ticket, t.status = "global", t.dwpt = None,
         tickets' = Append(tickets, t),
         UNCHANGED popped,
         \A f \in Flushers : pc'[f] = "ticketed" <=> pc[f] = "ticketed",
         \A f \in Flushers : pc[f] = "ticketed" => hand'[f] = hand[f]
  PROVE  Owned'
<1>1. Len(tickets) \in Nat
  BY DEF ChainType
<1>2. /\ Len(tickets') = Len(tickets) + 1 /\ tickets'[Len(tickets) + 1] = t
      /\ \A i \in 1..Len(tickets) : tickets'[i] = tickets[i]
  BY AppendProperties DEF ChainType
<1>3. \A i \in 1..Len(tickets') : i \in 1..Len(tickets) \/ i = Len(tickets) + 1
  BY <1>1, <1>2
<1>4. \A i \in 1..Len(tickets') : IsOpen(i)' <=> i \in 1..Len(tickets) /\ IsOpen(i)
  BY <1>1, <1>2, <1>3 DEF IsOpen
<1>5. \A i \in 1..Len(tickets') : Attached(tickets'[i])
  BY <1>1, <1>2, <1>3 DEF Owned, Attached
<1> QED
  BY <1>1, <1>2, <1>4, <1>5 DEF Owned, Attached

\* Every step keeps each open ticket with the one flusher that will complete it.
LEMMA OwnedStep ==
  ASSUME Main \notin MayFail, ControlInv, Next
  PROVE  Owned'
<1> USE IndexingChainAssumption, NoneAssumption, ActorFacts DEF ControlInv
<1>1. ASSUME NEW s \in States, Obtain(s) PROVE Owned'
  BY <1>1 DEF Obtain, Owned, IsOpen, Attached, ChainType, ticketVars
<1>2. ASSUME NEW s \in States, IndexFails(s) PROVE Owned'
  BY <1>2, OwnedFrame DEF IndexFails, ChainType, ticketVars
<1>3. ASSUME NEW s \in States, NEW kind \in {"none", "term"}, Index(s,kind) PROVE Owned'
  <2>1. \A f \in Flushers : pc[f] = "ticketed" => hand'[f] = hand[f]
    BY <1>3 DEF Index, Buffer
  <2> QED
    BY <1>3, <2>1, OwnedFrame DEF Index, ChainType, ticketVars
<1>4. ASSUME NEW kind \in Kinds, Delete(kind) PROVE Owned'
  <2>1. \A f \in Flushers : pc[f] = "ticketed" => hand'[f] = hand[f]
    BY <1>4 DEF Delete
  <2>2. UNCHANGED <<pc, popped>>
    BY <1>4 DEF Delete
  <2>3. pending[gen] \cup {kind} \in SUBSET {"term", "query"}
    BY DEF ChainType
  <2>4. GlobalTicket(pending[gen] \cup {kind}) \in Ticket
    BY <2>3 DEF GlobalTicket, Ticket
  <2>5. tickets' = tickets \/ tickets' = Append(tickets, GlobalTicket(pending[gen] \cup {kind}))
    BY <1>4 DEF Delete
  <2>6. /\ GlobalTicket(pending[gen] \cup {kind}).status = "global"
        /\ GlobalTicket(pending[gen] \cup {kind}).dwpt = None
    BY DEF GlobalTicket
  <2> QED
    BY <2>1, <2>2, <2>4, <2>5, <2>6, OwnedFrame, OwnedAppend
<1>5. ASSUME NEW m \in Modes, BeginFullFlush(m) PROVE Owned'
  BY <1>5 DEF BeginFullFlush, Owned, IsOpen, Attached, ChainType, dwptVars, ticketVars
<1>6. ASSUME NEW f \in Flushers, NextPendingFlush(f) PROVE Owned'
  <2>1. \A h \in Flushers : pc[h] = "ticketed" => hand'[h] = hand[h]
    BY <1>6 DEF NextPendingFlush, MayTake, ChainType
  <2>2. \A h \in Flushers : pc'[h] = "ticketed" <=> pc[h] = "ticketed"
    BY <1>6 DEF NextPendingFlush, MayTake, ChainType
  <2> QED
    BY <1>6, <2>1, <2>2, OwnedFrame DEF NextPendingFlush, ticketVars
<1>7. ASSUME NEW f \in Flushers, AddFlushTicket(f) PROVE Owned'
  <2> DEFINE t == FlushTicket(f, pending[hand[f].gen])
  <2>1. hand[f] \in Dwpt /\ hand[f] # None
    BY <1>7 DEF AddFlushTicket, ChainType, Busy
  <2>2. hand[f].gen \in 1..MaxGen
    BY <2>1 DEF Dwpt
  <2>3. t \in Ticket
    BY <2>1, <2>2 DEF FlushTicket, Ticket, ChainType
  <2>4. t.status = "open" /\ t.owner = f /\ t.dwpt = hand[f]
    BY DEF FlushTicket
  <2>5. tickets' = Append(tickets, t) /\ tickets \in Seq(Ticket) /\ Len(tickets) \in Nat
    BY <1>7 DEF AddFlushTicket, AddTicket, ChainType
  <2> HIDE DEF t
  <2>6. /\ Len(tickets') = Len(tickets) + 1 /\ tickets'[Len(tickets) + 1] = t
        /\ \A i \in 1..Len(tickets) : tickets'[i] = tickets[i]
    BY <2>3, <2>5, AppendProperties
  <2>7. \A i \in 1..Len(tickets') : i \in 1..Len(tickets) \/ i = Len(tickets) + 1
    BY <2>5, <2>6
  <2>8. \A i \in 1..Len(tickets') : IsOpen(i)' <=> (i \in 1..Len(tickets) /\ IsOpen(i)) \/ i = Len(tickets) + 1
    BY <2>4, <2>5, <2>6, <2>7 DEF IsOpen
  <2>9. /\ UNCHANGED <<hand, popped>> /\ pc[f] = "taken"
        /\ \A h \in Flushers : pc'[h] = IF h = f THEN "ticketed" ELSE pc[h]
    BY <1>7 DEF AddFlushTicket, ChainType, dwptVars
  <2>10. \A i \in 1..Len(tickets') : Attached(tickets'[i])
    BY <2>1, <2>4, <2>6, <2>7 DEF Owned, Attached
  <2>11. \A i \in 1..Len(tickets) : IsOpen(i) => tickets[i].owner # f
    BY <2>9 DEF Owned
  <2>12. \A i \in 1..Len(tickets') : IsOpen(i)' =>
          /\ tickets'[i].owner \in Flushers /\ pc'[tickets'[i].owner] = "ticketed"
          /\ tickets'[i].dwpt = hand'[tickets'[i].owner]
    BY <2>4, <2>6, <2>8, <2>9, <2>11 DEF Owned
  <2>13. \A i, j \in 1..Len(tickets') :
          IsOpen(i)' /\ IsOpen(j)' /\ tickets'[i].owner = tickets'[j].owner => i = j
    BY <2>4, <2>6, <2>8, <2>11, SMTT(30) DEF Owned
  <2>14. \A h \in Flushers : pc'[h] = "ticketed" =>
          \E i \in 1..Len(tickets') : IsOpen(i)' /\ tickets'[i].owner = h
    <3>1. Len(tickets) + 1 \in 1..Len(tickets') /\ \A i \in 1..Len(tickets) : i \in 1..Len(tickets')
      BY <2>5, <2>6
    <3> QED
      BY <2>4, <2>6, <2>8, <2>9, <3>1 DEF Owned
  <2> QED
    BY <2>9, <2>10, <2>12, <2>13, <2>14 DEF Owned, Attached
<1>8. ASSUME NEW f \in Flushers, FlushDwpt(f) PROVE Owned'
  <2> DEFINE k == OpenTicket(f)
  <2>1. k \in 1..Len(tickets) /\ tickets[k].owner = f /\ IsOpen(k) /\ tickets \in Seq(Ticket)
    BY <1>8, OpenTicketFound DEF FlushDwpt, ChainType
  <2>2. PICK st \in {"ready", "failed"} : tickets' = [tickets EXCEPT ![k].status = st]
    BY <1>8 DEF FlushDwpt
  <2> HIDE DEF k
  <2>3. /\ Len(tickets') = Len(tickets) /\ \A i \in 1..Len(tickets) : i # k => tickets'[i] = tickets[i]
        /\ tickets'[k].status = st /\ tickets'[k].dwpt = tickets[k].dwpt
    BY <2>1, <2>2, StatusTyped
  <2>4. \A i \in 1..Len(tickets) : IsOpen(i)' <=> i # k /\ IsOpen(i)
    BY <2>1, <2>3 DEF IsOpen
  <2>5. \A h \in Flushers : pc'[h] = "ticketed" <=> h # f /\ pc[h] = "ticketed"
    BY <1>8 DEF FlushDwpt, ChainType
  <2>6. UNCHANGED <<hand, popped>>
    BY <1>8 DEF FlushDwpt, dwptVars
  <2>7. tickets[k].dwpt # None
    BY <2>1 DEF Owned, Attached, IsOpen
  <2>8. \A i \in 1..Len(tickets) : Attached(tickets'[i])
    BY <2>3, <2>7 DEF Owned, Attached
  <2> QED
    BY <2>1, <2>3, <2>4, <2>5, <2>6, <2>8 DEF Owned, Attached
<1>9. ASSUME NEW f \in Flushers, AfterFlush(f) PROVE Owned'
  <2>1. \A h \in Flushers : pc[h] = "ticketed" => hand'[h] = hand[h]
    BY <1>9 DEF AfterFlush, ChainType
  <2>2. \A h \in Flushers : pc'[h] = "ticketed" <=> pc[h] = "ticketed"
    BY <1>9 DEF AfterFlush, ChainType
  <2> QED
    BY <1>9, <2>1, <2>2, OwnedFrame DEF AfterFlush, ticketVars
<1>10. ASSUME NEW x \in Actors, ApplyAllDeletesLocal(x) PROVE Owned'
  <2>1. \A h \in Flushers : pc'[h] = "ticketed" <=> pc[h] = "ticketed"
    BY <1>10 DEF ApplyAllDeletesLocal, ChainType
  <2> QED
    BY <1>10, <2>1, OwnedFrame DEF ApplyAllDeletesLocal, ticketVars, dwptVars
<1>11. ASSUME NEW x \in Actors, AddDeletes(x) PROVE Owned'
  BY <1>11 DEF AddDeletes, Owned, IsOpen, Attached, ChainType, AddTicket, GlobalTicket, dwptVars
<1>12. ASSUME NEW e \in {"purge", "apply"}, BeginEvent(e) PROVE Owned'
  BY <1>12 DEF BeginEvent, Owned, IsOpen, Attached, ChainType, dwptVars
<1>13. ASSUME PopHead PROVE Owned'
  <2>1. /\ tickets \in Seq(Ticket) /\ tickets # <<>> /\ Len(tickets) \in Nat /\ Len(tickets) > 0
        /\ Head(tickets) = tickets[1]
    BY <1>13 DEF PopHead, ChainType
  <2>2. /\ Len(tickets') = Len(tickets) - 1
        /\ \A i \in 1..Len(tickets') : tickets'[i] = tickets[i + 1] /\ i + 1 \in 1..Len(tickets)
    BY <1>13, <2>1, HeadTailProperties DEF PopHead
  <2>3. popped' = tickets[1] /\ ~IsOpen(1) /\ UNCHANGED <<pc, hand>>
    BY <1>13, <2>1 DEF PopHead, CanPublish, IsOpen, dwptVars
  <2>4. \A i \in 1..Len(tickets') : IsOpen(i)' <=> IsOpen(i + 1)
    BY <2>2 DEF IsOpen
  <2>5. \A i \in 1..Len(tickets) : IsOpen(i) => i - 1 \in 1..Len(tickets') /\ (i - 1) + 1 = i
    BY <2>1, <2>2, <2>3
  <2>6. /\ \A i \in 1..Len(tickets') : Attached(tickets'[i])
        /\ popped' # None => Attached(popped') /\ popped'.status # "open"
    BY <2>1, <2>2, <2>3 DEF Owned, IsOpen, Attached
  <2>7. \A i \in 1..Len(tickets') : IsOpen(i)' =>
          /\ tickets'[i].owner \in Flushers /\ pc'[tickets'[i].owner] = "ticketed"
          /\ tickets'[i].dwpt = hand'[tickets'[i].owner]
    BY <2>2, <2>3, <2>4 DEF Owned
  <2>8. \A i, j \in 1..Len(tickets') :
          IsOpen(i)' /\ IsOpen(j)' /\ tickets'[i].owner = tickets'[j].owner => i = j
    <3> SUFFICES ASSUME NEW i \in 1..Len(tickets'), NEW j \in 1..Len(tickets'),
                        IsOpen(i)', IsOpen(j)', tickets'[i].owner = tickets'[j].owner
                 PROVE  i = j
      OBVIOUS
    <3>0. /\ i + 1 \in 1..Len(tickets) /\ j + 1 \in 1..Len(tickets) /\ IsOpen(i + 1) /\ IsOpen(j + 1)
          /\ tickets[i + 1].owner = tickets[j + 1].owner
      BY <2>2, <2>4
    <3>1. i + 1 = j + 1
      BY <3>0 DEF Owned
    <3> QED
      BY <2>1, <2>2, <3>1
  <2>9. \A h \in Flushers : pc'[h] = "ticketed" =>
          \E i \in 1..Len(tickets') : IsOpen(i)' /\ tickets'[i].owner = h
    <3> SUFFICES ASSUME NEW h \in Flushers, pc[h] = "ticketed"
                 PROVE  \E i \in 1..Len(tickets') : IsOpen(i)' /\ tickets'[i].owner = h
      BY <2>3
    <3>1. PICK i \in 1..Len(tickets) : IsOpen(i) /\ tickets[i].owner = h
      BY DEF Owned
    <3>2. i - 1 \in 1..Len(tickets') /\ (i - 1) + 1 = i
      BY <2>5, <3>1
    <3> QED
      BY <2>2, <2>4, <3>1, <3>2
  <2> QED
    BY <2>6, <2>7, <2>8, <2>9 DEF Owned
<1>14. ASSUME PublishPopped PROVE Owned'
  BY <1>14 DEF PublishPopped, Owned, IsOpen, Attached, ChainType, dwptVars
<1>15. ASSUME EndEvent PROVE Owned'
  BY <1>15 DEF EndEvent, Owned, IsOpen, Attached, ChainType, dwptVars
<1>16. ASSUME ApplyEvent PROVE Owned'
  BY <1>16 DEF ApplyEvent, Owned, IsOpen, Attached, ChainType, dwptVars, ticketVars
<1>17. ASSUME NEW s \in States, MarkState(s) PROVE Owned'
  BY <1>17, OwnedFrame DEF MarkState, ticketVars
<1>18. ASSUME WaitForFlush PROVE Owned'
  <2>1. UNCHANGED <<pc, hand, popped>>
    BY <1>18 DEF WaitForFlush, dwptVars
  <2>2. CASE ~helped /\ pending[gen - 1] # {}
    <3>1. gen - 1 \in 1..MaxGen
      BY <1>18 DEF ChainType, WaitForFlush, Phase
    <3>2. /\ GlobalTicket(pending[gen - 1]) \in Ticket /\ GlobalTicket(pending[gen - 1]).status = "global"
          /\ GlobalTicket(pending[gen - 1]).dwpt = None
      BY <3>1 DEF ChainType, GlobalTicket, Ticket
    <3>3. tickets' = Append(tickets, GlobalTicket(pending[gen - 1]))
      BY <1>18, <2>2 DEF WaitForFlush, AddTicket
    <3> QED
      BY <2>1, <3>2, <3>3, OwnedAppend
  <2>3. CASE ~(~helped /\ pending[gen - 1] # {})
    BY <1>18, <2>1, <2>3, OwnedFrame DEF WaitForFlush
  <2> QED
    BY <2>2, <2>3
<1>19. ASSUME ForcePurge PROVE Owned'
  BY <1>19 DEF ForcePurge, Owned, IsOpen, Attached, ChainType, dwptVars
<1>20. ASSUME EndForcePurge PROVE Owned'
  BY <1>20 DEF EndForcePurge, Owned, IsOpen, Attached, ChainType, dwptVars
<1>21. ASSUME ApplyAndSnapshot PROVE Owned'
  BY <1>21 DEF ApplyAndSnapshot, Owned, IsOpen, Attached, ChainType, dwptVars, ticketVars
<1>22. ASSUME FinishFullFlush PROVE Owned'
  BY <1>22, OwnedFrame DEF FinishFullFlush, dwptVars, ticketVars
<1> QED
  BY <1>1, <1>2, <1>3, <1>4, <1>5, <1>6, <1>7, <1>8, <1>9, <1>10, <1>11, <1>12, <1>13, <1>14,
     <1>15, <1>16, <1>17, <1>18, <1>19, <1>20, <1>21, <1>22 DEF Next, Operation, Work, Local,
     Events, FullFlush

\* Enrolling a DWPT of the old queue for the full flush keeps the generations.
LEMMA CheckOutGenerations ==
  ASSUME ControlInv, NEW s \in Inited, active[s].gen # gen, AddFlushableState(s),
         UNCHANGED <<gen, hand, fullFlush>>, cpc' \in {"mark", "flush"},
         \A f \in Flushers : pc'[f] = pc[f],
         \A u \in Inited : u # s /\ active[u].gen # gen => cpc' = "mark" /\ u \in todo'
  PROVE  Generations'
<1> USE DEF ControlInv
<1>1. active[s].gen = gen - 1 /\ cpc = "mark"
  BY DEF Generations
<1>2. active[s] \in Dwpt /\ flushQueue \in Seq(Dwpt) /\ Len(flushQueue) \in Nat
  BY DEF ChainType, Inited
<1>3. /\ Len(flushQueue') = Len(flushQueue) + 1 /\ flushQueue'[Len(flushQueue) + 1] = active[s]
      /\ \A i \in 1..Len(flushQueue) : flushQueue'[i] = flushQueue[i]
  BY <1>2, AppendProperties DEF AddFlushableState
<1>4. \A i \in 1..Len(flushQueue') : flushQueue'[i].gen = gen - 1
  BY <1>1, <1>2, <1>3 DEF Generations, Rolling
<1>5. \A u \in Inited' : u \in Inited /\ u # s /\ active'[u] = active[u]
  BY DEF AddFlushableState, ChainType, Inited
<1>6. \A u \in Inited' : active'[u].gen = gen' \/ (active'[u].gen = gen' - 1 /\ cpc' = "mark" /\ u \in todo')
  BY <1>5 DEF Generations
<1>7. Taken' = Taken
  BY DEF Taken
<1> QED
  BY <1>1, <1>4, <1>6, <1>7 DEF Generations, Rolling

\* An operation changes the generation of no DWPT.
LEMMA OperationGenerations ==
  ASSUME ControlInv, NEW g, NEW kind, UNCHANGED <<gen, cpc, fullFlush, todo>>,
         \A f \in Flushers : pc'[f] = pc[f],
         flushQueue' = [i \in 1..Len(flushQueue) |-> Kill(flushQueue[i], g, kind)],
         hand' = [f \in Flushers |-> IF pc[f] = "taken" THEN Kill(hand[f], g, kind) ELSE hand[f]],
         \A u \in Inited' : (u \in Inited /\ active'[u].gen = active[u].gen) \/ active'[u].gen = gen
  PROVE  Generations'
<1> USE DEF ControlInv
<1>1. Taken' = Taken /\ Taken \subseteq Flushers
  BY DEF Taken
<1>2. \A f \in Taken : hand[f] \in Dwpt
  BY DEF ChainType, Taken, Busy
<1>3. \A f \in Taken : hand'[f].gen = hand[f].gen
  BY <1>2, KillType DEF Taken
<1>4. /\ Len(flushQueue') = Len(flushQueue)
      /\ \A i \in 1..Len(flushQueue) : flushQueue'[i].gen = flushQueue[i].gen
  <2>1. Len(flushQueue) \in Nat /\ \A i \in 1..Len(flushQueue) : flushQueue[i] \in Dwpt
    BY DEF ChainType
  <2> QED
    BY <2>1, KillType
<1>5. flushQueue = <<>> => flushQueue' = <<>>
  <2> SUFFICES ASSUME flushQueue = <<>> PROVE flushQueue' = <<>>
    OBVIOUS
  <2>1. flushQueue' \in Seq(Dwpt) /\ Len(flushQueue') = 0
    BY <1>4
  <2> QED
    BY <2>1, EmptySeq
<1>6. \A f \in Flushers : hand[f] = None => hand'[f] = None
  BY KillNone
<1> QED
  BY <1>1, <1>3, <1>4, <1>5, <1>6, SMTT(30) DEF Generations, Rolling

\* Every step keeps the DWPTs on the queues of Generations.
LEMMA GenerationsStep ==
  ASSUME Main \notin MayFail, ControlInv, Next
  PROVE  Generations'
<1> USE IndexingChainAssumption, NoneAssumption, ActorFacts DEF ControlInv
<1>1. ASSUME NEW s \in States, Obtain(s) PROVE Generations'
  <2>1. \A f \in Flushers : pc'[f] = pc[f]
    BY <1>1 DEF Obtain, ChainType
  <2>2. UNCHANGED <<gen, cpc, hand, fullFlush, todo>>
    BY <1>1 DEF Obtain, queueVars, fullVars
  <2>3. CASE s \in Inited /\ active[s].gen # gen
    <3>1. cpc = "mark" /\ \A u \in Inited : active[u].gen # gen => u \in todo
      BY <2>3 DEF Generations
    <3> QED
      BY <1>1, <2>1, <2>2, <2>3, <3>1, CheckOutGenerations DEF Obtain
  <2>4. CASE ~(s \in Inited /\ active[s].gen # gen)
    BY <1>1, <2>1, <2>2, <2>4 DEF Obtain, Generations, Rolling, Taken, Inited
  <2> QED
    BY <2>3, <2>4
<1>2. ASSUME NEW s \in States, IndexFails(s) PROVE Generations'
  BY <1>2 DEF IndexFails, Generations, ChainType, Rolling, Taken, Inited, Phase, queueVars, fullVars
<1>3. ASSUME NEW s \in States, NEW kind \in {"none", "term"}, Index(s,kind) PROVE Generations'
  <2> DEFINE w == IF s \in Inited THEN active[s] ELSE NewDwpt(gen)
             d == Len(log) + 1
  <2>1. w \in Dwpt /\ d \in Nat /\ (s \notin Inited => w.gen = gen)
    BY DEF ChainType, Inited, NewDwpt, Dwpt
  <2>2. AddDoc(Kill(w, w.gen, kind), d).gen = w.gen
    BY <2>1, KillType DEF AddDoc, Dwpt
  <2>3. /\ \A u \in States : active'[u] = IF u = s THEN AddDoc(Kill(w, w.gen, kind), d)
                                          ELSE Kill(active[u], w.gen, kind)
        /\ Buffer(w.gen, kind) /\ UNCHANGED <<gen, fullVars>>
    BY <1>3 DEF Index
  <2>4. \A f \in Flushers : pc'[f] = pc[f]
    BY <1>3 DEF Index, ChainType
  <2>5. \A u \in Inited : active[u] \in Dwpt
    BY DEF ChainType, Inited
  <2>6. s \in Inited => w = active[s]
    OBVIOUS
  <2> HIDE DEF w, d
  <2>7. \A u \in States : u # s => (active'[u] # None => u \in Inited) /\ (u \in Inited => active'[u].gen = active[u].gen)
    BY <2>3, <2>5, KillType, KillNone DEF Inited
  <2>8. \A u \in Inited' : (u \in Inited /\ active'[u].gen = active[u].gen) \/ active'[u].gen = gen
    BY <2>1, <2>2, <2>3, <2>6, <2>7 DEF Inited
  <2> QED
    BY <2>3, <2>4, <2>8, OperationGenerations DEF Buffer, fullVars
<1>4. ASSUME NEW kind \in Kinds, Delete(kind) PROVE Generations'
  <2>1. \A u \in Inited : active[u] \in Dwpt
    BY DEF ChainType, Inited
  <2>2. \A u \in States : active'[u] = Kill(active[u], gen, kind)
    BY <1>4 DEF Delete
  <2>3. \A u \in Inited' : u \in Inited /\ active'[u].gen = active[u].gen
    BY <2>1, <2>2, KillType, KillNone DEF Inited
  <2>4. /\ UNCHANGED <<gen, pc, cpc, fullFlush, todo>>
        /\ flushQueue' = [i \in 1..Len(flushQueue) |-> Kill(flushQueue[i], gen, kind)]
        /\ hand' = [f \in Flushers |-> IF pc[f] = "taken" THEN Kill(hand[f], gen, kind) ELSE hand[f]]
    BY <1>4 DEF Delete, fullVars
  <2> QED
    BY <2>3, <2>4, OperationGenerations
<1>5. ASSUME NEW m \in Modes, BeginFullFlush(m) PROVE Generations'
  BY <1>5 DEF BeginFullFlush, Generations, ChainType, Rolling, Taken, Inited, Phase, dwptVars
<1>6. ASSUME NEW f \in Flushers, NextPendingFlush(f) PROVE Generations'
  <2>1. Taken' = Taken \cup {f}
    BY <1>6 DEF NextPendingFlush, ChainType, Taken
  <2>2. UNCHANGED <<gen, cpc, fullFlush, todo>>
    BY <1>6 DEF NextPendingFlush, queueVars, fullVars
  <2>3. \A h \in Flushers : h # f => hand'[h] = hand[h]
    BY <1>6 DEF NextPendingFlush, ChainType
  <2>4. CASE flushQueue # <<>>
    <3>1. Rolling
      BY <2>4 DEF Generations
    <3>2. /\ flushQueue \in Seq(Dwpt) /\ Len(flushQueue) \in Nat /\ Len(flushQueue) > 0
          /\ Head(flushQueue) = flushQueue[1]
      BY <2>4 DEF ChainType
    <3>3. /\ Len(flushQueue') = Len(flushQueue) - 1
          /\ \A i \in 1..Len(flushQueue') : flushQueue'[i] = flushQueue[i + 1] /\ i + 1 \in 1..Len(flushQueue)
      BY <1>6, <2>4, <3>2, HeadTailProperties DEF NextPendingFlush
    <3>4. hand'[f] = flushQueue[1] /\ active' = active
      BY <1>6, <2>4, <3>2 DEF NextPendingFlush, ChainType
    <3>5. \A i \in 1..Len(flushQueue') : flushQueue'[i].gen = gen - 1
      BY <3>1, <3>3 DEF Generations
    <3>6. \A h \in Taken' : hand'[h].gen = gen - 1
      BY <2>1, <2>3, <3>1, <3>2, <3>4 DEF Generations, Taken
    <3> QED
      BY <2>2, <3>1, <3>4, <3>5, <3>6 DEF Generations, Rolling, Inited
  <2>5. CASE flushQueue = <<>>
    <3>1. PICK s \in flushPending : /\ hand' = [hand EXCEPT ![f] = active[s]]
                                    /\ active' = [active EXCEPT ![s] = None]
                                    /\ flushQueue' = flushQueue /\ ~fullFlush
      BY <1>6, <2>5 DEF NextPendingFlush
    <3>2. s \in Inited /\ hand'[f] = active[s]
      BY <3>1 DEF ChainType
    <3>3. ~Rolling /\ active[s].gen = gen
      BY <3>1, <3>2 DEF Phase, Rolling, Generations
    <3>4. \A u \in Inited' : u \in Inited /\ active'[u] = active[u]
      BY <3>1 DEF ChainType, Inited
    <3>5. \A h \in Taken' : hand'[h].gen = gen
      BY <2>1, <2>3, <3>2, <3>3 DEF Generations, Taken
    <3> QED
      BY <2>2, <3>1, <3>3, <3>4, <3>5 DEF Generations, Rolling
  <2> QED
    BY <2>4, <2>5
<1>7. ASSUME NEW f \in Flushers, AddFlushTicket(f) PROVE Generations'
  BY <1>7 DEF AddFlushTicket, Generations, ChainType, Rolling, Taken, Inited, Phase, dwptVars,
     fullVars
<1>8. ASSUME NEW f \in Flushers, FlushDwpt(f) PROVE Generations'
  BY <1>8 DEF FlushDwpt, Generations, ChainType, Rolling, Taken, Inited, Phase, queueVars,
     dwptVars, fullVars
<1>9. ASSUME NEW f \in Flushers, AfterFlush(f) PROVE Generations'
  BY <1>9 DEF AfterFlush, Generations, ChainType, Rolling, Taken, Inited, Phase, LeaveFullFlush,
     queueVars, fullVars
<1>10. ASSUME NEW x \in Actors, ApplyAllDeletesLocal(x) PROVE Generations'
  BY <1>10 DEF ApplyAllDeletesLocal, Generations, ChainType, Rolling, Taken, Inited, Phase,
     queueVars, dwptVars, fullVars
<1>11. ASSUME NEW x \in Actors, AddDeletes(x) PROVE Generations'
  BY <1>11 DEF AddDeletes, Generations, ChainType, Rolling, Taken, Inited, Phase, dwptVars, fullVars
<1>12. ASSUME NEW e \in {"purge", "apply"}, BeginEvent(e) PROVE Generations'
  BY <1>12 DEF BeginEvent, Generations, ChainType, Rolling, Taken, Inited, Phase, queueVars,
     dwptVars, fullVars
<1>13. ASSUME PopHead PROVE Generations'
  BY <1>13 DEF PopHead, Generations, ChainType, Rolling, Taken, Inited, Phase, queueVars,
     dwptVars, fullVars
<1>14. ASSUME PublishPopped PROVE Generations'
  BY <1>14 DEF PublishPopped, Generations, ChainType, Rolling, Taken, Inited, Phase, queueVars,
     dwptVars, fullVars
<1>15. ASSUME EndEvent PROVE Generations'
  BY <1>15 DEF EndEvent, Generations, ChainType, Rolling, Taken, Inited, Phase, queueVars,
     dwptVars, fullVars
<1>16. ASSUME ApplyEvent PROVE Generations'
  BY <1>16 DEF ApplyEvent, Generations, ChainType, Rolling, Taken, Inited, Phase, queueVars,
     dwptVars, fullVars
<1>17. ASSUME NEW s \in States, MarkState(s) PROVE Generations'
  <2>1. \A f \in Flushers : pc'[f] = pc[f]
    BY <1>17 DEF MarkState
  <2>2. UNCHANGED <<gen, hand, fullFlush>> /\ cpc = "mark" /\ todo' = todo \ {s} /\ cpc' \in {"mark", "flush"}
    BY <1>17 DEF MarkState, queueVars
  <2>3. \A u \in Inited : u # s /\ active[u].gen # gen => cpc' = "mark" /\ u \in todo'
    BY <1>17 DEF Generations, MarkState
  <2>4. CASE s \in Inited /\ active[s].gen # gen
    BY <1>17, <2>1, <2>2, <2>3, <2>4, CheckOutGenerations DEF MarkState
  <2>5. CASE ~(s \in Inited /\ active[s].gen # gen)
    <3>1. UNCHANGED <<active, flushQueue>>
      BY <1>17, <2>5 DEF MarkState
    <3> QED
      BY <2>1, <2>2, <2>3, <2>5, <3>1 DEF Generations, Rolling, Taken, Inited
  <2> QED
    BY <2>4, <2>5
<1>18. ASSUME WaitForFlush PROVE Generations'
  <2>1. flushQueue = <<>> /\ \A f \in Flushers : hand[f] = None
    <3>1. flushQueue \in Seq(Dwpt)
      BY DEF ChainType
    <3>2. Len(flushQueue) = 0
      BY <1>18, <3>1 DEF WaitForFlush, FlushingWriters, Elements
    <3>3. \A f \in Flushers : hand[f] = None
      BY <1>18 DEF WaitForFlush, FlushingWriters
    <3> QED
      BY <3>1, <3>2, <3>3, EmptySeq
  <2>2. Taken = {}
    BY <2>1 DEF Taken, ChainType, Busy
  <2> QED
    BY <1>18, <2>1, <2>2 DEF WaitForFlush, Generations, Rolling, Taken, Inited, dwptVars
<1>19. ASSUME ForcePurge PROVE Generations'
  BY <1>19 DEF ForcePurge, Generations, ChainType, Rolling, Taken, Inited, Phase, queueVars,
     dwptVars, fullVars
<1>20. ASSUME EndForcePurge PROVE Generations'
  BY <1>20 DEF EndForcePurge, Generations, ChainType, Rolling, Taken, Inited, Phase, queueVars,
     dwptVars
<1>21. ASSUME ApplyAndSnapshot PROVE Generations'
  BY <1>21 DEF ApplyAndSnapshot, Generations, ChainType, Rolling, Taken, Inited, Phase,
     queueVars, dwptVars
<1>22. ASSUME FinishFullFlush PROVE Generations'
  BY <1>22 DEF FinishFullFlush, Generations, ChainType, Rolling, Taken, Inited, Phase,
     LeaveFullFlush, queueVars, dwptVars
<1> QED
  BY <1>1, <1>2, <1>3, <1>4, <1>5, <1>6, <1>7, <1>8, <1>9, <1>10, <1>11, <1>12, <1>13, <1>14,
     <1>15, <1>16, <1>17, <1>18, <1>19, <1>20, <1>21, <1>22 DEF Next, Operation, Work, Local,
     Events, FullFlush

\* Every step keeps the deletes that are not frozen in the queues of OldQueues.
LEMMA OldQueuesStep ==
  ASSUME Main \notin MayFail, ControlInv, Next
  PROVE  OldQueues'
<1> USE IndexingChainAssumption, NoneAssumption, ActorFacts DEF ControlInv
<1>1. ASSUME NEW s \in States, Obtain(s) PROVE OldQueues'
  BY <1>1 DEF Obtain, OldQueues, ChainType, Rolling, Generations, Inited, Taken, Phase,
     queueVars, fullVars
<1>2. ASSUME NEW s \in States, IndexFails(s) PROVE OldQueues'
  BY <1>2 DEF IndexFails, OldQueues, ChainType, Rolling, Generations, Inited, Taken, Phase,
     queueVars, fullVars
<1>3. ASSUME NEW s \in States, NEW kind \in {"none", "term"}, Index(s,kind) PROVE OldQueues'
  <2> DEFINE w == IF s \in Inited THEN active[s] ELSE NewDwpt(gen)
  <2>1. w.gen = gen \/ (w.gen = gen - 1 /\ cpc = "mark")
    BY DEF Generations, NewDwpt
  <2>2. w.gen \in 1..MaxGen
    BY DEF ChainType, NewDwpt, Inited, Dwpt
  <2>3. pending' = [pending EXCEPT ![w.gen] = @ \cup ({kind} \ {"none"})]
    BY <1>3 DEF Index, Buffer
  <2>4. UNCHANGED <<gen, cpc, helped>> /\ pc'[Main] = pc[Main]
    BY <1>3 DEF Index, ChainType, fullVars
  <2> HIDE DEF w
  <2>5. cpc = "mark" => Rolling /\ ~helped /\ pc[Main] = "idle"
    BY DEF Phase, Rolling
  <2> QED
    BY <2>1, <2>2, <2>3, <2>4, <2>5 DEF OldQueues, ChainType, Rolling
<1>4. ASSUME NEW kind \in Kinds, Delete(kind) PROVE OldQueues'
  <2>1. UNCHANGED <<gen, cpc, helped, pc>>
    BY <1>4 DEF Delete, fullVars
  <2>2. \A g \in 1..MaxGen : g # gen => pending'[g] = pending[g]
    BY <1>4 DEF Delete, ChainType
  <2> QED
    BY <2>1, <2>2 DEF OldQueues, Rolling
<1>5. ASSUME NEW m \in Modes, BeginFullFlush(m) PROVE OldQueues'
  BY <1>5 DEF BeginFullFlush, OldQueues, ChainType, Rolling, Generations, Inited, Taken, Phase
<1>6. ASSUME NEW f \in Flushers, NextPendingFlush(f) PROVE OldQueues'
  BY <1>6 DEF NextPendingFlush, OldQueues, ChainType, Rolling, Generations, Inited, Taken,
     Phase, queueVars, fullVars
<1>7. ASSUME NEW f \in Flushers, AddFlushTicket(f) PROVE OldQueues'
  BY <1>7 DEF AddFlushTicket, OldQueues, ChainType, Rolling, Generations, Inited, Taken,
     AddTicket, Phase, fullVars
<1>8. ASSUME NEW f \in Flushers, FlushDwpt(f) PROVE OldQueues'
  BY <1>8 DEF FlushDwpt, OldQueues, ChainType, Rolling, Generations, Inited, Taken, Phase,
     queueVars, fullVars
<1>9. ASSUME NEW f \in Flushers, AfterFlush(f) PROVE OldQueues'
  BY <1>9 DEF AfterFlush, OldQueues, ChainType, Rolling, Generations, Inited, Taken, Phase,
     LeaveFullFlush, queueVars, fullVars
<1>10. ASSUME NEW x \in Actors, ApplyAllDeletesLocal(x) PROVE OldQueues'
  BY <1>10 DEF ApplyAllDeletesLocal, OldQueues, ChainType, Rolling, Generations, Inited, Taken,
     Phase, queueVars, fullVars
<1>11. ASSUME NEW x \in Actors, AddDeletes(x) PROVE OldQueues'
  BY <1>11 DEF AddDeletes, OldQueues, ChainType, Rolling, Generations, Inited, Taken, AddTicket,
     Phase, fullVars
<1>12. ASSUME NEW e \in {"purge", "apply"}, BeginEvent(e) PROVE OldQueues'
  BY <1>12 DEF BeginEvent, OldQueues, ChainType, Rolling, Generations, Inited, Taken, Phase,
     queueVars, fullVars
<1>13. ASSUME PopHead PROVE OldQueues'
  BY <1>13 DEF PopHead, OldQueues, ChainType, Rolling, Generations, Inited, Taken, Phase,
     queueVars, fullVars
<1>14. ASSUME PublishPopped PROVE OldQueues'
  BY <1>14 DEF PublishPopped, OldQueues, ChainType, Rolling, Generations, Inited, Taken, Phase,
     queueVars, fullVars
<1>15. ASSUME EndEvent PROVE OldQueues'
  BY <1>15 DEF EndEvent, OldQueues, ChainType, Rolling, Generations, Inited, Taken, Phase,
     queueVars, fullVars
<1>16. ASSUME ApplyEvent PROVE OldQueues'
  BY <1>16 DEF ApplyEvent, OldQueues, ChainType, Rolling, Generations, Inited, Taken, Phase,
     queueVars, fullVars
<1>17. ASSUME NEW s \in States, MarkState(s) PROVE OldQueues'
  BY <1>17 DEF MarkState, OldQueues, ChainType, Rolling, Generations, Inited, Taken, Phase,
     queueVars
<1>18. ASSUME WaitForFlush PROVE OldQueues'
  BY <1>18 DEF WaitForFlush, OldQueues, ChainType, Rolling, Generations, Inited, Taken,
     AddTicket, Phase
<1>19. ASSUME ForcePurge PROVE OldQueues'
  BY <1>19 DEF ForcePurge, OldQueues, ChainType, Rolling, Generations, Inited, Taken, Phase,
     queueVars, fullVars
<1>20. ASSUME EndForcePurge PROVE OldQueues'
  BY <1>20 DEF EndForcePurge, OldQueues, ChainType, Rolling, Generations, Inited, Taken, Phase,
     queueVars
<1>21. ASSUME ApplyAndSnapshot PROVE OldQueues'
  BY <1>21 DEF ApplyAndSnapshot, OldQueues, ChainType, Rolling, Generations, Inited, Taken,
     Phase, queueVars
<1>22. ASSUME FinishFullFlush PROVE OldQueues'
  BY <1>22 DEF FinishFullFlush, OldQueues, ChainType, Rolling, Generations, Inited, Taken,
     Phase, LeaveFullFlush, queueVars
<1> QED
  BY <1>1, <1>2, <1>3, <1>4, <1>5, <1>6, <1>7, <1>8, <1>9, <1>10, <1>11, <1>12, <1>13, <1>14,
     <1>15, <1>16, <1>17, <1>18, <1>19, <1>20, <1>21, <1>22 DEF Next, Operation, Work, Local,
     Events, FullFlush

\* The control invariant holds at the start.
LEMMA ControlInit == Init => ControlInv
<1> SUFFICES ASSUME Init PROVE ControlInv
  OBVIOUS
<1> USE IndexingChainAssumption, NoneAssumption, ActorFacts
<1>1. ChainType
  BY TypeInit
<1>2. Len(tickets) = 0 /\ \A i \in 1..Len(tickets) : FALSE
  BY EmptySeq DEF Init
<1>3. Owned
  BY <1>2 DEF Init, Owned
<1> QED
  BY <1>1, <1>3 DEF Init, ControlInv, Phase, Generations, OldQueues, Inited, Rolling, Taken

\* The control invariant is inductive, as long as the flushes of Main do not fail.
LEMMA ControlStep ==
  ASSUME Main \notin MayFail, ControlInv, [Next]_vars
  PROVE  ControlInv'
<1>1. CASE Next
  BY <1>1, TypeStep, OwnedStep, PhaseStep, GenerationsStep, OldQueuesStep DEF ControlInv
<1>2. CASE UNCHANGED vars
  BY <1>2 DEF vars, queueVars, dwptVars, ticketVars, eventVars, indexVars, fullVars, history,
     ControlInv, ChainType, Owned, Phase, Generations, OldQueues, Inited, Rolling, Taken, IsOpen
<1> QED
  BY <1>1, <1>2

\* The control invariant holds in every reachable state: each open ticket has one live owner, a DWPT
\* of an old queue exists only while the full flush that started the new queue enrols and flushes it,
\* and the old queue holds deletes only until Main has frozen it.  The hypothesis is that the flushes
\* of Main do not fail; daemons may fail and documents may fail.
THEOREM ControlCorrect ==
  ASSUME Main \notin MayFail
  PROVE  Spec => []ControlInv
<1>1. ControlInv /\ [Next]_vars => ControlInv'
  BY ControlStep
<1> QED
  BY <1>1, ControlInit, PTL DEF Spec

-----------------------------------------------------------------------------
\* Without a limit on buffered deletes nobody but Main freezes deletes outside of a flush, and
\* once a full flush has purged no ticket is left.
NoTrigger == applyFlag = FALSE /\ \A x \in Actors : pc[x] \notin {"check", "freeze"}
Drained == fullFlush /\ cpc \in {"events", "finish"} => tickets = <<>> /\ popped = None
DrainInv == NoTrigger /\ Drained

\* Without max_buffered_delete_terms no thread ever asks for the deletes to be applied ahead of a
\* flush.
LEMMA NoTriggerStep ==
  ASSUME ~DeleteTrigger, ControlInv, NoTrigger, Next
  PROVE  NoTrigger'
<1> USE IndexingChainAssumption, ActorFacts DEF ControlInv, NoTrigger, ChainType
<1>1. ASSUME NEW s \in States, Obtain(s) PROVE NoTrigger'
  BY <1>1 DEF Obtain
<1>2. ASSUME NEW s \in States, IndexFails(s) PROVE NoTrigger'
  BY <1>2 DEF IndexFails
<1>3. ASSUME NEW s \in States, NEW kind \in {"none", "term"}, Index(s,kind) PROVE NoTrigger'
  BY <1>3 DEF Index, OnDelete
<1>4. ASSUME NEW kind \in Kinds, Delete(kind) PROVE NoTrigger'
  BY <1>4 DEF Delete, OnDelete
<1>5. ASSUME NEW m \in Modes, BeginFullFlush(m) PROVE NoTrigger'
  BY <1>5 DEF BeginFullFlush
<1>6. ASSUME NEW f \in Flushers, NextPendingFlush(f) PROVE NoTrigger'
  BY <1>6 DEF NextPendingFlush
<1>7. ASSUME NEW f \in Flushers, AddFlushTicket(f) PROVE NoTrigger'
  BY <1>7 DEF AddFlushTicket
<1>8. ASSUME NEW f \in Flushers, FlushDwpt(f) PROVE NoTrigger'
  BY <1>8 DEF FlushDwpt
<1>9. ASSUME NEW f \in Flushers, AfterFlush(f) PROVE NoTrigger'
  BY <1>9 DEF AfterFlush
<1>10. ASSUME NEW x \in Actors, ApplyAllDeletesLocal(x) PROVE NoTrigger'
  BY <1>10 DEF ApplyAllDeletesLocal
<1>11. ASSUME NEW x \in Actors, AddDeletes(x) PROVE NoTrigger'
  BY <1>11 DEF AddDeletes
<1>12. ASSUME NEW s \in States, MarkState(s) PROVE NoTrigger'
  BY <1>12 DEF MarkState
<1>13. ASSUME Events PROVE NoTrigger'
  BY <1>13 DEF Events, BeginEvent, PopHead, PublishPopped, EndEvent, ApplyEvent
<1>14. ASSUME WaitForFlush \/ ForcePurge \/ EndForcePurge \/ ApplyAndSnapshot \/ FinishFullFlush PROVE NoTrigger'
  BY <1>14 DEF WaitForFlush, ForcePurge, EndForcePurge, ApplyAndSnapshot, FinishFullFlush
<1> HIDE DEF NoTrigger, ChainType, ControlInv
<1> QED
  BY <1>1, <1>2, <1>3, <1>4, <1>5, <1>6, <1>7, <1>8, <1>9, <1>10, <1>11, <1>12, <1>13, <1>14 DEF
     Next, Operation, Work, Local, FullFlush

\* Every step keeps the ticket queue empty from the end of force_purge until the full flush is
\* finished.
LEMMA DrainedStep ==
  ASSUME Main \notin MayFail, ~DeleteTrigger, ControlInv, DrainInv, Next
  PROVE  Drained'
<1> USE IndexingChainAssumption, NoneAssumption, ActorFacts DEF ControlInv, DrainInv
<1>1. ASSUME NEW s \in States, Obtain(s) PROVE Drained'
  BY <1>1 DEF Obtain, Drained, ticketVars, fullVars
<1>2. ASSUME NEW s \in States, IndexFails(s) PROVE Drained'
  BY <1>2 DEF IndexFails, Drained, ticketVars, fullVars
<1>3. ASSUME NEW s \in States, NEW kind \in {"none", "term"}, Index(s,kind) PROVE Drained'
  BY <1>3 DEF Index, Drained, ticketVars, fullVars
<1>4. ASSUME NEW kind \in Kinds, Delete(kind) PROVE Drained'
  BY <1>4 DEF Delete, Drained, OnDelete, NoTrigger, ticketVars, fullVars
<1>5. ASSUME NEW m \in Modes, BeginFullFlush(m) PROVE Drained'
  BY <1>5 DEF BeginFullFlush, Drained, ticketVars, fullVars
<1>6. ASSUME NEW f \in Flushers, NextPendingFlush(f) PROVE Drained'
  BY <1>6 DEF NextPendingFlush, Drained, ticketVars, fullVars
<1>7. ASSUME NEW f \in Flushers, AddFlushTicket(f) PROVE Drained'
  BY <1>7 DEF AddFlushTicket, Drained, Generations, ChainType, Busy, Rolling, ticketVars, fullVars
<1>8. ASSUME NEW f \in Flushers, FlushDwpt(f) PROVE Drained'
  BY <1>8 DEF FlushDwpt, Drained, Generations, ChainType, Busy, Rolling, ticketVars, fullVars
<1>9. ASSUME NEW f \in Flushers, AfterFlush(f) PROVE Drained'
  BY <1>9 DEF AfterFlush, Drained, LeaveFullFlush, ChainType, Phase, ticketVars, fullVars
<1>10. ASSUME NEW x \in Actors, ApplyAllDeletesLocal(x) PROVE Drained'
  BY <1>10 DEF ApplyAllDeletesLocal, Drained, ticketVars, fullVars
<1>11. ASSUME NEW x \in Actors, AddDeletes(x) PROVE Drained'
  BY <1>11 DEF AddDeletes, Drained, NoTrigger, ticketVars, fullVars
<1>12. ASSUME NEW e \in {"purge", "apply"}, BeginEvent(e) PROVE Drained'
  BY <1>12 DEF BeginEvent, Drained, ticketVars, fullVars
<1>13. ASSUME PopHead PROVE Drained'
  BY <1>13 DEF PopHead, Drained, ticketVars, fullVars
<1>14. ASSUME PublishPopped PROVE Drained'
  BY <1>14 DEF PublishPopped, Drained, ticketVars, fullVars
<1>15. ASSUME EndEvent PROVE Drained'
  BY <1>15 DEF EndEvent, Drained, ticketVars, fullVars
<1>16. ASSUME ApplyEvent PROVE Drained'
  BY <1>16 DEF ApplyEvent, Drained, ticketVars, fullVars
<1>17. ASSUME NEW s \in States, MarkState(s) PROVE Drained'
  BY <1>17 DEF MarkState, Drained, ticketVars, fullVars
<1>18. ASSUME WaitForFlush PROVE Drained'
  BY <1>18 DEF WaitForFlush, Drained, ticketVars, fullVars
<1>19. ASSUME ForcePurge PROVE Drained'
  BY <1>19 DEF ForcePurge, Drained, ticketVars, fullVars
<1>20. ASSUME EndForcePurge PROVE Drained'
  <2>1. tickets \in Seq(Ticket) /\ \A f \in Flushers : hand[f] = None
    BY <1>20 DEF EndForcePurge, Phase, Generations, Rolling, ChainType
  <2>2. ASSUME tickets # <<>> PROVE FALSE
    <3>1. 1 \in 1..Len(tickets) /\ Head(tickets) = tickets[1]
      BY <2>1, <2>2
    <3>2. IsOpen(1)
      BY <1>20, <2>2, <3>1 DEF EndForcePurge, PurgeDone, CanPublish, IsOpen
    <3> QED
      BY <2>1, <3>1, <3>2 DEF Owned, Attached, IsOpen
  <2> QED
    BY <1>20, <2>2 DEF EndForcePurge, PurgeDone, Drained
<1>21. ASSUME ApplyAndSnapshot PROVE Drained'
  BY <1>21 DEF ApplyAndSnapshot, Drained, ticketVars, fullVars
<1>22. ASSUME FinishFullFlush PROVE Drained'
  BY <1>22 DEF FinishFullFlush, Drained, LeaveFullFlush, ticketVars, fullVars
<1> QED
  BY <1>1, <1>2, <1>3, <1>4, <1>5, <1>6, <1>7, <1>8, <1>9, <1>10, <1>11, <1>12, <1>13, <1>14,
     <1>15, <1>16, <1>17, <1>18, <1>19, <1>20, <1>21, <1>22 DEF Next, Operation, Work, Local,
     Events, FullFlush

\* DrainInv is inductive beside the control invariant.
LEMMA DrainStep ==
  ASSUME Main \notin MayFail, ~DeleteTrigger, ControlInv, DrainInv, [Next]_vars
  PROVE  DrainInv'
<1>1. CASE Next
  BY <1>1, NoTriggerStep, DrainedStep DEF DrainInv
<1>2. CASE UNCHANGED vars
  BY <1>2 DEF vars, ticketVars, fullVars, DrainInv, NoTrigger, Drained
<1> QED
  BY <1>1, <1>2

\* The debug_assert! at the end of flush_all_threads holds for any number of threads, daemons,
\* operations and full flushes: the old queue and the ticket queue are empty when the commit is
\* taken.  Without the second hypothesis a thread that read full_flush before the flush began may add
\* a ticket after force_purge.
THEOREM FullFlushDrainedCorrect ==
  ASSUME Main \notin MayFail, ~DeleteTrigger
  PROVE  Spec => []FullFlushDrained
<1>1. Init => DrainInv
  BY ActorFacts DEF Init, DrainInv, NoTrigger, Drained
<1>2. ControlInv /\ DrainInv /\ [Next]_vars => DrainInv'
  BY DrainStep
<1>3. ControlInv /\ DrainInv => FullFlushDrained
  <2> SUFFICES ASSUME ControlInv, DrainInv, cpc = "events", fullFlush PROVE pending[gen - 1] = {}
    BY DEF DrainInv, Drained, FullFlushDrained
  <2>1. gen - 1 \in 1..MaxGen /\ gen - 1 # gen
    BY IndexingChainAssumption DEF ControlInv, ChainType, Phase
  <2> QED
    BY <2>1 DEF ControlInv, OldQueues, Rolling
<1> QED
  BY <1>1, <1>2, <1>3, ControlCorrect, PTL DEF Spec
=============================================================================
