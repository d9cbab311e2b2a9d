-------------------------- MODULE DeletePathProofs --------------------------
(*****************************************************************************)
(* The way of documents and deletes through the indexing chain, proved for   *)
(* any numbers of threads, flush daemons, operations and generations: no     *)
(* document vanishes, and no delete is lost.                                 *)
(*                                                                           *)
(* The argument separates the control from the data.  What is on its way is  *)
(* described by parts: the DWPTs without a ticket, the tickets in the order  *)
(* of publication, the deletes in the queues, the index and the log.         *)
(* StepEffect names the six things that a step can do to these parts (move   *)
(* something along, buffer an operation, freeze a queue, buffer and freeze,  *)
(* publish a ticket, apply the stream), and NextEffect shows with the        *)
(* control invariant of IndexingChainProofs that every action does one of    *)
(* them.  The two invariants, Kills and Carries, are then shown to be kept   *)
(* by each of the six, on the parts alone.                                   *)
(*                                                                           *)
(*   Kills       where a delete is on its way, all the                       *)
(*               documents it can meet are deleted by the                    *)
(*               log, and every document is alive, lost or                   *)
(*               deleted by the log;                                         *)
(*   Carries     a delete of the log that a live document                    *)
(*               has not met is ahead of it on its way, and                  *)
(*               no document is in two places.                               *)
(*****************************************************************************)
EXTENDS IndexingChainProofs

\* The history as a function of the log: Struck is Deletes of IndexingChain with the log as an
\* argument; KilledIn, KilledTo and KilledBy bound the generation of the delete.  KilledBy allows the
\* two ways in which a delete reaches a document: the queue of its own DWPT, or a queue frozen up to
\* generation st.
Struck(lg, d, j) ==
  /\ lg[j].del # "none"
  /\ lg[d].gen < lg[j].gen \/ (lg[d].gen = lg[j].gen /\ d < j)
KilledIn(lg, d, g) == \E j \in 1..Len(lg) : Struck(lg, d, j) /\ lg[j].gen = g
KilledTo(lg, d, g) == \E j \in 1..Len(lg) : Struck(lg, d, j) /\ lg[j].gen <= g
KilledBy(lg, d, st) == KilledTo(lg, d, lg[d].gen) \/ KilledTo(lg, d, st)
Added(lg) == {d \in 1..Len(lg) : lg[d].add}

\* The deletes that a DWPT has taken in are deletes of its queue after its documents.
DwptOK(lg, w) ==
  /\ w.dead \subseteq w.docs /\ w.doomed \subseteq w.docs
  /\ \A d \in w.docs : d \in Added(lg) /\ lg[d].gen = w.gen
  /\ \A d \in w.dead \cup w.doomed : KilledTo(lg, d, w.gen)

\* What is on its way, as functions of its parts: U the DWPTs without a ticket, P the tickets in the
\* order of publication, pd the deletes not yet frozen, ix the index, lg the log, ls the lost
\* documents, sd the youngest generation that has tickets for DWPTs, st the youngest generation that
\* has been frozen.  Wherever a delete is on its way, every document ahead of it is one that the log
\* deletes.
Fresh(U, lg) == \A w \in U : DwptOK(lg, w)
Filed(P, lg, sd) ==
  \A i \in 1..Len(P) : P[i].dwpt # None => DwptOK(lg, P[i].dwpt) /\ P[i].dwpt.gen <= sd
Segments(ix, lg, sd) ==
  /\ \A x \in ix.segs : /\ x.live \subseteq x.docs /\ x.gen < ix.next
                        /\ \A d \in x.docs : d \in Added(lg) /\ lg[d].gen <= sd
  /\ \A p \in Elements(ix.stream) : p.gen < ix.next /\ p.docs \subseteq Added(lg)
QueueKills(P, pd, ix, lg) ==
  \A g \in 1..MaxGen : pd[g] # {} =>
    /\ \E j \in 1..Len(lg) : lg[j].gen = g /\ lg[j].del # "none"
    /\ \A i \in 1..Len(P) : P[i].dwpt # None => \A d \in P[i].dwpt.docs : KilledIn(lg, d, g)
    /\ \A x \in ix.segs : \A d \in x.docs : KilledIn(lg, d, g)
TicketKills(P, ix, lg, st) ==
  \A i \in 1..Len(P) : P[i].dels # {} =>
    /\ \A h \in 1..Len(P) : h < i /\ P[h].dwpt # None => \A d \in P[h].dwpt.docs : KilledTo(lg, d, st)
    /\ \A x \in ix.segs : \A d \in x.docs : KilledTo(lg, d, st)
PacketKills(ix, lg, st) ==
  \A p \in Elements(ix.stream) : \A x \in ix.segs : Applies(p, x) =>
    \A d \in (IF p.private THEN p.docs ELSE x.docs) : KilledBy(lg, d, st)
\* A document is alive in a DWPT, in a ticket or in a segment, or the log deletes it.
AliveIn(U, P, ix, d) ==
  \/ \E w \in U : d \in w.docs \ w.dead
  \/ \E i \in 1..Len(P) : Written(P[i]) /\ d \in P[i].dwpt.docs \ P[i].dwpt.dead
  \/ \E x \in ix.segs : d \in x.live
Accounted(U, P, ix, lg, ls, st) ==
  \A d \in Added(lg) \ ls : AliveIn(U, P, ix, d) \/ KilledBy(lg, d, st)

\* The types of the parts, and the invariant of the way of documents and deletes.
PathType(U, P, pd, ix, lg, sd, st) ==
  /\ U \subseteq Dwpt /\ P \in Seq(Ticket) /\ pd \in [1..MaxGen -> SUBSET {"term", "query"}]
  /\ ix \in Index0 /\ lg \in Seq(Entry) /\ sd \in Nat /\ st \in Nat
Kills(U, P, pd, ix, lg, ls, sd, st) ==
  /\ Fresh(U, lg) /\ Filed(P, lg, sd) /\ Segments(ix, lg, sd) /\ QueueKills(P, pd, ix, lg)
  /\ TicketKills(P, ix, lg, st) /\ PacketKills(ix, lg, st) /\ Accounted(U, P, ix, lg, ls, st)

-----------------------------------------------------------------------------
\* The log is typed, and a later bound admits more deletes.
LEMMA LogFacts ==
  ASSUME NEW lg \in Seq(Entry)
  PROVE  /\ Len(lg) \in Nat
         /\ \A j \in 1..Len(lg) : lg[j].gen \in Nat /\ lg[j].del \in {"none", "term", "query"}
         /\ \A d, g, h : g \in Nat /\ h \in Nat /\ g <= h /\ KilledTo(lg, d, g) => KilledTo(lg, d, h)
         /\ \A d, g, h : g \in Nat /\ h \in Nat /\ g <= h /\ KilledIn(lg, d, g) => KilledTo(lg, d, h)
         /\ \A d, g, h : g \in Nat /\ h \in Nat /\ g <= h /\ KilledBy(lg, d, g) => KilledBy(lg, d, h)
<1>1. Len(lg) \in Nat /\ \A j \in 1..Len(lg) : lg[j] \in Entry
  OBVIOUS
<1>2. \A j \in 1..Len(lg) : lg[j].gen \in Nat /\ lg[j].del \in {"none", "term", "query"}
  BY <1>1 DEF Entry
<1>3. \A d, g, h : g \in Nat /\ h \in Nat /\ g <= h /\ KilledTo(lg, d, g) => KilledTo(lg, d, h)
  BY <1>2 DEF KilledTo
<1>4. \A d, g, h : g \in Nat /\ h \in Nat /\ g <= h /\ KilledIn(lg, d, g) => KilledTo(lg, d, h)
  BY <1>2 DEF KilledTo, KilledIn
<1> QED
  BY <1>1, <1>2, <1>3, <1>4 DEF KilledBy

\* A step that moves a DWPT or a ticket along, or drops documents that are then lost.
Moves(U, U2, P, P2, ls, ls2) ==
  /\ U2 \subseteq U /\ \A w \in U : w \in U2 \/ w.docs \subseteq ls2
  /\ ls \subseteq ls2 /\ Len(P2) = Len(P)
  /\ \A i \in 1..Len(P) : /\ P2[i].dwpt = P[i].dwpt /\ P2[i].dels = P[i].dels
                          /\ Written(P2[i]) => Written(P[i])
                          /\ Written(P[i]) => Written(P2[i]) \/ P[i].dwpt.docs \subseteq ls2

\* Moving a DWPT or a ticket along keeps the invariant.
LEMMA MovesKeep ==
  ASSUME NEW U, NEW P, NEW pd, NEW ix, NEW lg, NEW ls, NEW sd, NEW st,
         NEW U2, NEW P2, NEW ls2, NEW sd2 \in Nat, NEW st2 \in Nat,
         PathType(U, P, pd, ix, lg, sd, st), Kills(U, P, pd, ix, lg, ls, sd, st),
         P2 \in Seq(Ticket), Moves(U, U2, P, P2, ls, ls2), sd <= sd2, st <= st2
  PROVE  Kills(U2, P2, pd, ix, lg, ls2, sd2, st2)
<1> USE DEF PathType, Moves
<1>1. Len(P) \in Nat /\ \A i \in 1..Len(P) : P[i] \in Ticket
  OBVIOUS
<1>2. Fresh(U2, lg)
  BY DEF Kills, Fresh
<1>3. \A w \in Dwpt : w.gen \in Nat
  BY DEF Dwpt
<1>4. Filed(P2, lg, sd2)
  <2> SUFFICES ASSUME NEW i \in 1..Len(P), P[i].dwpt # None
               PROVE  DwptOK(lg, P[i].dwpt) /\ P[i].dwpt.gen <= sd2
    BY DEF Filed
  <2>1. P[i].dwpt \in Dwpt
    BY <1>1 DEF Ticket
  <2>2. DwptOK(lg, P[i].dwpt) /\ P[i].dwpt.gen <= sd
    BY DEF Kills, Filed
  <2> QED
    BY <1>3, <2>1, <2>2
<1>5. Segments(ix, lg, sd2)
  BY LogFacts DEF Kills, Segments, Added
<1>6. QueueKills(P2, pd, ix, lg)
  BY DEF Kills, QueueKills
<1>7. TicketKills(P2, ix, lg, st2)
  BY LogFacts DEF Kills, TicketKills
<1>8. PacketKills(ix, lg, st2)
  BY LogFacts DEF Kills, PacketKills
<1>9. Accounted(U2, P2, ix, lg, ls2, st2)
  <2> SUFFICES ASSUME NEW d \in Added(lg) \ ls2, ~KilledBy(lg, d, st2) PROVE AliveIn(U2, P2, ix, d)
    BY DEF Accounted
  <2>1. AliveIn(U, P, ix, d)
    BY LogFacts DEF Kills, Accounted
  <2> QED
    BY <2>1 DEF AliveIn
<1> QED
  BY <1>2, <1>4, <1>5, <1>6, <1>7, <1>8, <1>9 DEF Kills

-----------------------------------------------------------------------------
\* An operation reaches the DWPTs of its queue, and the queue.
OpEntry(g, add, kind) == [gen |-> g, add |-> add, del |-> kind]
Operates(U, U2, pd, pd2, lg, lg2, g, add, kind) ==
  /\ lg2 = Append(lg, OpEntry(g, add, kind))
  /\ pd2 = [pd EXCEPT ![g] = @ \cup ({kind} \ {"none"})]
  /\ \A v \in U2 : \E w \in U \cup {NewDwpt(g)} :
       \/ v = Kill(w, g, kind)
       \/ add /\ w.gen = g /\ v = AddDoc(Kill(w, g, kind), Len(lg) + 1)
  /\ \A w \in U : \/ Kill(w, g, kind) \in U2
                  \/ add /\ w.gen = g /\ AddDoc(Kill(w, g, kind), Len(lg) + 1) \in U2
  /\ add => \E w \in U \cup {NewDwpt(g)} : w.gen = g /\ AddDoc(Kill(w, g, kind), Len(lg) + 1) \in U2

\* What a document changes in its DWPT.
LEMMA AddDocFacts ==
  ASSUME NEW w \in Dwpt, NEW g, NEW kind, NEW d \in Nat
  PROVE  /\ AddDoc(Kill(w, g, kind), d) \in Dwpt
         /\ AddDoc(Kill(w, g, kind), d).gen = w.gen
         /\ AddDoc(Kill(w, g, kind), d).docs = w.docs \cup {d}
         /\ AddDoc(Kill(w, g, kind), d).dead = Kill(w, g, kind).dead
         /\ AddDoc(Kill(w, g, kind), d).doomed = Kill(w, g, kind).doomed
BY KillType DEF AddDoc, Dwpt

\* A new DWPT is empty and on the queue it is created for.
LEMMA NewDwptFacts ==
  ASSUME NEW g \in 1..MaxGen
  PROVE  /\ NewDwpt(g) \in Dwpt /\ NewDwpt(g).gen = g /\ NewDwpt(g).docs = {}
         /\ NewDwpt(g).dead = {} /\ NewDwpt(g).doomed = {}
BY DEF NewDwpt, Dwpt

\* What the log tells after an operation.
Grown(lg, lg2, g, add, kind) ==
  /\ Len(lg2) = Len(lg) + 1 /\ lg2[Len(lg) + 1].gen = g /\ lg2[Len(lg) + 1].del = kind
  /\ \A j \in 1..Len(lg) : lg2[j] = lg[j]
  /\ Added(lg) \subseteq Added(lg2) /\ (add => Len(lg) + 1 \in Added(lg2))
  /\ \A d \in Added(lg2) : d \in Added(lg) \/ (d = Len(lg) + 1 /\ add)
KillsGrow(lg, lg2, g, kind) ==
  /\ \A d \in 1..Len(lg) : \A h : KilledTo(lg, d, h) => KilledTo(lg2, d, h)
  /\ \A d \in 1..Len(lg) : \A h : KilledIn(lg, d, h) => KilledIn(lg2, d, h)
  /\ \A d \in 1..Len(lg) : \A h : KilledBy(lg, d, h) => KilledBy(lg2, d, h)
  /\ \A d \in 1..Len(lg) : lg[d].gen <= g /\ kind # "none" => KilledIn(lg2, d, g) /\ KilledTo(lg2, d, g)

\* An operation makes the log grow by one entry, and a delete strikes every document of its own and
\* of older generations.
LEMMA OpLog ==
  ASSUME NEW lg \in Seq(Entry), NEW g \in 1..MaxGen, NEW add \in BOOLEAN,
         NEW kind \in {"none", "term", "query"}
  PROVE  LET lg2 == Append(lg, OpEntry(g, add, kind))
         IN lg2 \in Seq(Entry) /\ Grown(lg, lg2, g, add, kind) /\ KillsGrow(lg, lg2, g, kind)
<1> DEFINE e == OpEntry(g, add, kind)
           lg2 == Append(lg, e)
<1>1. e \in Entry /\ e.gen = g /\ e.del = kind /\ g \in Nat
  BY IndexingChainAssumption DEF OpEntry, Entry
<1>2. e.add <=> add
  BY DEF OpEntry
<1> HIDE DEF e
<1>3. /\ Len(lg) \in Nat /\ lg2 \in Seq(Entry) /\ Len(lg2) = Len(lg) + 1 /\ lg2[Len(lg) + 1] = e
      /\ \A j \in 1..Len(lg) : lg2[j] = lg[j] /\ lg[j] \in Entry
  BY <1>1, AppendProperties
<1> HIDE DEF lg2
<1>4. \A j \in 1..Len(lg2) : j \in 1..Len(lg) \/ j = Len(lg) + 1
  BY <1>3
<1>5. Len(lg) + 1 \in 1..Len(lg2) /\ \A j \in 1..Len(lg) : j \in 1..Len(lg2) /\ j < Len(lg) + 1
  BY <1>3
<1>6. /\ Added(lg) \subseteq Added(lg2) /\ (add => Len(lg) + 1 \in Added(lg2))
      /\ \A d \in Added(lg2) : d \in Added(lg) \/ (d = Len(lg) + 1 /\ add)
  BY <1>2, <1>3, <1>4, <1>5 DEF Added
<1>7. \A d, j \in 1..Len(lg) : Struck(lg, d, j) => Struck(lg2, d, j)
  BY <1>3 DEF Struck
<1>8. \A d \in 1..Len(lg) : \A h : KilledTo(lg, d, h) => KilledTo(lg2, d, h)
  BY <1>3, <1>5, <1>7 DEF KilledTo
<1>9. \A d \in 1..Len(lg) : \A h : KilledIn(lg, d, h) => KilledIn(lg2, d, h)
  BY <1>3, <1>5, <1>7 DEF KilledIn
<1>10. \A d \in 1..Len(lg) : \A h : KilledBy(lg, d, h) => KilledBy(lg2, d, h)
  BY <1>3, <1>8 DEF KilledBy
<1>11. \A d \in 1..Len(lg) : lg[d].gen <= g /\ kind # "none" => KilledIn(lg2, d, g) /\ KilledTo(lg2, d, g)
  <2> SUFFICES ASSUME NEW d \in 1..Len(lg), lg[d].gen <= g, kind # "none"
               PROVE  KilledIn(lg2, d, g) /\ KilledTo(lg2, d, g)
    OBVIOUS
  <2>1. lg[d].gen \in Nat
    BY <1>3 DEF Entry
  <2>2. Struck(lg2, d, Len(lg) + 1)
    BY <1>1, <1>3, <1>5, <2>1 DEF Struck
  <2> QED
    BY <1>1, <1>3, <1>5, <2>2 DEF KilledIn, KilledTo
<1>12. Grown(lg, lg2, g, add, kind)
  BY <1>1, <1>3, <1>6 DEF Grown
<1>13. KillsGrow(lg, lg2, g, kind)
  BY <1>8, <1>9, <1>10, <1>11 DEF KillsGrow
<1> QED
  BY <1>3, <1>12, <1>13 DEF lg2, e

\* A DWPT that receives a delete, and the document after it, has taken in nothing but deletes after
\* its documents.
LEMMA ReceiveOK ==
  ASSUME NEW lg \in Seq(Entry), NEW w \in Dwpt, DwptOK(lg, w), NEW g \in 1..MaxGen,
         NEW add \in BOOLEAN, NEW kind \in {"none", "term", "query"}, NEW lg2,
         lg2 = Append(lg, OpEntry(g, add, kind))
  PROVE  /\ DwptOK(lg2, Kill(w, g, kind))
         /\ add /\ w.gen = g => DwptOK(lg2, AddDoc(Kill(w, g, kind), Len(lg) + 1))
<1> DEFINE v == Kill(w, g, kind)
           u == AddDoc(v, Len(lg) + 1)
<1>0. Grown(lg, lg2, g, add, kind) /\ KillsGrow(lg, lg2, g, kind)
  BY OpLog
<1>2. /\ lg2[Len(lg) + 1].gen = g /\ (add => Len(lg) + 1 \in Added(lg2))
      /\ \A j \in 1..Len(lg) : lg2[j] = lg[j]
      /\ Added(lg) \subseteq Added(lg2)
  BY <1>0 DEF Grown
<1>1. \A d \in 1..Len(lg) : \A h : KilledTo(lg, d, h) => KilledTo(lg2, d, h)
  BY <1>0 DEF KillsGrow
<1>13. \A d \in 1..Len(lg) : lg[d].gen <= g /\ kind # "none" => KilledTo(lg2, d, g)
  BY <1>0 DEF KillsGrow
<1>3. Len(lg) \in Nat /\ w.gen \in Nat /\ \A d \in w.docs : d \in 1..Len(lg)
  BY DEF DwptOK, Added, Dwpt
<1>4. /\ v.gen = w.gen /\ v.docs = w.docs
      /\ v.dead = IF w.gen = g /\ kind = "term" THEN w.docs ELSE w.dead
      /\ v.doomed = IF w.gen = g /\ kind = "query" THEN w.docs ELSE w.doomed
  BY KillType
<1>5. u.gen = w.gen /\ u.docs = w.docs \cup {Len(lg) + 1} /\ u.dead = v.dead /\ u.doomed = v.doomed
  BY <1>3, AddDocFacts
<1> HIDE DEF v, u
<1>6. \A d \in w.docs : w.gen = g /\ kind # "none" => KilledTo(lg2, d, w.gen)
  <2> SUFFICES ASSUME NEW d \in w.docs, w.gen = g, kind # "none" PROVE KilledTo(lg2, d, w.gen)
    OBVIOUS
  <2>1. d \in 1..Len(lg) /\ lg[d].gen <= g
    BY <1>3 DEF DwptOK
  <2> QED
    BY <1>13, <2>1
<1>7. \A d \in w.dead \cup w.doomed : KilledTo(lg2, d, w.gen)
  BY <1>1, <1>3 DEF DwptOK
<1>8. v.dead \subseteq v.docs /\ v.doomed \subseteq v.docs /\ \A d \in v.dead \cup v.doomed : KilledTo(lg2, d, w.gen)
  BY <1>4, <1>6, <1>7 DEF DwptOK
<1>9. \A d \in w.docs : d \in Added(lg2) /\ lg2[d].gen = w.gen
  BY <1>2, <1>3 DEF DwptOK
<1>10. add /\ w.gen = g => Len(lg) + 1 \in Added(lg2) /\ lg2[Len(lg) + 1].gen = w.gen
  BY <1>2
<1>11. DwptOK(lg2, v)
  BY <1>4, <1>8, <1>9 DEF DwptOK
<1>12. ASSUME add, w.gen = g PROVE DwptOK(lg2, u)
  BY <1>4, <1>5, <1>8, <1>9, <1>10, <1>12 DEF DwptOK
<1> QED
  BY <1>11, <1>12 DEF u, v

\* An operation keeps the invariant.
LEMMA OperationKeeps ==
  ASSUME NEW U, NEW P, NEW pd, NEW ix, NEW lg, NEW ls, NEW sd, NEW st, NEW U2, NEW pd2, NEW lg2,
         NEW g \in 1..MaxGen, NEW add \in BOOLEAN, NEW kind \in {"none", "term", "query"},
         PathType(U, P, pd, ix, lg, sd, st), Kills(U, P, pd, ix, lg, ls, sd, st),
         Operates(U, U2, pd, pd2, lg, lg2, g, add, kind), sd <= g
  PROVE  Kills(U2, P, pd2, ix, lg2, ls, sd, st)
<1> USE DEF PathType
<1>2. lg2 = Append(lg, OpEntry(g, add, kind))
  BY DEF Operates
<1>1. lg2 \in Seq(Entry) /\ Grown(lg, lg2, g, add, kind) /\ KillsGrow(lg, lg2, g, kind)
  BY <1>2, OpLog
<1>3. /\ g \in Nat /\ Len(lg) \in Nat /\ Len(lg2) = Len(lg) + 1
      /\ lg2[Len(lg) + 1].gen = g /\ lg2[Len(lg) + 1].del = kind
      /\ \A j \in 1..Len(lg) : lg2[j] = lg[j]
  BY <1>1, IndexingChainAssumption DEF Grown
<1>4. /\ Added(lg) \subseteq Added(lg2)
      /\ \A d \in Added(lg2) : d \in Added(lg) \/ (d = Len(lg) + 1 /\ add)
      /\ \A d \in 1..Len(lg) : \A h : KilledTo(lg, d, h) => KilledTo(lg2, d, h)
      /\ \A d \in 1..Len(lg) : \A h : KilledIn(lg, d, h) => KilledIn(lg2, d, h)
      /\ \A d \in 1..Len(lg) : \A h : KilledBy(lg, d, h) => KilledBy(lg2, d, h)
      /\ \A d \in 1..Len(lg) : lg[d].gen <= g /\ kind # "none" => KilledIn(lg2, d, g) /\ KilledTo(lg2, d, g)
  BY <1>1 DEF Grown, KillsGrow
<1>5. NewDwpt(g) \in Dwpt /\ DwptOK(lg, NewDwpt(g))
  BY NewDwptFacts DEF DwptOK
<1>6. Fresh(U2, lg2)
  <2> SUFFICES ASSUME NEW v \in U2 PROVE DwptOK(lg2, v)
    BY DEF Fresh
  <2>1. PICK w \in U \cup {NewDwpt(g)} :
          v = Kill(w, g, kind) \/ (add /\ w.gen = g /\ v = AddDoc(Kill(w, g, kind), Len(lg) + 1))
    BY DEF Operates
  <2>2. w \in Dwpt /\ DwptOK(lg, w)
    BY <1>5, <2>1 DEF Kills, Fresh
  <2> QED
    BY <1>2, <2>1, <2>2, ReceiveOK, ZenonT(40)
<1>7. \A w : DwptOK(lg, w) => DwptOK(lg2, w)
  <2> SUFFICES ASSUME NEW w, DwptOK(lg, w) PROVE DwptOK(lg2, w)
    OBVIOUS
  <2>1. \A d \in w.docs : d \in 1..Len(lg) /\ d \in Added(lg2) /\ lg2[d].gen = w.gen
    BY <1>3, <1>4 DEF DwptOK, Added
  <2>2. \A d \in w.dead \cup w.doomed : d \in 1..Len(lg) /\ KilledTo(lg2, d, w.gen)
    BY <1>4, <2>1 DEF DwptOK
  <2> QED
    BY <2>1, <2>2 DEF DwptOK
<1>8. Filed(P, lg2, sd)
  BY <1>7 DEF Kills, Filed
<1>9. Segments(ix, lg2, sd)
  BY <1>3, <1>4 DEF Kills, Segments, Added
<1>10. \A i \in 1..Len(P) : P[i].dwpt # None => \A d \in P[i].dwpt.docs : d \in 1..Len(lg) /\ lg[d].gen <= sd
  <2> SUFFICES ASSUME NEW i \in 1..Len(P), P[i].dwpt # None
               PROVE  \A d \in P[i].dwpt.docs : d \in 1..Len(lg) /\ lg[d].gen <= sd
    OBVIOUS
  <2> QED
    BY DEF Kills, Filed, DwptOK, Added
<1>11. \A x \in ix.segs : \A d \in x.docs : d \in 1..Len(lg) /\ lg[d].gen <= sd
  BY DEF Kills, Segments, Added
<1>12. \A d \in 1..Len(lg) : lg[d].gen <= sd => lg[d].gen <= g
  BY LogFacts
<1>13. QueueKills(P, pd2, ix, lg2)
  <2> SUFFICES ASSUME NEW h \in 1..MaxGen, pd2[h] # {}
               PROVE  /\ \E j \in 1..Len(lg2) : lg2[j].gen = h /\ lg2[j].del # "none"
                      /\ \A i \in 1..Len(P) : P[i].dwpt # None => \A d \in P[i].dwpt.docs : KilledIn(lg2, d, h)
                      /\ \A x \in ix.segs : \A d \in x.docs : KilledIn(lg2, d, h)
    BY DEF QueueKills
  <2>1. CASE pd[h] # {}
    <3>1. /\ \E j \in 1..Len(lg) : lg[j].gen = h /\ lg[j].del # "none"
          /\ \A i \in 1..Len(P) : P[i].dwpt # None => \A d \in P[i].dwpt.docs : KilledIn(lg, d, h)
          /\ \A x \in ix.segs : \A d \in x.docs : KilledIn(lg, d, h)
      BY <2>1 DEF Kills, QueueKills
    <3>2. \E j \in 1..Len(lg2) : lg2[j].gen = h /\ lg2[j].del # "none"
      BY <1>3, <3>1
    <3> QED
      BY <1>4, <1>10, <1>11, <3>1, <3>2
  <2>2. CASE pd[h] = {}
    <3>1. h = g /\ kind # "none"
      BY <2>2 DEF Operates
    <3>2. Len(lg) + 1 \in 1..Len(lg2) /\ lg2[Len(lg) + 1].gen = g /\ lg2[Len(lg) + 1].del # "none"
      BY <1>3, <3>1
    <3> QED
      BY <1>4, <1>10, <1>11, <1>12, <3>1, <3>2
  <2> QED
    BY <2>1, <2>2
<1>14. TicketKills(P, ix, lg2, st)
  BY <1>4, <1>10, <1>11 DEF Kills, TicketKills
<1>15. PacketKills(ix, lg2, st)
  <2> SUFFICES ASSUME NEW p \in Elements(ix.stream), NEW x \in ix.segs, Applies(p, x),
                      NEW d \in (IF p.private THEN p.docs ELSE x.docs)
               PROVE  KilledBy(lg2, d, st)
    BY DEF PacketKills
  <2>1. KilledBy(lg, d, st)
    BY DEF Kills, PacketKills
  <2>2. d \in 1..Len(lg)
    BY <1>11 DEF Kills, Segments, Added
  <2> QED
    BY <1>4, <2>1, <2>2
<1>16. Accounted(U2, P, ix, lg2, ls, st)
  <2> SUFFICES ASSUME NEW d \in Added(lg2) \ ls, ~KilledBy(lg2, d, st) PROVE AliveIn(U2, P, ix, d)
    BY DEF Accounted
  <2>1. CASE d \in Added(lg)
    <3>1. AliveIn(U, P, ix, d)
      BY <1>4, <2>1 DEF Kills, Accounted, Added
    <3>2. ASSUME NEW w \in U, d \in w.docs \ w.dead PROVE AliveIn(U2, P, ix, d)
      <4>1. w \in Dwpt /\ d \in 1..Len(lg) /\ lg[d].gen = w.gen /\ w.gen \in Nat
        BY <3>2 DEF Kills, Fresh, DwptOK, Added, Dwpt
      <4>2. ~(w.gen = g /\ kind = "term")
        <5> SUFFICES ASSUME w.gen = g, kind = "term" PROVE FALSE
          OBVIOUS
        <5>1. KilledTo(lg2, d, g) /\ lg2[d].gen = g
          BY <1>3, <1>4, <4>1
        <5> QED
          BY <5>1 DEF KilledBy
      <4>3. d \in Kill(w, g, kind).docs \ Kill(w, g, kind).dead
        BY <3>2, <4>1, <4>2, KillType
      <4>4. d \in AddDoc(Kill(w, g, kind), Len(lg) + 1).docs \ AddDoc(Kill(w, g, kind), Len(lg) + 1).dead
        BY <1>3, <4>1, <4>3, AddDocFacts, KillType, SMTT(30)
      <4>5. Kill(w, g, kind) \in U2 \/ AddDoc(Kill(w, g, kind), Len(lg) + 1) \in U2
        BY DEF Operates
      <4> QED
        BY <4>3, <4>4, <4>5 DEF AliveIn
    <3> QED
      BY <3>1, <3>2 DEF AliveIn
  <2>2. CASE d \notin Added(lg)
    <3>1. d = Len(lg) + 1 /\ add
      BY <1>4, <2>2
    <3>2. PICK w \in U \cup {NewDwpt(g)} : AddDoc(Kill(w, g, kind), Len(lg) + 1) \in U2
      BY <3>1 DEF Operates
    <3>3. w \in Dwpt /\ w.dead \subseteq w.docs /\ d \notin w.docs
      BY <1>3, <1>5, <3>1 DEF Kills, Fresh, DwptOK, Added
    <3>4. d \in AddDoc(Kill(w, g, kind), d).docs \ AddDoc(Kill(w, g, kind), d).dead
      BY <1>3, <3>1, <3>3, AddDocFacts, KillType
    <3> QED
      BY <3>1, <3>2, <3>4 DEF AliveIn
  <2> QED
    BY <2>1, <2>2
<1> QED
  BY <1>6, <1>8, <1>9, <1>13, <1>14, <1>15, <1>16 DEF Kills

-----------------------------------------------------------------------------
\* The deletes of queue g are frozen into the ticket t, which takes a DWPT of that queue or none.
Freezes(U, U2, P, P2, pd, pd2, g, t) ==
  /\ P2 = Append(P, t) /\ t.dels = pd[g] /\ pd2 = [pd EXCEPT ![g] = {}]
  /\ U2 \subseteq U /\ \A w \in U : w \in U2 \/ w = t.dwpt
  /\ t.dwpt # None => /\ Written(t) /\ t.dwpt \in U /\ t.dwpt.gen = g
                      /\ \A h \in 1..MaxGen : pd[h] # {} /\ h # g => h > g

\* Freezing a queue into a ticket keeps the invariant: the deletes in front of it stay in front.
LEMMA FreezeKeeps ==
  ASSUME NEW U, NEW P, NEW pd, NEW ix, NEW lg, NEW ls, NEW sd, NEW st, NEW U2, NEW P2, NEW pd2,
         NEW g \in 1..MaxGen, NEW t \in Ticket,
         PathType(U, P, pd, ix, lg, sd, st), Kills(U, P, pd, ix, lg, ls, sd, st),
         Freezes(U, U2, P, P2, pd, pd2, g, t), g <= st, t.dwpt # None => g <= sd
  PROVE  Kills(U2, P2, pd2, ix, lg, ls, sd, st)
<1> DEFINE n == Len(P) + 1
<1> USE DEF PathType
<1>1. /\ Len(P) \in Nat /\ Len(P2) = n /\ P2[n] = t /\ g \in Nat
      /\ \A i \in 1..Len(P) : P2[i] = P[i]
  BY AppendProperties, IndexingChainAssumption DEF Freezes
<1>2. \A i \in 1..Len(P2) : i \in 1..Len(P) \/ i = n
  BY <1>1
<1>3. n \in 1..Len(P2) /\ \A i \in 1..Len(P) : i \in 1..Len(P2) /\ ~(n < i)
  BY <1>1
<1> HIDE DEF n
<1>4. t.dwpt # None => DwptOK(lg, t.dwpt) /\ t.dwpt.gen = g
  BY DEF Freezes, Kills, Fresh
<1>5. Fresh(U2, lg)
  BY DEF Kills, Fresh, Freezes
<1>6. Filed(P2, lg, sd)
  BY <1>1, <1>2, <1>4 DEF Kills, Filed
<1>7. QueueKills(P2, pd2, ix, lg)
  <2> SUFFICES ASSUME NEW h \in 1..MaxGen, pd2[h] # {}
               PROVE  /\ \E j \in 1..Len(lg) : lg[j].gen = h /\ lg[j].del # "none"
                      /\ \A i \in 1..Len(P2) : P2[i].dwpt # None => \A d \in P2[i].dwpt.docs : KilledIn(lg, d, h)
                      /\ \A x \in ix.segs : \A d \in x.docs : KilledIn(lg, d, h)
    BY DEF QueueKills
  <2>1. h # g /\ pd[h] # {}
    BY DEF Freezes
  <2>2. /\ \E j \in 1..Len(lg) : lg[j].gen = h /\ lg[j].del # "none"
        /\ \A i \in 1..Len(P) : P[i].dwpt # None => \A d \in P[i].dwpt.docs : KilledIn(lg, d, h)
        /\ \A x \in ix.segs : \A d \in x.docs : KilledIn(lg, d, h)
    BY <2>1 DEF Kills, QueueKills
  <2>3. ASSUME t.dwpt # None, NEW d \in t.dwpt.docs PROVE KilledIn(lg, d, h)
    <3>1. PICK j \in 1..Len(lg) : lg[j].gen = h /\ lg[j].del # "none"
      BY <2>2
    <3>2. h > g /\ lg[d].gen = g
      BY <1>4, <2>1, <2>3 DEF Freezes, DwptOK
    <3> QED
      BY <1>1, <3>1, <3>2 DEF KilledIn, Struck
  <2> QED
    BY <1>1, <1>2, <2>2, <2>3
<1>8. TicketKills(P2, ix, lg, st)
  <2> SUFFICES ASSUME NEW i \in 1..Len(P2), P2[i].dels # {}
               PROVE  /\ \A h \in 1..Len(P2) : h < i /\ P2[h].dwpt # None => \A d \in P2[h].dwpt.docs : KilledTo(lg, d, st)
                      /\ \A x \in ix.segs : \A d \in x.docs : KilledTo(lg, d, st)
    BY DEF TicketKills
  <2>1. CASE i \in 1..Len(P)
    BY <1>1, <1>2, <1>3, <2>1 DEF Kills, TicketKills
  <2>2. CASE i = n
    <3>1. pd[g] # {}
      BY <1>1, <2>2 DEF Freezes
    <3>2. /\ \A k \in 1..Len(P) : P[k].dwpt # None => \A d \in P[k].dwpt.docs : KilledTo(lg, d, st)
          /\ \A x \in ix.segs : \A d \in x.docs : KilledTo(lg, d, st)
      BY <1>1, <3>1, LogFacts DEF Kills, QueueKills
    <3>3. ~(n < n)
      BY <1>1 DEF n
    <3> QED
      BY <1>1, <1>2, <2>2, <3>2, <3>3
  <2> QED
    BY <1>2, <2>1, <2>2
<1>9. Accounted(U2, P2, ix, lg, ls, st)
  <2> SUFFICES ASSUME NEW d \in Added(lg) \ ls, ~KilledBy(lg, d, st) PROVE AliveIn(U2, P2, ix, d)
    BY DEF Accounted
  <2>1. AliveIn(U, P, ix, d)
    BY DEF Kills, Accounted
  <2>2. ASSUME NEW w \in U, d \in w.docs \ w.dead PROVE AliveIn(U2, P2, ix, d)
    <3>1. w \in Dwpt /\ w # None
      BY NoneAssumption
    <3> QED
      BY <1>1, <1>3, <2>2, <3>1 DEF AliveIn, Freezes
  <2> QED
    BY <1>1, <1>3, <2>1, <2>2 DEF AliveIn
<1> QED
  BY <1>5, <1>6, <1>7, <1>8, <1>9 DEF Kills

-----------------------------------------------------------------------------
\* The elements of a sequence with one more.
LEMMA ElementsAppend ==
  ASSUME NEW S, NEW q \in Seq(S), NEW e \in S
  PROVE  Elements(Append(q, e)) = Elements(q) \cup {e}
<1>1. /\ Len(q) \in Nat /\ Len(Append(q, e)) = Len(q) + 1 /\ Append(q, e)[Len(q) + 1] = e
      /\ \A i \in 1..Len(q) : Append(q, e)[i] = q[i]
  BY AppendProperties
<1>2. /\ \A i \in 1..Len(q) + 1 : i \in 1..Len(q) \/ i = Len(q) + 1
      /\ Len(q) + 1 \in 1..Len(q) + 1 /\ \A i \in 1..Len(q) : i \in 1..Len(q) + 1
  BY <1>1
<1> QED
  BY <1>1, <1>2 DEF Elements

\* The packets and the segment that a ticket becomes.
Global(n, dels) == [gen |-> n, dels |-> dels, private |-> FALSE, docs |-> {}]
Private(n, docs) == [gen |-> n, dels |-> {"query"}, private |-> TRUE, docs |-> docs]
SegmentOf(w, n) == [docs |-> w.docs, live |-> w.docs \ w.dead, gen |-> n]
After(ix, t) == IF t.dels = {} THEN ix.next ELSE ix.next + 1
Published(ix, ix2, t) ==
  /\ ix2.segs = ix.segs \cup (IF t.status = "ready" THEN {SegmentOf(t.dwpt, After(ix, t))} ELSE {})
  /\ ix2.next = IF t.status = "ready" THEN After(ix, t) + 1 ELSE After(ix, t)
  /\ Elements(ix2.stream) = Elements(ix.stream)
       \cup (IF t.dels = {} THEN {} ELSE {Global(ix.next, t.dels)})
       \cup (IF t.status = "ready" /\ t.dwpt.doomed # {} THEN {Private(After(ix, t), t.dwpt.doomed)} ELSE {})

\* BufferedUpdatesStream::push adds one packet.
LEMMA PushParts ==
  ASSUME NEW ix \in Index0, NEW p \in Packet, NEW ix2,
         ix2 = [ix EXCEPT !.stream = Append(@, p), !.next = @ + 1]
  PROVE  /\ ix2 \in Index0 /\ ix2.segs = ix.segs /\ ix2.next = ix.next + 1
         /\ Elements(ix2.stream) = Elements(ix.stream) \cup {p}
<1>1. ix.stream \in Seq(Packet) /\ ix.next \in Nat /\ ix.segs \in SUBSET Segment
  BY DEF Index0
<1>2. Append(ix.stream, p) \in Seq(Packet)
  BY <1>1
<1>3. /\ ix2.segs = ix.segs /\ ix2.next = ix.next + 1 /\ ix2.stream = Append(ix.stream, p)
      /\ ix2 = [segs |-> ix.segs, stream |-> Append(ix.stream, p), next |-> ix.next + 1]
  BY DEF Index0
<1>4. ix2 \in Index0
  <2> DEFINE q == Append(ix.stream, p)
             n == ix.next + 1
  <2>1. q \in Seq(Packet)
    BY <1>2
  <2>2. n \in Nat
    BY <1>1
  <2>3. ix2 = [ix EXCEPT !.stream = q, !.next = n]
    OBVIOUS
  <2> HIDE DEF q, n
  <2> QED
    BY <1>1, <2>1, <2>2, <2>3 DEF Index0
<1> QED
  BY <1>1, <1>3, <1>4, ElementsAppend

\* Publish turns a ticket into the packet it froze, the segment and its private packet, in that order
\* of generations.
LEMMA PublishParts ==
  ASSUME NEW ix \in Index0, NEW t \in Ticket, t.status = "ready" => t.dwpt # None
  PROVE  Published(ix, Publish(ix, t), t)
<1> DEFINE glob == PushGlobal(ix, t.dels)
<1>1. ix.next \in Nat /\ ix.stream \in Seq(Packet) /\ t.dels \in SUBSET {"term", "query"}
  BY DEF Index0, Ticket
<1>2. Global(ix.next, t.dels) \in Packet
  BY <1>1 DEF Global, Packet
<1>3. /\ glob \in Index0 /\ glob.segs = ix.segs /\ glob.next = After(ix, t)
      /\ Elements(glob.stream) = Elements(ix.stream) \cup (IF t.dels = {} THEN {} ELSE {Global(ix.next, t.dels)})
  <2>1. CASE t.dels = {}
    BY <2>1 DEF PushGlobal, After
  <2>2. CASE t.dels # {}
    <3>1. glob = Push(ix, t.dels, FALSE, {})
      BY <2>2 DEF PushGlobal
    <3>2. glob = [ix EXCEPT !.stream = Append(@, Global(ix.next, t.dels)), !.next = @ + 1]
      BY <3>1 DEF Push, Global
    <3> HIDE DEF glob
    <3> QED
      BY <1>2, <2>2, <3>2, PushParts, ZenonT(40) DEF After
  <2> QED
    BY <2>1, <2>2
<1> HIDE DEF glob
<1>4. CASE t.status # "ready"
  BY <1>3, <1>4 DEF Publish, Published, glob
<1>5. CASE t.status = "ready"
  <2> DEFINE seg == [docs |-> t.dwpt.docs, live |-> t.dwpt.docs \ t.dwpt.dead, gen |-> glob.next]
             priv == IF t.dwpt.doomed = {} THEN [glob EXCEPT !.next = @ + 1]
                     ELSE Push(glob, {"query"}, TRUE, t.dwpt.doomed)
  <2>1. t.dwpt \in Dwpt /\ t.dwpt.doomed \in SUBSET Nat /\ glob.stream \in Seq(Packet) /\ glob.next \in Nat
    BY <1>3, <1>5 DEF Ticket, Dwpt, Index0
  <2>2. seg = SegmentOf(t.dwpt, After(ix, t))
    BY <1>3 DEF SegmentOf
  <2>3. Publish(ix, t) = [priv EXCEPT !.segs = @ \cup {seg}]
    BY <1>5 DEF Publish, glob
  <2>4. /\ priv \in Index0 /\ priv.segs = ix.segs /\ priv.next = glob.next + 1
        /\ Elements(priv.stream) = Elements(glob.stream)
             \cup (IF t.dwpt.doomed # {} THEN {Private(glob.next, t.dwpt.doomed)} ELSE {})
    <3>1. CASE t.dwpt.doomed = {}
      <4>1. priv = [glob EXCEPT !.next = @ + 1]
        BY <3>1
      <4> QED
        BY <1>3, <3>1, <4>1 DEF Index0
    <3>2. CASE t.dwpt.doomed # {}
      <4>1. priv = Push(glob, {"query"}, TRUE, t.dwpt.doomed)
        BY <3>2
      <4>2. priv = [glob EXCEPT !.stream = Append(@, Private(glob.next, t.dwpt.doomed)), !.next = @ + 1]
        BY <4>1 DEF Push, Private
      <4>3. Private(glob.next, t.dwpt.doomed) \in Packet
        BY <2>1 DEF Private, Packet
      <4> HIDE DEF priv
      <4>4. /\ priv \in Index0 /\ priv.segs = glob.segs /\ priv.next = glob.next + 1
            /\ Elements(priv.stream) = Elements(glob.stream) \cup {Private(glob.next, t.dwpt.doomed)}
        BY <1>3, <4>2, <4>3, PushParts, ZenonT(40)
      <4> QED
        BY <1>3, <3>2, <4>4
    <3> QED
      BY <3>1, <3>2
  <2> HIDE DEF priv, seg
  <2>5. /\ Publish(ix, t).segs = priv.segs \cup {seg} /\ Publish(ix, t).next = priv.next
        /\ Publish(ix, t).stream = priv.stream
    BY <2>3, <2>4 DEF Index0
  <2> QED
    BY <1>3, <1>5, <2>2, <2>4, <2>5 DEF Published
<1> QED
  BY <1>4, <1>5

\* The packets of the stream are typed.
LEMMA StreamElements ==
  ASSUME NEW ix \in Index0
  PROVE  \A p \in Elements(ix.stream) : p \in Packet /\ p.gen \in Nat
<1>1. ix.stream \in Seq(Packet)
  BY DEF Index0
<1>2. \A p \in Elements(ix.stream) : p \in Packet
  BY <1>1 DEF Elements
<1> QED
  BY <1>2 DEF Packet

\* The first ticket of the pipeline leaves it.
Leaves(P, P2) ==
  /\ Len(P) > 0 /\ Len(P2) = Len(P) - 1 /\ \A i \in 1..Len(P2) : P2[i] = P[i + 1]

\* The positions of the tickets after the first one has left.
LEMMA LeavesFacts ==
  ASSUME NEW P \in Seq(Ticket), NEW P2, Leaves(P, P2)
  PROVE  /\ 1 \in 1..Len(P)
         /\ \A i \in 1..Len(P2) : i + 1 \in 1..Len(P) /\ 1 < i + 1 /\ P2[i] = P[i + 1]
         /\ \A h, i \in 1..Len(P2) : h < i => h + 1 < i + 1
         /\ \A i \in 1..Len(P) : i = 1 \/ (i - 1 \in 1..Len(P2) /\ P[i] = P2[i - 1])
<1>1. Len(P) \in Nat
  OBVIOUS
<1>2. 1 \in 1..Len(P) /\ \A i \in 1..Len(P2) : i + 1 \in 1..Len(P) /\ 1 < i + 1 /\ P2[i] = P[i + 1]
  BY <1>1 DEF Leaves
<1>3. \A i \in 1..Len(P) : i = 1 \/ (i - 1 \in 1..Len(P2) /\ (i - 1) + 1 = i)
  BY <1>1 DEF Leaves
<1>4. \A h, i \in 1..Len(P2) : h < i => h + 1 < i + 1
  BY <1>1 DEF Leaves
<1> QED
  BY <1>2, <1>3, <1>4

\* Publishing the first ticket keeps the invariant: its packet is older than its segment, and younger
\* than every segment before.
LEMMA PublishKeeps ==
  ASSUME NEW U, NEW P, NEW pd, NEW ix, NEW lg, NEW ls, NEW sd, NEW st, NEW P2, NEW ix2,
         PathType(U, P, pd, ix, lg, sd, st), Kills(U, P, pd, ix, lg, ls, sd, st),
         Leaves(P, P2), Attached(P[1]), P[1].status # "open", Published(ix, ix2, P[1])
  PROVE  Kills(U, P2, pd, ix2, lg, ls, sd, st)
<1> DEFINE t == P[1]
           n == After(ix, t)
           seg == SegmentOf(t.dwpt, n)
<1> USE DEF PathType
<1>1. /\ 1 \in 1..Len(P) /\ \A i \in 1..Len(P2) : i + 1 \in 1..Len(P) /\ 1 < i + 1 /\ P2[i] = P[i + 1]
      /\ \A h, i \in 1..Len(P2) : h < i => h + 1 < i + 1
      /\ \A i \in 1..Len(P) : i = 1 \/ (i - 1 \in 1..Len(P2) /\ P[i] = P2[i - 1])
  BY LeavesFacts, ZenonT(40)
<1>2. t \in Ticket /\ ix.next \in Nat /\ n \in Nat /\ ix.next <= n /\ (t.dels # {} => ix.next < n)
  BY <1>1 DEF Index0, After
<1>3. /\ t.dwpt # None => DwptOK(lg, t.dwpt) /\ t.dwpt.gen <= sd /\ t.dwpt \in Dwpt
      /\ t.status = "ready" => t.dwpt # None
      /\ Written(t) => t.status = "ready"
  BY <1>1, <1>2 DEF Kills, Filed, Attached, Ticket, Written
<1>4. seg.docs = t.dwpt.docs /\ seg.live = t.dwpt.docs \ t.dwpt.dead /\ seg.gen = n
  BY DEF SegmentOf
<1>5. /\ \A x \in ix2.segs : x \in ix.segs \/ (t.status = "ready" /\ x = seg)
      /\ ix.segs \subseteq ix2.segs /\ (t.status = "ready" => seg \in ix2.segs)
      /\ ix2.next \in Nat /\ n <= ix2.next /\ (t.status = "ready" => n < ix2.next)
  BY <1>2 DEF Published
<1>6. \A p \in Elements(ix2.stream) :
        \/ p \in Elements(ix.stream)
        \/ t.dels # {} /\ p = Global(ix.next, t.dels)
        \/ t.status = "ready" /\ p = Private(n, t.dwpt.doomed)
  BY DEF Published
<1> HIDE DEF t, n, seg
<1>7. \A x \in ix.segs : x.gen \in Nat /\ x.gen < ix.next
  BY DEF Index0, Segment, Kills, Segments
<1>8. \A p \in Elements(ix.stream) : p.gen \in Nat /\ p.gen < ix.next
  BY StreamElements DEF Kills, Segments
<1>9. Filed(P2, lg, sd)
  BY <1>1 DEF Kills, Filed
<1>10. \A x \in ix2.segs : /\ x.live \subseteq x.docs /\ x.gen < ix2.next
                           /\ \A d \in x.docs : d \in Added(lg) /\ lg[d].gen <= sd
  <2> SUFFICES ASSUME NEW x \in ix2.segs
               PROVE  /\ x.live \subseteq x.docs /\ x.gen < ix2.next
                      /\ \A d \in x.docs : d \in Added(lg) /\ lg[d].gen <= sd
    OBVIOUS
  <2>1. CASE x \in ix.segs
    BY <1>2, <1>5, <1>7, <2>1 DEF Kills, Segments
  <2>2. CASE t.status = "ready" /\ x = seg
    BY <1>3, <1>4, <1>5, <2>2 DEF DwptOK
  <2> QED
    BY <1>5, <2>1, <2>2
<1>11. \A p \in Elements(ix2.stream) : p.gen < ix2.next /\ p.docs \subseteq Added(lg)
  <2> SUFFICES ASSUME NEW p \in Elements(ix2.stream) PROVE p.gen < ix2.next /\ p.docs \subseteq Added(lg)
    OBVIOUS
  <2>1. CASE p \in Elements(ix.stream)
    BY <1>2, <1>5, <1>8, <2>1 DEF Kills, Segments
  <2>2. CASE t.dels # {} /\ p = Global(ix.next, t.dels)
    BY <1>2, <1>5, <2>2 DEF Global
  <2>3. CASE t.status = "ready" /\ p = Private(n, t.dwpt.doomed)
    BY <1>3, <1>5, <2>3 DEF Private, DwptOK
  <2> QED
    BY <1>6, <2>1, <2>2, <2>3
<1>12. Segments(ix2, lg, sd)
  BY <1>10, <1>11 DEF Segments
<1>13. QueueKills(P2, pd, ix2, lg)
  <2> SUFFICES ASSUME NEW h \in 1..MaxGen, pd[h] # {}
               PROVE  /\ \E j \in 1..Len(lg) : lg[j].gen = h /\ lg[j].del # "none"
                      /\ \A i \in 1..Len(P2) : P2[i].dwpt # None => \A d \in P2[i].dwpt.docs : KilledIn(lg, d, h)
                      /\ \A x \in ix2.segs : \A d \in x.docs : KilledIn(lg, d, h)
    BY DEF QueueKills
  <2>1. /\ \E j \in 1..Len(lg) : lg[j].gen = h /\ lg[j].del # "none"
        /\ \A i \in 1..Len(P) : P[i].dwpt # None => \A d \in P[i].dwpt.docs : KilledIn(lg, d, h)
        /\ \A x \in ix.segs : \A d \in x.docs : KilledIn(lg, d, h)
    BY DEF Kills, QueueKills
  <2> QED
    BY <1>1, <1>3, <1>4, <1>5, <2>1, SMTT(30) DEF t
<1>14. TicketKills(P2, ix2, lg, st)
  <2> SUFFICES ASSUME NEW i \in 1..Len(P2), P2[i].dels # {}
               PROVE  /\ \A h \in 1..Len(P2) : h < i /\ P2[h].dwpt # None => \A d \in P2[h].dwpt.docs : KilledTo(lg, d, st)
                      /\ \A x \in ix2.segs : \A d \in x.docs : KilledTo(lg, d, st)
    BY DEF TicketKills
  <2>1. i + 1 \in 1..Len(P) /\ P[i + 1].dels # {} /\ 1 < i + 1
    BY <1>1
  <2>2. /\ \A h \in 1..Len(P) : h < i + 1 /\ P[h].dwpt # None => \A d \in P[h].dwpt.docs : KilledTo(lg, d, st)
        /\ \A x \in ix.segs : \A d \in x.docs : KilledTo(lg, d, st)
    BY <2>1 DEF Kills, TicketKills
  <2>3. t.dwpt # None => \A d \in t.dwpt.docs : KilledTo(lg, d, st)
    BY <1>1, <2>1, <2>2 DEF t
  <2>4. \A x \in ix2.segs : \A d \in x.docs : KilledTo(lg, d, st)
    BY <1>3, <1>4, <1>5, <2>2, <2>3
  <2>5. \A h \in 1..Len(P2) : h < i /\ P2[h].dwpt # None => \A d \in P2[h].dwpt.docs : KilledTo(lg, d, st)
    BY <1>1, <2>2, SMTT(30)
  <2> QED
    BY <2>4, <2>5
<1>15. PacketKills(ix2, lg, st)
  <2> SUFFICES ASSUME NEW p \in Elements(ix2.stream), NEW x \in ix2.segs, Applies(p, x),
                      NEW d \in (IF p.private THEN p.docs ELSE x.docs)
               PROVE  KilledBy(lg, d, st)
    BY DEF PacketKills
  <2>1. CASE p \in Elements(ix.stream)
    <3>1. x \in ix.segs
      BY <1>2, <1>4, <1>5, <1>8, <2>1 DEF Applies
    <3> QED
      BY <2>1, <3>1 DEF Kills, PacketKills
  <2>2. CASE t.dels # {} /\ p = Global(ix.next, t.dels)
    <3>1. ~p.private /\ p.gen = ix.next
      BY <2>2 DEF Global
    <3>2. x \in ix.segs
      BY <1>2, <1>4, <1>5, <2>2, <3>1 DEF Applies
    <3> QED
      BY <1>1, <2>2, <3>1, <3>2 DEF Kills, TicketKills, KilledBy, t
  <2>3. CASE t.status = "ready" /\ p = Private(n, t.dwpt.doomed)
    <3>1. p.private /\ p.docs = t.dwpt.doomed
      BY <2>3 DEF Private
    <3> QED
      BY <1>3, <2>3, <3>1 DEF DwptOK, KilledBy
  <2> QED
    BY <1>6, <2>1, <2>2, <2>3
<1>16. Accounted(U, P2, ix2, lg, ls, st)
  <2> SUFFICES ASSUME NEW d \in Added(lg) \ ls, ~KilledBy(lg, d, st) PROVE AliveIn(U, P2, ix2, d)
    BY DEF Accounted
  <2>1. AliveIn(U, P, ix, d)
    BY DEF Kills, Accounted
  <2>2. ASSUME NEW i \in 1..Len(P), Written(P[i]), d \in P[i].dwpt.docs \ P[i].dwpt.dead PROVE AliveIn(U, P2, ix2, d)
    <3>1. CASE i = 1
      BY <1>3, <1>4, <1>5, <2>2, <3>1 DEF AliveIn, t
    <3>2. CASE i # 1
      BY <1>1, <2>2, <3>2 DEF AliveIn
    <3> QED
      BY <3>1, <3>2
  <2> QED
    BY <1>5, <2>1, <2>2 DEF AliveIn
<1> QED
  BY <1>9, <1>12, <1>13, <1>14, <1>15, <1>16 DEF Kills

-----------------------------------------------------------------------------
\* The stream is applied to all the segments or to none, and pruned.
Applied(ix, ix2) ==
  /\ ix2.next = ix.next + 1
  /\ Elements(ix2.stream) \subseteq Elements(ix.stream)
  /\ \A p \in Elements(ix.stream) : p \in Elements(ix2.stream) \/ \A x \in ix2.segs : p.gen < x.gen
  /\ \/ ix2.segs = ix.segs
     \/ /\ \A y \in ix2.segs : \E x \in ix.segs : y = Stamp(ix, x)
        /\ \A x \in ix.segs : Stamp(ix, x) \in ix2.segs \/ Stamp(ix, x).live = {}

\* ApplyAllDeletes does what Applied says.
LEMMA ApplyApplied ==
  ASSUME NEW ix \in Index0
  PROVE  Applied(ix, ApplyAllDeletes(ix))
<1> DEFINE ix2 == ApplyAllDeletes(ix)
<1>1. ix2.segs = Kept(ix) /\ ix2.next = ix.next + 1
  BY ApplyParts
<1>2. PICK n \in 0..Len(ix.stream) :
        /\ ix2.stream = SubSeq(ix.stream, n + 1, Len(ix.stream))
        /\ \A i \in 1..n : \A seg \in Kept(ix) : ix.stream[i].gen < seg.gen
  BY ApplyParts
<1> HIDE DEF ix2
<1>3. ix.stream \in Seq(Packet) /\ Len(ix.stream) \in Nat
  BY DEF Index0
<1>4. /\ Len(ix2.stream) = Len(ix.stream) - n
      /\ \A i \in 1..Len(ix.stream) - n : ix2.stream[i] = ix.stream[n + i]
  BY <1>2, <1>3
<1>5. Elements(ix2.stream) \subseteq Elements(ix.stream)
  <2>1. \A i \in 1..Len(ix.stream) - n : n + i \in 1..Len(ix.stream)
    BY <1>3
  <2> QED
    BY <1>4, <2>1 DEF Elements
<1>6. \A p \in Elements(ix.stream) : p \in Elements(ix2.stream) \/ \A x \in ix2.segs : p.gen < x.gen
  <2> SUFFICES ASSUME NEW i \in 1..Len(ix.stream)
               PROVE  ix.stream[i] \in Elements(ix2.stream) \/ \A x \in ix2.segs : ix.stream[i].gen < x.gen
    BY DEF Elements
  <2>1. CASE i <= n
    BY <1>1, <1>2, <2>1
  <2>2. CASE n < i
    <3>1. i - n \in 1..Len(ix.stream) - n /\ n + (i - n) = i
      BY <1>3, <2>2
    <3> QED
      BY <1>4, <3>1 DEF Elements
  <2> QED
    BY <2>1, <2>2
<1>7. \/ ix2.segs = ix.segs
      \/ /\ \A y \in ix2.segs : \E x \in ix.segs : y = Stamp(ix, x)
         /\ \A x \in ix.segs : Stamp(ix, x) \in ix2.segs \/ Stamp(ix, x).live = {}
  BY <1>1 DEF Kept
<1> QED
  BY <1>1, <1>5, <1>6, <1>7 DEF Applied, ix2

\* Applying and pruning the stream keeps the invariant: no document dies that the log does not
\* delete.
LEMMA ApplyKeeps ==
  ASSUME NEW U, NEW P, NEW pd, NEW ix, NEW lg, NEW ls, NEW sd, NEW st, NEW ix2,
         PathType(U, P, pd, ix, lg, sd, st), Kills(U, P, pd, ix, lg, ls, sd, st), Applied(ix, ix2)
  PROVE  Kills(U, P, pd, ix2, lg, ls, sd, st)
<1> USE DEF PathType
<1>1. ix.next \in Nat /\ ix2.next = ix.next + 1 /\ Elements(ix2.stream) \subseteq Elements(ix.stream)
  BY DEF Applied, Index0
<1>2. \A x \in ix.segs : x \in Segment /\ x.gen \in Nat /\ x.gen < ix.next
  BY DEF Index0, Segment, Kills, Segments
<1>3. \A p \in Elements(ix.stream) : p.gen \in Nat /\ p.gen < ix.next
  BY StreamElements DEF Kills, Segments
<1>4. \A x \in ix.segs : Stamp(ix, x).docs = x.docs /\ Stamp(ix, x).live = x.live \ Deleted(ix, x) /\ Stamp(ix, x).gen = ix.next
  BY <1>2 DEF Stamp, Segment
<1>5. CASE ix2.segs = ix.segs
  <2>1. Segments(ix2, lg, sd)
    BY <1>1, <1>2, <1>3, <1>5 DEF Kills, Segments
  <2>2. QueueKills(P, pd, ix2, lg) /\ TicketKills(P, ix2, lg, st)
    BY <1>5 DEF Kills, QueueKills, TicketKills
  <2>3. PacketKills(ix2, lg, st)
    BY <1>1, <1>5 DEF Kills, PacketKills
  <2>4. Accounted(U, P, ix2, lg, ls, st)
    BY <1>5 DEF Kills, Accounted, AliveIn
  <2> QED
    BY <2>1, <2>2, <2>3, <2>4 DEF Kills
<1>6. CASE /\ \A y \in ix2.segs : \E x \in ix.segs : y = Stamp(ix, x)
           /\ \A x \in ix.segs : Stamp(ix, x) \in ix2.segs \/ Stamp(ix, x).live = {}
  <2>1. \A y \in ix2.segs : \E x \in ix.segs : y.docs = x.docs /\ y.live \subseteq x.live /\ y.gen = ix.next
    BY <1>4, <1>6
  <2>2. Segments(ix2, lg, sd)
    <3>1. \A y \in ix2.segs : /\ y.live \subseteq y.docs /\ y.gen < ix2.next
                              /\ \A d \in y.docs : d \in Added(lg) /\ lg[d].gen <= sd
      BY <1>1, <2>1 DEF Kills, Segments
    <3>2. \A p \in Elements(ix2.stream) : p.gen < ix2.next /\ p.docs \subseteq Added(lg)
      BY <1>1, <1>3 DEF Kills, Segments
    <3> QED
      BY <3>1, <3>2 DEF Segments
  <2>3. QueueKills(P, pd, ix2, lg)
    BY <2>1 DEF Kills, QueueKills
  <2>4. TicketKills(P, ix2, lg, st)
    BY <2>1 DEF Kills, TicketKills
  <2>5. \A p \in Elements(ix2.stream), y \in ix2.segs : ~Applies(p, y)
    BY <1>1, <1>3, <2>1 DEF Applies
  <2>6. PacketKills(ix2, lg, st)
    BY <2>5 DEF PacketKills
  <2>7. Accounted(U, P, ix2, lg, ls, st)
    <3> SUFFICES ASSUME NEW d \in Added(lg) \ ls, ~KilledBy(lg, d, st) PROVE AliveIn(U, P, ix2, d)
      BY DEF Accounted
    <3>1. AliveIn(U, P, ix, d)
      BY DEF Kills, Accounted
    <3>2. ASSUME NEW x \in ix.segs, d \in x.live PROVE AliveIn(U, P, ix2, d)
      <4>1. d \notin Deleted(ix, x)
        BY <3>2 DEF Deleted, Kills, PacketKills
      <4>2. d \in Stamp(ix, x).live
        BY <1>4, <3>2, <4>1
      <4> QED
        BY <1>6, <4>2 DEF AliveIn
    <3> QED
      BY <3>1, <3>2 DEF AliveIn
  <2> QED
    BY <2>2, <2>3, <2>4, <2>6, <2>7 DEF Kills
<1> QED
  BY <1>5, <1>6 DEF Applied

-----------------------------------------------------------------------------
\* The generations up to which DWPTs have tickets, and deletes are frozen.
FiledGen == IF fullFlush THEN gen - 1 ELSE gen
Settled == IF fullFlush /\ ~DeleteTrigger THEN gen - 1 ELSE gen

\* No document is in two DWPTs without a ticket.
Slots ==
  /\ \A s, u \in Inited : s # u => active[s].docs \cap active[u].docs = {}
  /\ \A i, k \in 1..Len(flushQueue) : i # k => flushQueue[i].docs \cap flushQueue[k].docs = {}
  /\ \A f, h \in Taken : f # h => hand[f].docs \cap hand[h].docs = {}
  /\ \A s \in Inited, i \in 1..Len(flushQueue) : active[s].docs \cap flushQueue[i].docs = {}
  /\ \A s \in Inited, f \in Taken : active[s].docs \cap hand[f].docs = {}
  /\ \A i \in 1..Len(flushQueue), f \in Taken : flushQueue[i].docs \cap hand[f].docs = {}

\* Every step of the chain is one of these.
MoveStep ==
  /\ Moves(Unticketed, Unticketed', Pipeline, Pipeline', lost, lost')
  /\ UNCHANGED <<pending, index, log>> /\ FiledGen <= FiledGen' /\ Settled <= Settled' /\ gen <= gen'
OperateStep(g, add, kind) ==
  /\ Operates(Unticketed, Unticketed', pending, pending', log, log', g, add, kind)
  /\ Pipeline' = Pipeline /\ UNCHANGED <<index, lost, gen, fullFlush>> /\ FiledGen <= g /\ g <= gen
FreezeStep(g, t) ==
  /\ Freezes(Unticketed, Unticketed', Pipeline, Pipeline', pending, pending', g, t)
  /\ UNCHANGED <<index, log, lost, gen, fullFlush>> /\ g <= Settled
  /\ t.dwpt # None => /\ g <= FiledGen
                      /\ Slots => \A w \in Unticketed' : w.docs \cap t.dwpt.docs = {}
OperateAndFreezeStep(kind) ==
  \E pd : /\ Operates(Unticketed, Unticketed', pending, pd, log, log', gen, FALSE, kind)
          /\ Freezes(Unticketed', Unticketed', Pipeline, Pipeline', pd, pending', gen, GlobalTicket(pd[gen]))
          /\ UNCHANGED <<index, lost, gen, fullFlush>> /\ FiledGen <= gen /\ gen <= Settled
PublishStep ==
  /\ Leaves(Pipeline, Pipeline') /\ Attached(Pipeline[1]) /\ Pipeline[1].status # "open"
  /\ Published(index, index', Pipeline[1])
  /\ Unticketed' = Unticketed /\ UNCHANGED <<pending, log, lost, gen, fullFlush>>
ApplyStep ==
  /\ Applied(index, index')
  /\ Unticketed' = Unticketed /\ Pipeline' = Pipeline /\ UNCHANGED <<pending, log, lost, gen, fullFlush>>

\* The two bounds are generations up to the current one.
LEMMA LevelTypes ==
  ASSUME ControlInv
  PROVE  FiledGen \in Nat /\ Settled \in Nat /\ gen \in Nat /\ FiledGen <= gen /\ Settled <= gen /\ FiledGen <= Settled
BY IndexingChainAssumption DEF ControlInv, ChainType, FiledGen, Settled

PipeOf(p, q) == (IF p = None THEN <<>> ELSE <<p>>) \o q
PipeShape(p, q, P) ==
  /\ P \in Seq(Ticket)
  /\ p = None => P = q
  /\ p # None => Len(P) = Len(q) + 1 /\ P[1] = p /\ \A i \in 1..Len(q) : P[i + 1] = q[i]

\* The popped ticket, if there is one, stands in front of the queue.
LEMMA PipeParts ==
  ASSUME NEW p \in Ticket \cup {None}, NEW q \in Seq(Ticket)
  PROVE  PipeShape(p, q, PipeOf(p, q))
<1> USE DEF PipeShape
<1>1. Len(q) \in Nat
  OBVIOUS
<1>2. CASE p = None
  <2>1. PipeOf(p, q) = <<>> \o q
    BY <1>2 DEF PipeOf
  <2> QED
    BY <1>2, <2>1, ConcatEmptySeq
<1>3. CASE p # None
  <2> DEFINE one == <<p>>
  <2>1. one \in Seq(Ticket) /\ Len(one) = 1 /\ one[1] = p
    BY <1>3
  <2>2. PipeOf(p, q) = one \o q
    BY <1>3 DEF PipeOf
  <2> HIDE DEF one
  <2>0. /\ one \o q \in Seq(Ticket) /\ Len(one \o q) = Len(one) + Len(q)
        /\ \A i \in 1..Len(one) + Len(q) :
             (one \o q)[i] = IF i <= Len(one) THEN one[i] ELSE q[i - Len(one)]
    BY <2>1, ConcatProperties
  <2>3. /\ PipeOf(p, q) \in Seq(Ticket) /\ Len(PipeOf(p, q)) = 1 + Len(q)
        /\ \A i \in 1..1 + Len(q) : PipeOf(p, q)[i] = IF i <= 1 THEN one[i] ELSE q[i - 1]
    BY <2>0, <2>1, <2>2
  <2>4. PipeOf(p, q)[1] = p /\ \A i \in 1..Len(q) : PipeOf(p, q)[i + 1] = q[i]
    BY <1>1, <2>1, <2>3
  <2> QED
    BY <1>1, <1>3, <2>3, <2>4
<1> QED
  BY <1>2, <1>3

\* The pipeline of IndexingChain is of this shape, and typed.
LEMMA PipelineAt ==
  ASSUME ControlInv
  PROVE  /\ Pipeline = PipeOf(popped, tickets) /\ Pipeline \in Seq(Ticket)
         /\ tickets \in Seq(Ticket) /\ popped \in Ticket \cup {None}
BY PipeParts DEF PipeShape, ControlInv, ChainType, Pipeline, PipeOf

\* A ticket joins at the end.
LEMMA PipelineGrows ==
  ASSUME ControlInv, NEW t \in Ticket, tickets' = Append(tickets, t), UNCHANGED popped
  PROVE  Pipeline' = Append(Pipeline, t)
<1> DEFINE one == IF popped = None THEN <<>> ELSE <<popped>>
<1>1. tickets \in Seq(Ticket) /\ one \in Seq(Ticket)
  BY PipelineAt
<1>2. Pipeline = one \o tickets /\ Pipeline' = one \o Append(tickets, t)
  BY DEF Pipeline
<1> HIDE DEF one
<1>3. <<t>> \in Seq(Ticket)
  OBVIOUS
<1>4. Append(tickets, t) = tickets \o <<t>> /\ Append(one \o tickets, t) = (one \o tickets) \o <<t>>
  BY <1>1, AppendIsConcat, ConcatProperties
<1>5. (one \o tickets) \o <<t>> = one \o (tickets \o <<t>>)
  BY <1>1, <1>3, ConcatAssociative
<1> QED
  BY <1>2, <1>4, <1>5

\* flush_dwpt completes a ticket.
LEMMA PipelineStatus ==
  ASSUME NEW p \in Ticket \cup {None}, NEW q \in Seq(Ticket), NEW r \in Seq(Ticket), NEW i \in 1..Len(q),
         Len(r) = Len(q), \A k \in 1..Len(q) : k # i => r[k] = q[k],
         r[i].dels = q[i].dels, r[i].dwpt = q[i].dwpt
  PROVE  /\ Len(PipeOf(p, r)) = Len(PipeOf(p, q)) /\ PipeOf(p, r) \in Seq(Ticket)
         /\ \A k \in 1..Len(PipeOf(p, q)) :
              \/ PipeOf(p, r)[k] = PipeOf(p, q)[k]
              \/ PipeOf(p, r)[k] = r[i] /\ PipeOf(p, q)[k] = q[i]
<1> DEFINE A == PipeOf(p, q)
           B == PipeOf(p, r)
<1>0. PipeShape(p, q, A) /\ PipeShape(p, r, B)
  BY PipeParts
<1> HIDE DEF A, B
<1> SUFFICES /\ Len(B) = Len(A) /\ B \in Seq(Ticket)
             /\ \A k \in 1..Len(A) : B[k] = A[k] \/ (B[k] = r[i] /\ A[k] = q[i])
  BY DEF A, B
<1>1. CASE p = None
  BY <1>0, <1>1 DEF PipeShape
<1>2. CASE p # None
  <2>1. /\ Len(A) = Len(q) + 1 /\ A[1] = p /\ \A k \in 1..Len(q) : A[k + 1] = q[k]
        /\ Len(B) = Len(q) + 1 /\ B[1] = p /\ \A k \in 1..Len(q) : B[k + 1] = r[k]
    BY <1>0, <1>2 DEF PipeShape
  <2>2. \A k \in 1..Len(q) + 1 : k = 1 \/ \E h \in 1..Len(q) : k = h + 1
    <3> SUFFICES ASSUME NEW k \in 1..Len(q) + 1, k # 1 PROVE k - 1 \in 1..Len(q) /\ k = (k - 1) + 1
      OBVIOUS
    <3>1. Len(q) \in Nat
      OBVIOUS
    <3> QED
      BY <3>1
  <2> QED
    BY <1>0, <2>1, <2>2 DEF PipeShape
<1> QED
  BY <1>1, <1>2

\* The DWPTs without a ticket are DWPTs.
LEMMA UnticketedType ==
  ASSUME ControlInv
  PROVE  Unticketed \subseteq Dwpt
<1>1. \A s \in Inited : active[s] \in Dwpt
  BY DEF ControlInv, ChainType, Inited
<1>2. Elements(flushQueue) \subseteq Dwpt
  BY DEF ControlInv, ChainType, Elements
<1>3. \A f \in Flushers : pc[f] = "taken" => hand[f] \in Dwpt
  BY DEF ControlInv, ChainType, Busy
<1> QED
  BY <1>1, <1>2, <1>3 DEF Unticketed

\* The parts of the state are typed.
LEMMA PathTyped ==
  ASSUME ControlInv
  PROVE  PathType(Unticketed, Pipeline, pending, index, log, FiledGen, Settled)
BY LevelTypes, PipelineAt, UnticketedType DEF PathType, ControlInv, ChainType

\* A step that moves no DWPT leaves those without a ticket as they are.
LEMMA UnticketedSame ==
  ASSUME UNCHANGED <<active, flushQueue>>,
         \A f \in Flushers : pc'[f] = "taken" <=> pc[f] = "taken",
         \A f \in Flushers : pc[f] = "taken" => hand'[f] = hand[f]
  PROVE  Unticketed' = Unticketed
BY DEF Unticketed, Inited, Elements

\* A step that changes nothing of the way is a MoveStep.
LEMMA MovesSame ==
  ASSUME Unticketed' = Unticketed, Pipeline' = Pipeline, UNCHANGED <<pending, index, log, lost>>,
         FiledGen <= FiledGen', Settled <= Settled', gen <= gen'
  PROVE  MoveStep
BY DEF MoveStep, Moves

\* A step that touches no ticket leaves the pipeline.
LEMMA PipelineSame ==
  ASSUME UNCHANGED <<tickets, popped>>
  PROVE  Pipeline' = Pipeline
BY DEF Pipeline

\* A DWPT that is checked out has no ticket before or after.
LEMMA CheckOutSame ==
  ASSUME ControlInv, NEW s \in Inited, AddFlushableState(s), UNCHANGED hand,
         \A f \in Flushers : pc'[f] = "taken" <=> pc[f] = "taken"
  PROVE  Unticketed' = Unticketed
<1>1. /\ active[s] \in Dwpt /\ flushQueue \in Seq(Dwpt)
      /\ Elements(flushQueue') = Elements(flushQueue) \cup {active[s]}
  <2>1. active[s] \in Dwpt /\ flushQueue \in Seq(Dwpt)
    BY DEF ControlInv, ChainType, Inited
  <2> QED
    BY <2>1, ElementsAppend DEF AddFlushableState
<1>2. Inited' = Inited \ {s} /\ \A u \in Inited \ {s} : active'[u] = active[u]
  BY DEF AddFlushableState, Inited, ControlInv, ChainType
<1>3. {active'[u] : u \in Inited'} \cup {active[s]} = {active[u] : u \in Inited}
  BY <1>2
<1>4. {h \in Flushers : pc'[h] = "taken"} = {h \in Flushers : pc[h] = "taken"}
  OBVIOUS
<1> QED
  BY <1>1, <1>3, <1>4 DEF Unticketed

\* Nor has one that a flusher takes.
LEMMA TakeSame ==
  ASSUME ControlInv, NEW f \in Flushers, NextPendingFlush(f)
  PROVE  Unticketed' = Unticketed
<1> USE DEF ControlInv
<1> DEFINE T == {hand[h] : h \in Taken}
           A == {active[u] : u \in Inited}
<1>1. pc[f] # "taken" /\ Taken' = Taken \cup {f} /\ \A h \in Taken : hand'[h] = hand[h]
  <2>1. pc[f] = "idle" /\ pc' = [pc EXCEPT ![f] = "taken"] /\ pc \in [Actors -> PCs]
    BY DEF NextPendingFlush, MayTake, ChainType
  <2>2. Taken' = Taken \cup {f}
    BY <2>1 DEF Taken, Actors
  <2>3. \E w : hand' = [hand EXCEPT ![f] = w]
    <3>1. CASE flushQueue # <<>>
      BY <3>1 DEF NextPendingFlush
    <3>2. CASE flushQueue = <<>>
      BY <3>2 DEF NextPendingFlush
    <3> QED
      BY <3>1, <3>2
  <2>4. \A h \in Flushers : h # f => hand'[h] = hand[h]
    BY <2>3 DEF ChainType
  <2>5. f \notin Taken /\ Taken \subseteq Flushers
    BY <2>1 DEF Taken
  <2> QED
    BY <2>1, <2>2, <2>4, <2>5
<1>2. {hand'[h] : h \in Taken'} = T \cup {hand'[f]}
  BY <1>1
<1>3. Unticketed = A \cup Elements(flushQueue) \cup T
  BY DEF Unticketed, Taken
<1>4. Unticketed' = {active'[u] : u \in Inited'} \cup Elements(flushQueue') \cup {hand'[h] : h \in Taken'}
  BY DEF Unticketed, Taken
<1> HIDE DEF T, A
<1>5. CASE flushQueue # <<>>
  <2>1. /\ flushQueue \in Seq(Dwpt) /\ Len(flushQueue) \in Nat /\ Len(flushQueue) > 0
        /\ Head(flushQueue) = flushQueue[1]
    BY <1>5 DEF ChainType
  <2>2. /\ Len(flushQueue') = Len(flushQueue) - 1
        /\ \A i \in 1..Len(flushQueue') : flushQueue'[i] = flushQueue[i + 1]
    BY <1>5, <2>1, HeadTailProperties DEF NextPendingFlush
  <2>3. /\ \A i \in 1..Len(flushQueue') : i + 1 \in 1..Len(flushQueue)
        /\ \A i \in 1..Len(flushQueue) : i = 1 \/ (i - 1 \in 1..Len(flushQueue') /\ (i - 1) + 1 = i)
        /\ 1 \in 1..Len(flushQueue)
    BY <2>1, <2>2
  <2>7. \A i \in 1..Len(flushQueue) : i = 1 \/ \E k \in 1..Len(flushQueue') : flushQueue[i] = flushQueue'[k]
    BY <2>2, <2>3
  <2>8. \A k \in 1..Len(flushQueue') : \E i \in 1..Len(flushQueue) : flushQueue'[k] = flushQueue[i]
    BY <2>2, <2>3
  <2>4. Elements(flushQueue) = Elements(flushQueue') \cup {flushQueue[1]}
    <3>1. ASSUME NEW w \in Elements(flushQueue) PROVE w \in Elements(flushQueue') \cup {flushQueue[1]}
      BY <2>7, <3>1 DEF Elements
    <3>2. ASSUME NEW w \in Elements(flushQueue') \cup {flushQueue[1]} PROVE w \in Elements(flushQueue)
      BY <2>3, <2>8, <3>2 DEF Elements
    <3> QED
      BY <3>1, <3>2
  <2>5. hand'[f] = flushQueue[1] /\ active' = active
    BY <1>5, <2>1 DEF NextPendingFlush, ChainType
  <2>6. {active'[u] : u \in Inited'} = A
    BY <2>5 DEF A, Inited
  <2> QED
    BY <1>2, <1>3, <1>4, <2>4, <2>5, <2>6
<1>6. CASE flushQueue = <<>>
  <2>1. PICK s \in flushPending : /\ hand' = [hand EXCEPT ![f] = active[s]]
                                  /\ active' = [active EXCEPT ![s] = None]
                                  /\ flushQueue' = flushQueue
    BY <1>6 DEF NextPendingFlush
  <2>2. s \in Inited /\ hand'[f] = active[s]
    BY <2>1 DEF ChainType
  <2>3. Inited' = Inited \ {s} /\ \A u \in Inited \ {s} : active'[u] = active[u]
    BY <2>1 DEF Inited, ChainType
  <2>4. {active'[u] : u \in Inited'} \cup {active[s]} = A
    BY <2>2, <2>3 DEF A
  <2> QED
    BY <1>2, <1>3, <1>4, <2>1, <2>2, <2>4
<1> QED
  BY <1>5, <1>6

\* The ticket that is popped stays the first of the pipeline.
LEMMA PopSame ==
  ASSUME ControlInv, PopHead
  PROVE  Pipeline' = Pipeline
<1>1. /\ tickets \in Seq(Ticket) /\ tickets # <<>> /\ popped = None /\ popped' = Head(tickets)
      /\ tickets' = Tail(tickets) /\ popped' # None
  <2>1. tickets \in Seq(Ticket) /\ tickets # <<>> /\ popped' = Head(tickets)
    BY DEF PopHead, ControlInv, ChainType
  <2>2. Head(tickets) \in Ticket
    BY <2>1, HeadTailProperties
  <2> QED
    BY <2>1, <2>2, NoneAssumption DEF PopHead
<1>2. Pipeline = tickets
  BY <1>1, PipelineAt, PipeParts DEF PipeShape
<1>3. Pipeline' = <<Head(tickets)>> \o Tail(tickets)
  BY <1>1 DEF Pipeline
<1>4. <<Head(tickets)>> \o Tail(tickets) = tickets
  BY <1>1
<1> QED
  BY <1>2, <1>3, <1>4

-----------------------------------------------------------------------------
\* A step that leaves the documents, the deletes and the tickets where they are.
LEMMA Quiet ==
  ASSUME ControlInv, Unticketed' = Unticketed, UNCHANGED <<pending, index, log, lost, tickets, popped, gen>>,
         fullFlush' \in BOOLEAN, fullFlush' => fullFlush
  PROVE  MoveStep
<1>1. gen \in Nat /\ fullFlush \in BOOLEAN
  BY LevelTypes DEF ControlInv, ChainType
<1>2. FiledGen <= FiledGen' /\ Settled <= Settled'
  BY <1>1, IndexingChainAssumption DEF FiledGen, Settled
<1> QED
  BY <1>1, <1>2, MovesSame, PipelineSame

\* obtain_and_lock and mark_for_full_flush move DWPTs.
LEMMA CheckOutMoves ==
  ASSUME ControlInv, NEW s \in States, Obtain(s) \/ MarkState(s)
  PROVE  MoveStep
<1>1. \A f \in Flushers : pc'[f] = pc[f]
  BY ActorFacts DEF Obtain, MarkState, ControlInv, ChainType
<1>2. /\ hand' = hand /\ UNCHANGED <<pending, index, log, lost, tickets, popped, gen, fullFlush>>
      /\ (s \in Inited /\ AddFlushableState(s)) \/ UNCHANGED <<active, flushQueue>>
  BY DEF Obtain, MarkState, queueVars, ticketVars, indexVars, fullVars, history
<1>3. Unticketed' = Unticketed
  BY <1>1, <1>2, CheckOutSame, UnticketedSame
<1> QED
  BY <1>2, <1>3, Quiet DEF ControlInv, ChainType

\* next_pending_flush and after_flush move DWPTs.
LEMMA FlusherMoves ==
  ASSUME ControlInv, NEW f \in Flushers, NextPendingFlush(f) \/ AfterFlush(f)
  PROVE  MoveStep
<1>1. CASE NextPendingFlush(f)
  <2>1. UNCHANGED <<pending, index, log, lost, tickets, popped, gen, fullFlush>>
    BY <1>1 DEF NextPendingFlush, queueVars, ticketVars, indexVars, fullVars, history
  <2> QED
    BY <1>1, <2>1, TakeSame, Quiet DEF ControlInv, ChainType
<1>2. CASE AfterFlush(f)
  <2>1. /\ UNCHANGED <<pending, index, log, lost, tickets, popped, gen, active, flushQueue>>
        /\ fullFlush' \in BOOLEAN /\ (fullFlush' => fullFlush)
    BY <1>2 DEF AfterFlush, LeaveFullFlush, ControlInv, ChainType, queueVars, ticketVars,
       indexVars, fullVars, history
  <2>2. /\ pc[f] # "taken" /\ pc'[f] # "taken"
        /\ \A h \in Flushers : h # f => pc'[h] = pc[h] /\ hand'[h] = hand[h]
    BY <1>2, ActorFacts DEF AfterFlush, ControlInv, ChainType
  <2>3. Unticketed' = Unticketed
    BY <2>1, <2>2, UnticketedSame
  <2> QED
    BY <2>1, <2>3, Quiet
<1> QED
  BY <1>1, <1>2

\* The steps between the critical sections change nothing of the way.
LEMMA ServiceMoves ==
  ASSUME ControlInv,
         \/ \E x \in Actors : ApplyAllDeletesLocal(x)
         \/ \E e \in {"purge", "apply"} : BeginEvent(e)
         \/ EndEvent \/ ForcePurge \/ EndForcePurge \/ FinishFullFlush
  PROVE  MoveStep
<1>1. /\ UNCHANGED <<pending, index, log, lost, tickets, popped, gen, active, flushQueue, hand>>
      /\ fullFlush' \in BOOLEAN /\ (fullFlush' => fullFlush)
  <2>1. CASE \E x \in Actors : ApplyAllDeletesLocal(x)
    BY <2>1 DEF ApplyAllDeletesLocal, ControlInv, ChainType, queueVars, dwptVars, ticketVars,
       indexVars, fullVars, history
  <2>2. CASE (\E e \in {"purge", "apply"} : BeginEvent(e)) \/ EndEvent \/ ForcePurge
    BY <2>2 DEF BeginEvent, EndEvent, ForcePurge, ControlInv, ChainType, queueVars, dwptVars,
       indexVars, fullVars, history
  <2>3. CASE EndForcePurge \/ FinishFullFlush
    BY <2>3 DEF EndForcePurge, FinishFullFlush, LeaveFullFlush, ControlInv, ChainType,
       queueVars, dwptVars, ticketVars, indexVars, history
  <2> QED
    BY <2>1, <2>2, <2>3
<1>2. \A f \in Flushers : pc'[f] = "taken" <=> pc[f] = "taken"
  <2>1. CASE \E x \in Actors : ApplyAllDeletesLocal(x)
    BY <2>1, ActorFacts DEF ApplyAllDeletesLocal, ControlInv, ChainType
  <2>2. CASE pc' = pc
    BY <2>2
  <2> QED
    BY <2>1, <2>2 DEF BeginEvent, EndEvent, ForcePurge, EndForcePurge, FinishFullFlush
<1> QED
  BY <1>1, <1>2, UnticketedSame, Quiet

\* A new queue raises the bounds.
LEMMA BeginMoves ==
  ASSUME ControlInv, NEW m \in Modes, BeginFullFlush(m)
  PROVE  MoveStep
<1>1. UNCHANGED <<pending, index, log, lost, tickets, popped, active, flushQueue, hand, pc>>
  BY DEF BeginFullFlush, dwptVars, ticketVars, indexVars, history
<1>2. gen' = gen + 1 /\ fullFlush' = TRUE /\ fullFlush = FALSE /\ gen \in Nat
  BY LevelTypes DEF BeginFullFlush, ControlInv, Phase, ChainType
<1>3. FiledGen <= FiledGen' /\ Settled <= Settled'
  BY <1>2, IndexingChainAssumption DEF FiledGen, Settled
<1> QED
  BY <1>1, <1>2, <1>3, MovesSame, PipelineSame, UnticketedSame

\* Popping the head of the queue moves a ticket.
LEMMA PopMoves ==
  ASSUME ControlInv, PopHead
  PROVE  MoveStep
<1>1. UNCHANGED <<pending, index, log, lost, gen, fullFlush, active, flushQueue, hand, pc>>
  BY DEF PopHead, queueVars, dwptVars, indexVars, fullVars, history
<1>2. FiledGen' = FiledGen /\ Settled' = Settled
  BY <1>1 DEF FiledGen, Settled
<1>3. FiledGen \in Nat /\ Settled \in Nat /\ gen \in Nat
  BY LevelTypes
<1> QED
  BY <1>1, <1>2, <1>3, PopSame, MovesSame, UnticketedSame

\* A document that fails drops its DWPT, and the documents are lost.
LEMMA IndexFailsMoves ==
  ASSUME ControlInv, NEW s \in States, IndexFails(s)
  PROVE  MoveStep
<1>1. /\ UNCHANGED <<pending, index, log, tickets, popped, gen, fullFlush, flushQueue, hand>>
      /\ lost' = lost \cup (IF s \in Inited THEN active[s].docs ELSE {})
  BY DEF IndexFails, queueVars, ticketVars, indexVars, fullVars, history
<1>2. \A f \in Flushers : pc'[f] = pc[f]
  BY ActorFacts DEF IndexFails, ControlInv, ChainType
<1>3. Inited' = Inited \ {s} /\ \A u \in Inited \ {s} : active'[u] = active[u]
  BY DEF IndexFails, Inited, ControlInv, ChainType
<1>4. /\ Unticketed' \subseteq Unticketed
      /\ \A w \in Unticketed : w \in Unticketed' \/ (s \in Inited /\ w = active[s])
  BY <1>1, <1>2, <1>3 DEF Unticketed, Elements
<1>5. Moves(Unticketed, Unticketed', Pipeline, Pipeline', lost, lost')
  BY <1>1, <1>4, PipelineSame DEF Moves
<1>6. FiledGen' = FiledGen /\ Settled' = Settled
  BY <1>1 DEF FiledGen, Settled
<1>7. FiledGen \in Nat /\ Settled \in Nat /\ gen \in Nat
  BY LevelTypes
<1> QED
  BY <1>1, <1>5, <1>6, <1>7 DEF MoveStep

\* flush_dwpt completes its ticket, or fails it and its documents are lost.
LEMMA FlushMoves ==
  ASSUME ControlInv, NEW f \in Flushers, FlushDwpt(f)
  PROVE  MoveStep
<1> DEFINE i == OpenTicket(f)
<1>1. /\ UNCHANGED <<pending, index, log, popped, gen, fullFlush, active, flushQueue, hand>>
  BY DEF FlushDwpt, queueVars, dwptVars, indexVars, fullVars, history
<1>2. /\ pc[f] = "ticketed" /\ pc'[f] # "taken" /\ \A h \in Flushers : h # f => pc'[h] = pc[h]
  BY ActorFacts DEF FlushDwpt, ControlInv, ChainType
<1>3. Unticketed' = Unticketed
  BY <1>1, <1>2, UnticketedSame
<1>4. i \in 1..Len(tickets) /\ tickets[i].owner = f /\ tickets[i].status = "open"
  BY <1>2, OpenTicketFound DEF ControlInv, IsOpen
<1>5. tickets[i].dwpt = hand[f] /\ tickets \in Seq(Ticket)
  BY <1>4 DEF ControlInv, Owned, IsOpen, ChainType
<1>6. PICK st \in {"ready", "failed"} :
        /\ tickets' = [tickets EXCEPT ![i].status = st]
        /\ lost' = lost \cup (IF st = "failed" THEN hand[f].docs ELSE {})
  BY DEF FlushDwpt
<1> HIDE DEF i
<1>7. /\ tickets' \in Seq(Ticket) /\ Len(tickets') = Len(tickets)
      /\ \A k \in 1..Len(tickets) : k # i => tickets'[k] = tickets[k]
      /\ tickets'[i].status = st /\ tickets'[i].dels = tickets[i].dels /\ tickets'[i].dwpt = tickets[i].dwpt
  <2>1. tickets' = [tickets EXCEPT ![i].status = st]
    BY <1>6
  <2>2. tickets \in Seq(Ticket) /\ i \in 1..Len(tickets)
    BY <1>4, <1>5
  <2>3. /\ Len(tickets') = Len(tickets) /\ \A k \in 1..Len(tickets) : k # i => tickets'[k] = tickets[k]
        /\ tickets'[i].status = st /\ tickets'[i].dwpt = tickets[i].dwpt
    BY <2>1, <2>2, StatusTyped
  <2>4. tickets' \in Seq(Ticket)
    BY <2>1, <2>2, StatusTyped
  <2>5. tickets'[i].dels = tickets[i].dels
    BY <2>1, <2>2, StatusTyped
  <2> QED
    BY <2>3, <2>4, <2>5
<1>8. /\ Len(Pipeline') = Len(Pipeline)
      /\ \A k \in 1..Len(Pipeline) : \/ Pipeline'[k] = Pipeline[k]
                                     \/ Pipeline'[k] = tickets'[i] /\ Pipeline[k] = tickets[i]
  <2>1. Pipeline = PipeOf(popped, tickets) /\ Pipeline' = PipeOf(popped, tickets') /\ popped \in Ticket \cup {None}
    BY <1>1, PipelineAt DEF Pipeline, PipeOf
  <2> QED
    BY <1>4, <1>5, <1>7, <2>1, PipelineStatus, ZenonT(40)
<1>9. Moves(Unticketed, Unticketed', Pipeline, Pipeline', lost, lost')
  BY <1>3, <1>4, <1>5, <1>6, <1>7, <1>8 DEF Moves, Written
<1>10. FiledGen' = FiledGen /\ Settled' = Settled
  BY <1>1 DEF FiledGen, Settled
<1>11. FiledGen \in Nat /\ Settled \in Nat /\ gen \in Nat
  BY LevelTypes
<1> QED
  BY <1>1, <1>9, <1>10, <1>11 DEF MoveStep

-----------------------------------------------------------------------------
\* A delete reaches the DWPTs that are checked out and have no ticket.
LEMMA KillSlots ==
  ASSUME ControlInv, NEW g, NEW kind, \A f \in Flushers : pc'[f] = pc[f],
         flushQueue' = [i \in 1..Len(flushQueue) |-> Kill(flushQueue[i], g, kind)],
         hand' = [f \in Flushers |-> IF pc[f] = "taken" THEN Kill(hand[f], g, kind) ELSE hand[f]]
  PROVE  /\ Len(flushQueue') = Len(flushQueue)
         /\ \A i \in 1..Len(flushQueue) : flushQueue'[i] = Kill(flushQueue[i], g, kind)
         /\ \A f \in Taken : hand'[f] = Kill(hand[f], g, kind)
         /\ Taken' = Taken
<1>1. Len(flushQueue) \in Nat
  BY DEF ControlInv, ChainType
<1>2. /\ Len(flushQueue') = Len(flushQueue)
      /\ \A i \in 1..Len(flushQueue) : flushQueue'[i] = Kill(flushQueue[i], g, kind)
  BY <1>1
<1>3. /\ \A f \in Taken : hand'[f] = Kill(hand[f], g, kind)
      /\ Taken' = Taken
  BY DEF Taken
<1> QED
  BY <1>2, <1>3

\* The DWPTs without a ticket, where they are.
LEMMA UnticketedParts ==
  /\ \A w : w \in Unticketed <=> \/ \E s \in Inited : w = active[s]
                                 \/ \E i \in 1..Len(flushQueue) : w = flushQueue[i]
                                 \/ \E f \in Taken : w = hand[f]
  /\ \A w : w \in Unticketed' <=> \/ \E s \in Inited' : w = active'[s]
                                  \/ \E i \in 1..Len(flushQueue') : w = flushQueue'[i]
                                  \/ \E f \in Taken' : w = hand'[f]
BY DEF Unticketed, Elements, Taken

\* The DWPT that a document goes to.
Target(s) == IF s \in Inited THEN active[s] ELSE NewDwpt(gen)

\* It is in its thread state or new, and no older than the tickets.
LEMMA TargetFacts ==
  ASSUME ControlInv, NEW s \in States
  PROVE  /\ Target(s) \in Dwpt /\ Target(s).gen \in 1..MaxGen /\ FiledGen <= Target(s).gen /\ Target(s).gen <= gen
         /\ Target(s) \in Unticketed \cup {NewDwpt(gen)}
         /\ Target(s) = NewDwpt(gen) => Target(s).gen = gen
<1>1. NewDwpt(gen) \in Dwpt /\ NewDwpt(gen).gen = gen /\ gen \in 1..MaxGen /\ gen \in Nat
  BY NewDwptFacts, LevelTypes DEF ControlInv, ChainType
<1>2. CASE s \in Inited
  <2>1. Target(s) = active[s] /\ active[s] \in Dwpt /\ active[s] \in Unticketed
    BY <1>2, UnticketedParts DEF Target, ControlInv, ChainType, Inited
  <2>2. active[s].gen = gen \/ (active[s].gen = gen - 1 /\ cpc = "mark")
    BY <1>2 DEF ControlInv, Generations
  <2>3. FiledGen <= active[s].gen /\ active[s].gen <= gen
    BY <1>1, <2>2 DEF FiledGen, ControlInv, Phase
  <2>4. active[s].gen \in 1..MaxGen
    BY <2>1 DEF Dwpt
  <2> QED
    BY <1>1, <2>1, <2>3, <2>4
<1>3. CASE s \notin Inited
  <2>1. Target(s) = NewDwpt(gen)
    BY <1>3 DEF Target
  <2>2. FiledGen <= gen
    BY LevelTypes
  <2> QED
    BY <1>1, <2>1, <2>2
<1> QED
  BY <1>2, <1>3

\* Indexing a document is an operation on the queue of its DWPT.
LEMMA IndexOperates ==
  ASSUME ControlInv, NEW s \in States, NEW kind \in {"none", "term"}, Index(s, kind)
  PROVE  OperateStep(Target(s).gen, TRUE, kind)
<1> DEFINE w == Target(s)
           g == w.gen
           n == Len(log) + 1
           U == Unticketed
           new == AddDoc(Kill(w, g, kind), n)
<1>1. /\ w \in Dwpt /\ g \in 1..MaxGen /\ FiledGen <= g /\ g <= gen /\ w \in U \cup {NewDwpt(gen)}
      /\ w = NewDwpt(gen) => g = gen
  BY TargetFacts
<1>2. /\ active' = [u \in States |-> IF u = s THEN new ELSE Kill(active[u], g, kind)]
      /\ flushQueue' = [i \in 1..Len(flushQueue) |-> Kill(flushQueue[i], g, kind)]
      /\ hand' = [f \in Flushers |-> IF pc[f] = "taken" THEN Kill(hand[f], g, kind) ELSE hand[f]]
      /\ pending' = [pending EXCEPT ![g] = @ \cup ({kind} \ {"none"})]
  BY DEF Index, Buffer, Target
<1>3. log' = Append(log, OpEntry(g, TRUE, kind))
  BY DEF Index, Log, OpEntry, Target
<1>4. UNCHANGED <<tickets, popped, index, lost, gen, fullFlush>> /\ \A f \in Flushers : pc'[f] = pc[f]
  BY ActorFacts DEF Index, ticketVars, indexVars, fullVars, ControlInv, ChainType
<1>5. /\ Len(flushQueue') = Len(flushQueue)
      /\ \A i \in 1..Len(flushQueue) : flushQueue'[i] = Kill(flushQueue[i], g, kind)
      /\ \A f \in Taken : hand'[f] = Kill(hand[f], g, kind)
      /\ Taken' = Taken
  BY <1>2, <1>4, KillSlots
<1>6. n \in Nat /\ new \in Dwpt /\ new # None
  BY <1>1, AddDocFacts, NoneAssumption DEF ControlInv, ChainType
<1>7. w = active[s] \/ s \notin Inited
  BY DEF Target
<1> HIDE DEF w, new, n, g
<1>8. /\ active'[s] = new /\ \A u \in States : u # s => active'[u] = Kill(active[u], g, kind)
      /\ s \in Inited' /\ \A u \in States : u # s => (u \in Inited' <=> u \in Inited)
  <2>1. active'[s] = new /\ \A u \in States : u # s => active'[u] = Kill(active[u], g, kind)
    BY <1>2
  <2>2. \A u \in States : Kill(active[u], g, kind) # None <=> active[u] # None
    BY KillType, KillNone DEF ControlInv, ChainType
  <2> QED
    BY <1>6, <2>1, <2>2 DEF Inited
<1>9. new \in Unticketed'
  BY <1>8, UnticketedParts
<1>10. \A v \in Unticketed' : v = new \/ \E x \in U : v = Kill(x, g, kind)
  <2> SUFFICES ASSUME NEW v \in Unticketed', v # new PROVE \E x \in U : v = Kill(x, g, kind)
    OBVIOUS
  <2>1. CASE \E u \in Inited' : v = active'[u]
    <3>1. PICK u \in Inited' : v = active'[u]
      BY <2>1
    <3>2. u \in Inited /\ v = Kill(active[u], g, kind)
      BY <1>8, <3>1 DEF Inited
    <3> QED
      BY <3>2, UnticketedParts
  <2>2. CASE \E i \in 1..Len(flushQueue') : v = flushQueue'[i]
    BY <1>5, <2>2, UnticketedParts
  <2>3. CASE \E f \in Taken' : v = hand'[f]
    BY <1>5, <2>3, UnticketedParts
  <2> QED
    BY <2>1, <2>2, <2>3, UnticketedParts
<1>11. \A x \in U : Kill(x, g, kind) \in Unticketed' \/ (x = w /\ s \in Inited)
  <2> SUFFICES ASSUME NEW x \in U PROVE Kill(x, g, kind) \in Unticketed' \/ (x = w /\ s \in Inited)
    OBVIOUS
  <2>1. CASE \E u \in Inited : x = active[u]
    <3>1. PICK u \in Inited : x = active[u]
      BY <2>1
    <3>2. CASE u = s
      BY <1>7, <3>1, <3>2
    <3>3. CASE u # s
      BY <1>8, <3>1, <3>3, UnticketedParts DEF Inited
    <3> QED
      BY <3>2, <3>3
  <2>2. CASE \E i \in 1..Len(flushQueue) : x = flushQueue[i]
    BY <1>5, <2>2, UnticketedParts
  <2>3. CASE \E f \in Taken : x = hand[f]
    BY <1>5, <2>3, UnticketedParts
  <2> QED
    BY <2>1, <2>2, <2>3, UnticketedParts
<1>12. w \in U \cup {NewDwpt(g)} /\ w.gen = g
  BY <1>1 DEF g
<1>13. Operates(U, Unticketed', pending, pending', log, log', g, TRUE, kind)
  BY <1>2, <1>3, <1>9, <1>10, <1>11, <1>12 DEF Operates, new, n
<1> QED
  BY <1>1, <1>4, <1>13, PipelineSame DEF OperateStep, w, g

\* A delete, and the ticket that it may freeze its queue into.
LEMMA DeleteOperates ==
  ASSUME ControlInv, NEW kind \in Kinds, Delete(kind), NEW pd,
         pd = [pending EXCEPT ![gen] = @ \cup ({kind} \ {"none"})]
  PROVE  /\ Operates(Unticketed, Unticketed', pending, pd, log, log', gen, FALSE, kind)
         /\ UNCHANGED <<index, lost, gen, fullFlush, popped>>
<1> DEFINE U == Unticketed
<1>2. /\ active' = [u \in States |-> Kill(active[u], gen, kind)]
      /\ flushQueue' = [i \in 1..Len(flushQueue) |-> Kill(flushQueue[i], gen, kind)]
      /\ hand' = [f \in Flushers |-> IF pc[f] = "taken" THEN Kill(hand[f], gen, kind) ELSE hand[f]]
  BY DEF Delete
<1>3. log' = Append(log, OpEntry(gen, FALSE, kind))
  BY DEF Delete, Log, OpEntry
<1>4. UNCHANGED <<popped, index, lost, gen, fullFlush, pc>>
  BY DEF Delete, indexVars, fullVars
<1>5. /\ Len(flushQueue') = Len(flushQueue)
      /\ \A i \in 1..Len(flushQueue) : flushQueue'[i] = Kill(flushQueue[i], gen, kind)
      /\ \A f \in Taken : hand'[f] = Kill(hand[f], gen, kind)
      /\ Taken' = Taken
  BY <1>2, <1>4, KillSlots
<1>8. Inited' = Inited /\ \A u \in Inited : active'[u] = Kill(active[u], gen, kind)
  <2>1. \A u \in States : active'[u] = Kill(active[u], gen, kind)
    BY <1>2
  <2>2. \A u \in States : Kill(active[u], gen, kind) # None <=> active[u] # None
    BY KillType, KillNone DEF ControlInv, ChainType
  <2> QED
    BY <2>1, <2>2 DEF Inited
<1>10. \A v \in Unticketed' : \E x \in U : v = Kill(x, gen, kind)
  <2> SUFFICES ASSUME NEW v \in Unticketed' PROVE \E x \in U : v = Kill(x, gen, kind)
    OBVIOUS
  <2>1. CASE \E u \in Inited' : v = active'[u]
    BY <1>8, <2>1, UnticketedParts
  <2>2. CASE \E i \in 1..Len(flushQueue') : v = flushQueue'[i]
    BY <1>5, <2>2, UnticketedParts
  <2>3. CASE \E f \in Taken' : v = hand'[f]
    BY <1>5, <2>3, UnticketedParts
  <2> QED
    BY <2>1, <2>2, <2>3, UnticketedParts
<1>11. \A x \in U : Kill(x, gen, kind) \in Unticketed'
  <2> SUFFICES ASSUME NEW x \in U PROVE Kill(x, gen, kind) \in Unticketed'
    OBVIOUS
  <2>1. CASE \E u \in Inited : x = active[u]
    BY <1>8, <2>1, UnticketedParts
  <2>2. CASE \E i \in 1..Len(flushQueue) : x = flushQueue[i]
    BY <1>5, <2>2, UnticketedParts
  <2>3. CASE \E f \in Taken : x = hand[f]
    BY <1>5, <2>3, UnticketedParts
  <2> QED
    BY <2>1, <2>2, <2>3, UnticketedParts
<1>12. Operates(U, Unticketed', pending, pd, log, log', gen, FALSE, kind)
  BY <1>3, <1>10, <1>11 DEF Operates
<1> QED
  BY <1>4, <1>12

-----------------------------------------------------------------------------
\* The steps that freeze a queue.
LEMMA DeleteEffect ==
  ASSUME ControlInv, DeleteTrigger \/ NoTrigger, NEW kind \in Kinds, Delete(kind)
  PROVE  OperateStep(gen, FALSE, kind) \/ OperateAndFreezeStep(kind)
<1> DEFINE dels == pending[gen] \cup {kind}
           pd == [pending EXCEPT ![gen] = dels]
<1>1. kind \in {"term", "query"} /\ gen \in 1..MaxGen /\ pending \in [1..MaxGen -> SUBSET {"term", "query"}]
  BY IndexingChainAssumption DEF ControlInv, ChainType
<1>2. pd = [pending EXCEPT ![gen] = @ \cup ({kind} \ {"none"})] /\ pd[gen] = dels
  BY <1>1
<1>3. /\ Operates(Unticketed, Unticketed', pending, pd, log, log', gen, FALSE, kind)
      /\ UNCHANGED <<index, lost, gen, fullFlush, popped>>
  BY <1>2, DeleteOperates
<1>4. FiledGen <= gen /\ gen <= gen
  BY LevelTypes
<1>5. CASE pending' = pd /\ tickets' = tickets
  BY <1>3, <1>4, <1>5, PipelineSame DEF OperateStep
<1>6. CASE ~fullFlush /\ tickets' = Append(tickets, GlobalTicket(dels)) /\ pending' = [pending EXCEPT ![gen] = {}]
  <2>1. GlobalTicket(dels) \in Ticket /\ GlobalTicket(dels).dwpt = None /\ GlobalTicket(dels).dels = dels
    BY <1>1 DEF GlobalTicket, Ticket
  <2>2. Pipeline' = Append(Pipeline, GlobalTicket(dels))
    BY <1>3, <1>6, <2>1, PipelineGrows
  <2>3. pending' = [pd EXCEPT ![gen] = {}]
    BY <1>1, <1>6
  <2> HIDE DEF dels, pd
  <2>4. Freezes(Unticketed', Unticketed', Pipeline, Pipeline', pd, pending', gen, GlobalTicket(pd[gen]))
    BY <1>2, <2>1, <2>2, <2>3 DEF Freezes
  <2>5. gen <= Settled
    BY <1>4, <1>6 DEF Settled
  <2> QED
    BY <1>3, <1>4, <2>4, <2>5 DEF OperateAndFreezeStep
<1> QED
  BY <1>5, <1>6 DEF Delete

\* A ticket without a DWPT freezes the queue g.
LEMMA GlobalFreezes ==
  ASSUME ControlInv, NEW g \in 1..MaxGen, g <= Settled, AddTicket(g, GlobalTicket(pending[g])),
         Unticketed' = Unticketed, UNCHANGED <<popped, index, log, lost, gen, fullFlush>>
  PROVE  FreezeStep(g, GlobalTicket(pending[g])) /\ GlobalTicket(pending[g]) \in Ticket
<1> DEFINE t == GlobalTicket(pending[g])
<1>1. t \in Ticket /\ t.dwpt = None /\ t.dels = pending[g]
  BY DEF GlobalTicket, Ticket, ControlInv, ChainType
<1>2. tickets' = Append(tickets, t) /\ pending' = [pending EXCEPT ![g] = {}]
  BY DEF AddTicket
<1> HIDE DEF t
<1>3. Pipeline' = Append(Pipeline, t)
  BY <1>1, <1>2, PipelineGrows
<1> QED
  BY <1>1, <1>2, <1>3 DEF FreezeStep, Freezes, t

\* apply_all_deletes_local freezes the current queue.
LEMMA AddDeletesFreezes ==
  ASSUME ControlInv, DeleteTrigger \/ NoTrigger, NEW x \in Actors, AddDeletes(x)
  PROVE  \E g \in 1..MaxGen, t \in Ticket : FreezeStep(g, t)
<1>1. pc[x] = "freeze" /\ AddTicket(gen, GlobalTicket(pending[gen])) /\ gen \in 1..MaxGen
  BY DEF AddDeletes, ControlInv, ChainType
<1>2. gen <= Settled
  BY <1>1, LevelTypes DEF Settled, NoTrigger
<1>3. UNCHANGED <<popped, index, log, lost, gen, fullFlush, active, flushQueue, hand>>
  BY DEF AddDeletes, dwptVars, indexVars, fullVars, history
<1>4. \A f \in Flushers : pc'[f] = "taken" <=> pc[f] = "taken"
  BY ActorFacts DEF AddDeletes, ControlInv, ChainType
<1>5. Unticketed' = Unticketed
  BY <1>3, <1>4, UnticketedSame
<1> QED
  BY <1>1, <1>2, <1>3, <1>5, GlobalFreezes

\* The end of flush_all_threads freezes what is left in the old queue, if anything is.
LEMMA WaitEffect ==
  ASSUME ControlInv, WaitForFlush
  PROVE  MoveStep \/ \E g \in 1..MaxGen, t \in Ticket : FreezeStep(g, t)
<1>1. UNCHANGED <<popped, index, log, lost, gen, fullFlush, active, flushQueue, hand, pc>>
  BY DEF WaitForFlush, dwptVars, indexVars, history
<1>2. Unticketed' = Unticketed
  BY <1>1, UnticketedSame
<1>3. CASE UNCHANGED <<pending, tickets>>
  BY <1>1, <1>2, <1>3, Quiet DEF ControlInv, ChainType
<1>4. CASE AddTicket(gen - 1, GlobalTicket(pending[gen - 1]))
  <2>1. gen - 1 \in 1..MaxGen
    BY IndexingChainAssumption DEF WaitForFlush, ControlInv, Phase, ChainType
  <2>2. gen - 1 <= Settled
    BY LevelTypes DEF Settled
  <2> QED
    BY <1>1, <1>2, <1>4, <2>1, <2>2, GlobalFreezes
<1> QED
  BY <1>3, <1>4 DEF WaitForFlush

\* add_flush_ticket freezes the queue of its DWPT.  No older queue has deletes left, and the DWPT
\* shares no document with those that have no ticket yet.
LEMMA FlushTicketFreezes ==
  ASSUME ControlInv, NEW f \in Flushers, AddFlushTicket(f)
  PROVE  \E g \in 1..MaxGen, t \in Ticket : FreezeStep(g, t)
<1> DEFINE w == hand[f]
           g == w.gen
           t == FlushTicket(f, pending[g])
<1>1. f \in Taken /\ w \in Dwpt /\ w # None /\ g \in 1..MaxGen /\ g \in Nat
  BY IndexingChainAssumption DEF AddFlushTicket, ControlInv, ChainType, Busy, Taken, Dwpt
<1>2. t \in Ticket /\ t.dwpt = w /\ t.dels = pending[g] /\ t.status = "open"
  BY <1>1 DEF FlushTicket, Ticket, ControlInv, ChainType
<1>3. UNCHANGED <<popped, index, log, lost, gen, fullFlush, active, flushQueue, hand>>
  BY DEF AddFlushTicket, dwptVars, indexVars, fullVars, history
<1>4. tickets' = Append(tickets, t) /\ pending' = [pending EXCEPT ![g] = {}]
  BY DEF AddFlushTicket, AddTicket
<1>5. Taken' = Taken \ {f}
  BY ActorFacts DEF AddFlushTicket, ControlInv, ChainType, Taken
<1>6. (g = gen /\ ~Rolling /\ ~fullFlush) \/ (g = gen - 1 /\ Rolling /\ fullFlush)
  BY <1>1 DEF ControlInv, Generations, Phase, Rolling
<1>7. g <= Settled /\ g <= FiledGen
  BY <1>1, <1>6, LevelTypes DEF Settled, FiledGen
<1>8. \A h \in 1..MaxGen : pending[h] # {} /\ h # g => h > g
  BY <1>1, <1>6, LevelTypes DEF ControlInv, OldQueues
<1> HIDE DEF w, g, t
<1>9. Pipeline' = Append(Pipeline, t)
  BY <1>2, <1>3, <1>4, PipelineGrows
<1>10. Inited' = Inited
  BY <1>3 DEF Inited
<1>11. /\ Unticketed' \subseteq Unticketed /\ w \in Unticketed
       /\ \A v \in Unticketed : v \in Unticketed' \/ v = w
  BY <1>1, <1>3, <1>5, <1>10, UnticketedParts DEF w
<1>12. Freezes(Unticketed, Unticketed', Pipeline, Pipeline', pending, pending', g, t)
  BY <1>1, <1>2, <1>4, <1>8, <1>9, <1>11 DEF Freezes, Written, g
<1>13. Slots => \A v \in Unticketed' : v.docs \cap w.docs = {}
  <2> SUFFICES ASSUME Slots, NEW v \in Unticketed' PROVE v.docs \cap w.docs = {}
    OBVIOUS
  <2>1. CASE \E s \in Inited : v = active[s]
    BY <1>1, <2>1 DEF Slots, w
  <2>2. CASE \E i \in 1..Len(flushQueue) : v = flushQueue[i]
    BY <1>1, <2>2 DEF Slots, w
  <2>3. CASE \E h \in Taken \ {f} : v = hand[h]
    BY <1>1, <2>3 DEF Slots, w
  <2> QED
    BY <1>3, <1>5, <1>10, <2>1, <2>2, <2>3, UnticketedParts
<1>14. FreezeStep(g, t)
  BY <1>2, <1>3, <1>7, <1>12, <1>13 DEF FreezeStep
<1> QED
  BY <1>1, <1>2, <1>14

\* The popped ticket is the first of the pipeline, and is published.
LEMMA PublishEffect ==
  ASSUME ControlInv, PublishPopped
  PROVE  PublishStep
<1>1. /\ popped # None /\ popped' = None /\ index' = Publish(index, popped)
      /\ UNCHANGED <<tickets, pending, log, lost, gen, fullFlush, active, flushQueue, hand, pc>>
  BY DEF PublishPopped, queueVars, dwptVars, fullVars, history
<1>2. popped \in Ticket /\ tickets \in Seq(Ticket) /\ index \in Index0
  BY <1>1 DEF ControlInv, ChainType
<1>3. Attached(popped) /\ popped.status # "open"
  BY <1>1 DEF ControlInv, Owned
<1>4. Len(Pipeline) = Len(tickets) + 1 /\ Pipeline[1] = popped /\ \A i \in 1..Len(tickets) : Pipeline[i + 1] = tickets[i]
  <2>1. PipeShape(popped, tickets, Pipeline)
    BY <1>2, PipelineAt, PipeParts
  <2> QED
    BY <1>1, <2>1 DEF PipeShape
<1>5. Pipeline' = tickets
  <2>1. Pipeline' = PipeOf(None, tickets)
    BY <1>1 DEF Pipeline, PipeOf
  <2>2. PipeShape(None, tickets, Pipeline')
    BY <1>2, <2>1, PipeParts
  <2> QED
    BY <2>2 DEF PipeShape
<1>6. Leaves(Pipeline, Pipeline')
  BY <1>2, <1>4, <1>5 DEF Leaves
<1>7. Published(index, index', popped)
  BY <1>1, <1>2, <1>3, PublishParts DEF Attached
<1> QED
  BY <1>1, <1>3, <1>4, <1>6, <1>7, UnticketedSame DEF PublishStep

\* Both callers of apply_all_deletes apply and prune the stream.
LEMMA ApplyEffect ==
  ASSUME ControlInv, ApplyEvent \/ ApplyAndSnapshot
  PROVE  ApplyStep
<1>1. /\ index' = ApplyAllDeletes(index)
      /\ UNCHANGED <<tickets, popped, pending, log, lost, gen, fullFlush, active, flushQueue, hand, pc>>
  BY DEF ApplyEvent, ApplyAllDeletesAndUpdate, ApplyAndSnapshot, queueVars, dwptVars,
     ticketVars, fullVars, history
<1>2. Applied(index, index')
  BY <1>1, ApplyApplied DEF ControlInv, ChainType
<1> QED
  BY <1>1, <1>2, UnticketedSame, PipelineSame DEF ApplyStep

\* What a step does to the way of documents and deletes: six kinds of step for all the actions.
StepEffect ==
  \/ MoveStep
  \/ \E g \in 1..MaxGen, add \in BOOLEAN, kind \in {"none", "term", "query"} : OperateStep(g, add, kind)
  \/ \E g \in 1..MaxGen, t \in Ticket : FreezeStep(g, t)
  \/ \E kind \in {"term", "query"} : OperateAndFreezeStep(kind)
  \/ PublishStep
  \/ ApplyStep

\* Every action is one of the six kinds of step.
LEMMA NextEffect ==
  ASSUME ControlInv, DeleteTrigger \/ NoTrigger, Next
  PROVE  StepEffect
<1> USE DEF StepEffect
<1>1. ASSUME NEW s \in States, NEW kind \in {"none", "term"}, Index(s, kind) PROVE StepEffect
  <2>1. Target(s).gen \in 1..MaxGen /\ OperateStep(Target(s).gen, TRUE, kind)
    BY <1>1, TargetFacts, IndexOperates
  <2> QED
    BY <2>1
<1>2. ASSUME NEW kind \in Kinds, Delete(kind) PROVE StepEffect
  <2>1. gen \in 1..MaxGen /\ kind \in {"term", "query"}
    BY IndexingChainAssumption DEF ControlInv, ChainType
  <2> QED
    BY <1>2, <2>1, DeleteEffect
<1>3. ASSUME NEW s \in States, Obtain(s) \/ IndexFails(s) \/ MarkState(s) PROVE StepEffect
  BY <1>3, CheckOutMoves, IndexFailsMoves
<1>4. ASSUME NEW m \in Modes, BeginFullFlush(m) PROVE StepEffect
  BY <1>4, BeginMoves
<1>5. ASSUME NEW f \in Flushers, Work(f) PROVE StepEffect
  BY <1>5, FlusherMoves, FlushTicketFreezes, FlushMoves DEF Work
<1>6. ASSUME NEW x \in Actors, Local(x) PROVE StepEffect
  BY <1>6, ServiceMoves, AddDeletesFreezes DEF Local
<1>7. ASSUME Events PROVE StepEffect
  BY <1>7, ServiceMoves, PopMoves, PublishEffect, ApplyEffect DEF Events
<1>8. ASSUME WaitForFlush \/ ForcePurge \/ EndForcePurge \/ ApplyAndSnapshot \/ FinishFullFlush PROVE StepEffect
  BY <1>8, WaitEffect, ServiceMoves, ApplyEffect
<1> HIDE DEF StepEffect
<1> QED
  BY <1>1, <1>2, <1>3, <1>4, <1>5, <1>6, <1>7, <1>8 DEF Next, Operation, FullFlush

-----------------------------------------------------------------------------
\* No operation is ahead of the current queue.
LogGens == \A j \in 1..Len(log) : log[j].gen <= gen
KillInv == LogGens /\ Kills(Unticketed, Pipeline, pending, index, log, lost, FiledGen, Settled)

\* The invariant holds at the start.
LEMMA KillInit == Init => KillInv
<1> SUFFICES ASSUME Init PROVE KillInv
  OBVIOUS
<1>1. Unticketed = {}
  <2>1. Inited = {} /\ Taken = {} /\ Len(flushQueue) = 0
    BY ActorFacts DEF Init, Inited, Taken
  <2> QED
    BY <2>1, UnticketedParts
<1>2. Pipeline = <<>>
  BY DEF Init, Pipeline
<1>3. Len(Pipeline) = 0 /\ Len(log) = 0 /\ log = <<>> /\ index.segs = {} /\ Elements(index.stream) = {} /\ pending = [g \in 1..MaxGen |-> {}]
  BY <1>2 DEF Init, Elements
<1>4. Kills(Unticketed, Pipeline, pending, index, log, lost, FiledGen, Settled)
  BY <1>1, <1>3 DEF Kills, Fresh, Filed, Segments, QueueKills, TicketKills, PacketKills,
     Accounted, Added
<1> QED
  BY <1>3, <1>4 DEF KillInv, LogGens


\* The parts of the next state are typed.
LEMMA NextTypes ==
  ASSUME ControlInv'
  PROVE  Pipeline' \in Seq(Ticket) /\ FiledGen' \in Nat /\ Settled' \in Nat
<1>1. popped' \in Ticket \cup {None} /\ tickets' \in Seq(Ticket) /\ gen' \in 1..MaxGen
  BY DEF ControlInv, ChainType
<1>2. Pipeline' = PipeOf(popped', tickets')
  BY DEF Pipeline, PipeOf
<1>3. Pipeline' \in Seq(Ticket)
  BY <1>1, <1>2, PipeParts DEF PipeShape
<1>4. gen' \in Nat /\ gen' - 1 \in Nat
  <2>1. \A n \in 1..MaxGen : n \in Nat /\ n - 1 \in Nat
    BY IndexingChainAssumption
  <2> QED
    BY <1>1, <2>1
<1>5. FiledGen' \in {gen', gen' - 1} /\ Settled' \in {gen', gen' - 1}
  BY DEF FiledGen, Settled
<1> QED
  BY <1>3, <1>4, <1>5

\* Every step keeps the log within the current generation.
LEMMA LogGensStep ==
  ASSUME ControlInv, ControlInv', LogGens, StepEffect
  PROVE  LogGens'
<1>1. gen \in Nat /\ log \in Seq(Entry) /\ \A j \in 1..Len(log) : log[j].gen \in Nat
  BY LevelTypes, LogFacts DEF ControlInv, ChainType
<1>2. CASE log' = log /\ gen <= gen' /\ gen' \in Int
  BY <1>1, <1>2 DEF LogGens
<1>3. ASSUME NEW g \in 1..MaxGen, NEW add \in BOOLEAN, NEW kind \in {"none", "term", "query"}, g <= gen,
             log' = Append(log, OpEntry(g, add, kind)), gen' = gen
      PROVE  LogGens'
  <2>1. Len(log') = Len(log) + 1 /\ log'[Len(log) + 1].gen = g /\ \A j \in 1..Len(log) : log'[j] = log[j]
    BY <1>1, <1>3, OpLog DEF Grown
  <2> QED
    BY <1>1, <1>3, <2>1 DEF LogGens
<1>4. gen' \in Int
  BY IndexingChainAssumption DEF ControlInv, ChainType
<1>5. CASE MoveStep
  BY <1>2, <1>4, <1>5 DEF MoveStep
<1>6. ASSUME NEW g \in 1..MaxGen, NEW add \in BOOLEAN, NEW kind \in {"none", "term", "query"}, OperateStep(g, add, kind)
      PROVE  LogGens'
  BY <1>3, <1>6 DEF OperateStep, Operates
<1>7. ASSUME NEW kind \in {"term", "query"}, OperateAndFreezeStep(kind) PROVE LogGens'
  <2>1. gen \in 1..MaxGen /\ gen <= gen /\ FALSE \in BOOLEAN
    BY <1>1 DEF ControlInv, ChainType
  <2>2. log' = Append(log, OpEntry(gen, FALSE, kind)) /\ gen' = gen
    BY <1>7 DEF OperateAndFreezeStep, Operates
  <2> QED
    BY <1>3, <2>1, <2>2
<1>8. CASE (\E g \in 1..MaxGen, t \in Ticket : FreezeStep(g, t)) \/ PublishStep \/ ApplyStep
  BY <1>1, <1>2, <1>4, <1>8 DEF FreezeStep, PublishStep, ApplyStep
<1> QED
  BY <1>5, <1>6, <1>7, <1>8 DEF StepEffect

\* Half of the step in which delete_terms applies its deletes: the delete is buffered and not yet
\* frozen.
LEMMA OperatedPath ==
  ASSUME ControlInv, ControlInv', NEW pd, NEW kind \in {"term", "query"},
         Operates(Unticketed, Unticketed', pending, pd, log, log', gen, FALSE, kind), FiledGen <= gen,
         PathType(Unticketed, Pipeline, pending, index, log, FiledGen, Settled),
         Kills(Unticketed, Pipeline, pending, index, log, lost, FiledGen, Settled)
  PROVE  /\ Kills(Unticketed', Pipeline, pd, index, log', lost, FiledGen, Settled)
         /\ PathType(Unticketed', Pipeline, pd, index, log', FiledGen, Settled)
<1>1. gen \in 1..MaxGen /\ FALSE \in BOOLEAN
  BY DEF ControlInv, ChainType
<1>2. Kills(Unticketed', Pipeline, pd, index, log', lost, FiledGen, Settled)
  BY <1>1, OperationKeeps
<1>3. Unticketed' \subseteq Dwpt
  <2>1. \A s \in Inited' : active'[s] \in Dwpt
    BY DEF ControlInv, ChainType, Inited
  <2>2. \A i \in 1..Len(flushQueue') : flushQueue'[i] \in Dwpt
    BY DEF ControlInv, ChainType
  <2>3. \A f \in Taken' : hand'[f] \in Dwpt
    BY DEF ControlInv, ChainType, Taken, Busy
  <2> QED
    BY <2>1, <2>2, <2>3, UnticketedParts
<1>4. log' \in Seq(Entry)
  BY DEF ControlInv, ChainType
<1>5. pd \in [1..MaxGen -> SUBSET {"term", "query"}]
  BY <1>1 DEF Operates, PathType
<1> QED
  BY <1>2, <1>3, <1>4, <1>5 DEF PathType

\* Every step keeps the invariant.
LEMMA KillStep ==
  ASSUME Main \notin MayFail, ControlInv, DeleteTrigger \/ NoTrigger, KillInv, Next
  PROVE  KillInv'
<1> DEFINE Goal == Kills(Unticketed', Pipeline', pending', index', log', lost', FiledGen', Settled')
<1>1. /\ PathType(Unticketed, Pipeline, pending, index, log, FiledGen, Settled)
      /\ Kills(Unticketed, Pipeline, pending, index, log, lost, FiledGen, Settled)
  BY PathTyped DEF KillInv
<1>2. ControlInv' /\ StepEffect
  BY ControlStep, NextEffect
<1>3. Pipeline' \in Seq(Ticket) /\ FiledGen' \in Nat /\ Settled' \in Nat
  BY <1>2, NextTypes
<1>4. UNCHANGED <<gen, fullFlush>> => FiledGen' = FiledGen /\ Settled' = Settled
  BY DEF FiledGen, Settled
<1>5. ASSUME MoveStep PROVE Goal
  BY <1>1, <1>3, <1>5, MovesKeep DEF MoveStep
<1>6. ASSUME NEW g \in 1..MaxGen, NEW add \in BOOLEAN, NEW kind \in {"none", "term", "query"}, OperateStep(g, add, kind)
      PROVE  Goal
  <2>1. Kills(Unticketed', Pipeline, pending', index, log', lost, FiledGen, Settled)
    BY <1>1, <1>6, OperationKeeps DEF OperateStep
  <2> QED
    BY <1>4, <1>6, <2>1 DEF OperateStep
<1>7. ASSUME NEW g \in 1..MaxGen, NEW t \in Ticket, FreezeStep(g, t) PROVE Goal
  <2>1. Kills(Unticketed', Pipeline', pending', index, log, lost, FiledGen, Settled)
    BY <1>1, <1>7, FreezeKeeps DEF FreezeStep
  <2> QED
    BY <1>4, <1>7, <2>1 DEF FreezeStep
<1>8. ASSUME NEW kind \in {"term", "query"}, OperateAndFreezeStep(kind) PROVE Goal
  <2>1. PICK pd : /\ Operates(Unticketed, Unticketed', pending, pd, log, log', gen, FALSE, kind)
                  /\ Freezes(Unticketed', Unticketed', Pipeline, Pipeline', pd, pending', gen, GlobalTicket(pd[gen]))
                  /\ UNCHANGED <<index, lost, gen, fullFlush>> /\ FiledGen <= gen /\ gen <= Settled
    BY <1>8 DEF OperateAndFreezeStep
  <2>2. gen \in 1..MaxGen /\ FALSE \in BOOLEAN
    BY DEF ControlInv, ChainType
  <2>3. /\ Kills(Unticketed', Pipeline, pd, index, log', lost, FiledGen, Settled)
        /\ PathType(Unticketed', Pipeline, pd, index, log', FiledGen, Settled)
    BY <1>1, <1>2, <2>1, <2>2, OperatedPath
  <2>5. GlobalTicket(pd[gen]) \in Ticket /\ GlobalTicket(pd[gen]).dwpt = None
    BY <2>2, <2>3 DEF PathType, GlobalTicket, Ticket
  <2> DEFINE t == GlobalTicket(pd[gen])
  <2>6. t \in Ticket /\ t.dwpt = None /\ Freezes(Unticketed', Unticketed', Pipeline, Pipeline', pd, pending', gen, t)
    BY <2>1, <2>5
  <2> HIDE DEF t
  <2>7. Kills(Unticketed', Pipeline', pending', index, log', lost, FiledGen, Settled)
    BY <2>1, <2>2, <2>3, <2>6, FreezeKeeps
  <2> QED
    BY <1>4, <2>1, <2>7
<1>9. ASSUME PublishStep PROVE Goal
  <2>1. Kills(Unticketed, Pipeline', pending, index', log, lost, FiledGen, Settled)
    BY <1>1, <1>9, PublishKeeps DEF PublishStep
  <2> QED
    BY <1>4, <1>9, <2>1 DEF PublishStep
<1>10. ASSUME ApplyStep PROVE Goal
  <2>1. Kills(Unticketed, Pipeline, pending, index', log, lost, FiledGen, Settled)
    BY <1>1, <1>10, ApplyKeeps DEF ApplyStep
  <2> QED
    BY <1>4, <1>10, <2>1 DEF ApplyStep
<1>11. Goal
  BY <1>2, <1>5, <1>6, <1>7, <1>8, <1>9, <1>10 DEF StepEffect
<1>12. LogGens'
  BY <1>2, LogGensStep DEF KillInv
<1> QED
  BY <1>11, <1>12 DEF KillInv

\* No document vanishes, for any number of threads, daemons, operations and generations, with daemons
\* and documents that may fail, with deletes by term and by query, and with max_buffered_delete_terms
\* set or not: wherever a document has come, it is alive, or an error dropped it, or an operation
\* after it deletes it.  The flushes of Main do not fail: a failed full flush leaves DWPTs of the old
\* queue behind (IndexWriter::do_flush), and then the invariant Generations does not hold.
THEOREM NoDocVanishesCorrect ==
  ASSUME Main \notin MayFail
  PROVE  Spec => []NoDocVanishes
<1> DEFINE Inv == ControlInv /\ (DeleteTrigger \/ NoTrigger) /\ KillInv
<1>1. Init => Inv
  <2>1. Init => NoTrigger
    BY ActorFacts DEF Init, NoTrigger
  <2> QED
    BY <2>1, ControlInit, KillInit
<1>2. Inv /\ [Next]_vars => Inv'
  <2> SUFFICES ASSUME Inv, [Next]_vars PROVE Inv'
    OBVIOUS
  <2>1. ControlInv'
    BY ControlStep
  <2>2. CASE Next
    <3>1. (DeleteTrigger \/ NoTrigger)'
      BY <2>2, NoTriggerStep
    <3> QED
      BY <2>1, <2>2, <3>1, KillStep
  <2>3. CASE UNCHANGED vars
    <3>1. Unticketed' = Unticketed /\ Pipeline' = Pipeline /\ FiledGen' = FiledGen /\ Settled' = Settled
      BY <2>3 DEF vars, queueVars, dwptVars, ticketVars, fullVars, Unticketed, Inited, Elements,
         Pipeline, FiledGen, Settled
    <3>2. (DeleteTrigger \/ NoTrigger)'
      BY <2>3 DEF vars, NoTrigger
    <3>3. KillInv'
      BY <2>3, <3>1 DEF vars, queueVars, indexVars, history, KillInv, LogGens
    <3> QED
      BY <2>1, <3>2, <3>3
  <2> QED
    BY <2>2, <2>3
<1>3. Inv => NoDocVanishes
  <2> SUFFICES ASSUME Inv, NEW d \in Docs \ lost, d \notin AliveDocs PROVE Killed(d, gen)
    BY DEF NoDocVanishes
  <2>1. d \in Added(log) \ lost
    BY DEF Docs, Added
  <2>2. ~AliveIn(Unticketed, Pipeline, index, d)
    <3>1. \A w \in Unticketed : d \notin w.docs \ w.dead
      BY DEF AliveDocs, Buffered
    <3>2. \A i \in 1..Len(Pipeline) : Written(Pipeline[i]) => d \notin Pipeline[i].dwpt.docs \ Pipeline[i].dwpt.dead
      BY DEF AliveDocs, Buffered, Elements
    <3>3. \A x \in index.segs : d \notin x.live
      <4>1. d \notin LiveDocs(index)
        BY DEF AliveDocs
      <4> QED
        BY <4>1 DEF LiveDocs
    <3> QED
      BY <3>1, <3>2, <3>3 DEF AliveIn
  <2>3. KilledBy(log, d, Settled)
    BY <2>1, <2>2 DEF KillInv, Kills, Accounted
  <2>4. PICK j \in 1..Len(log) : Struck(log, d, j)
    BY <2>3 DEF KilledBy, KilledTo
  <2>5. log[j].gen <= gen
    BY DEF KillInv, LogGens
  <2> QED
    BY <2>4, <2>5 DEF Killed, Deletes, Before, Struck
<1> HIDE DEF Inv
<1> QED
  BY <1>1, <1>2, <1>3, PTL DEF Spec

-----------------------------------------------------------------------------
(* No delete is lost on its way to a document.                              *)

\* A delete of the log that its queue has not frozen.
Awaits(pd, lg, j) == lg[j].del \in pd[lg[j].gen]
Unsettled(pd, lg, st) ==
  \A j \in 1..Len(lg) : lg[j].del # "none" /\ lg[j].gen > st => Awaits(pd, lg, j)
\* A delete after a document of a DWPT that has no ticket has been taken in, if it is of the queue of
\* the DWPT ...
CarryU(U, lg) ==
  \A w \in U : \A d \in w.docs \ w.dead : \A j \in 1..Len(lg) :
    Struck(lg, d, j) /\ lg[j].gen = w.gen => d \in w.doomed
\* ... a delete after a document of a ticket has been taken in, or is in its queue, or in a ticket
\* behind ...
CarryP(P, pd, lg) ==
  \A i \in 1..Len(P) : Written(P[i]) =>
    \A d \in P[i].dwpt.docs \ P[i].dwpt.dead : \A j \in 1..Len(lg) : Struck(lg, d, j) =>
      \/ d \in P[i].dwpt.doomed
      \/ Awaits(pd, lg, j)
      \/ \E h \in 1..Len(P) : i < h /\ lg[j].del \in P[h].dels
\* ... and a delete after a live document of a segment is in its queue, in a ticket, or in a packet
\* that strikes the document.
Strikes(p, x, d, k) == Applies(p, x) /\ (IF p.private THEN d \in p.docs ELSE k \in p.dels)
CarryS(P, pd, ix, lg) ==
  \A x \in ix.segs : \A d \in x.live : \A j \in 1..Len(lg) : Struck(lg, d, j) =>
    \/ Awaits(pd, lg, j)
    \/ \E h \in 1..Len(P) : lg[j].del \in P[h].dels
    \/ \E p \in Elements(ix.stream) : Strikes(p, x, d, lg[j].del)
\* A document is in one DWPT or in one segment.
Apart(U, P, ix) ==
  /\ \A i, k \in 1..Len(P) : i # k /\ P[i].dwpt # None /\ P[k].dwpt # None =>
       P[i].dwpt.docs \cap P[k].dwpt.docs = {}
  /\ \A i \in 1..Len(P) : P[i].dwpt # None => \A w \in U : w.docs \cap P[i].dwpt.docs = {}
  /\ \A i \in 1..Len(P) : P[i].dwpt # None => \A x \in ix.segs : x.docs \cap P[i].dwpt.docs = {}
  /\ \A x, y \in ix.segs : x # y => x.docs \cap y.docs = {}
  /\ \A x \in ix.segs, w \in U : x.docs \cap w.docs = {}
\* The invariant of the deletes on their way.
Carries(U, P, pd, ix, lg, st) ==
  /\ Unsettled(pd, lg, st) /\ CarryU(U, lg) /\ CarryP(P, pd, lg) /\ CarryS(P, pd, ix, lg) /\ Apart(U, P, ix)

\* Moving a DWPT or a ticket along leaves every delete on its way.
LEMMA MovesCarry ==
  ASSUME NEW U, NEW P, NEW pd, NEW ix, NEW lg \in Seq(Entry), NEW ls, NEW st \in Nat,
         NEW U2, NEW P2, NEW ls2, NEW st2 \in Nat,
         Carries(U, P, pd, ix, lg, st), Moves(U, U2, P, P2, ls, ls2), st <= st2
  PROVE  Carries(U2, P2, pd, ix, lg, st2)
<1> USE DEF Moves, Carries
<1>1. Unsettled(pd, lg, st2)
  BY LogFacts DEF Unsettled
<1>2. CarryU(U2, lg)
  BY DEF CarryU
<1>3. CarryP(P2, pd, lg)
  BY DEF CarryP
<1>4. CarryS(P2, pd, ix, lg)
  BY DEF CarryS
<1>5. Apart(U2, P2, ix)
  BY DEF Apart
<1> QED
  BY <1>1, <1>2, <1>3, <1>4, <1>5

\* An operation leaves the deletes before it where they are, and awaits its own.
Awaited(pd, pd2, lg, lg2, kind) ==
  /\ \A j \in 1..Len(lg) : Awaits(pd, lg, j) => Awaits(pd2, lg2, j)
  /\ kind # "none" => Awaits(pd2, lg2, Len(lg) + 1)
  /\ \A d, j \in 1..Len(lg) : Struck(lg2, d, j) <=> Struck(lg, d, j)

\* The log and the queue after an operation are as Awaited says.
LEMMA OperationAwaits ==
  ASSUME NEW pd \in [1..MaxGen -> SUBSET {"term", "query"}], NEW lg \in Seq(Entry), NEW pd2, NEW lg2,
         NEW g \in 1..MaxGen, NEW add \in BOOLEAN, NEW kind \in {"none", "term", "query"},
         lg2 = Append(lg, OpEntry(g, add, kind)), pd2 = [pd EXCEPT ![g] = @ \cup ({kind} \ {"none"})]
  PROVE  Awaited(pd, pd2, lg, lg2, kind)
<1>1. /\ lg2[Len(lg) + 1].gen = g /\ lg2[Len(lg) + 1].del = kind
      /\ \A j \in 1..Len(lg) : lg2[j] = lg[j]
  BY OpLog DEF Grown
<1>2. \A h \in 1..MaxGen : pd[h] \subseteq pd2[h]
  OBVIOUS
<1>3. kind # "none" => kind \in pd2[g]
  OBVIOUS
<1>4. \A j \in 1..Len(lg) : lg[j].gen \in 1..MaxGen
  <2>1. \A j \in 1..Len(lg) : lg[j] \in Entry
    OBVIOUS
  <2> QED
    BY <2>1 DEF Entry
<1>5. \A d, j \in 1..Len(lg) : Struck(lg2, d, j) <=> Struck(lg, d, j)
  BY <1>1 DEF Struck
<1>6. \A j \in 1..Len(lg) : Awaits(pd, lg, j) => Awaits(pd2, lg2, j)
  BY <1>1, <1>2, <1>4 DEF Awaits
<1>7. kind # "none" => Awaits(pd2, lg2, Len(lg) + 1)
  BY <1>1, <1>3 DEF Awaits
<1> QED
  BY <1>5, <1>6, <1>7 DEF Awaited

\* After an operation every delete is still on its way: the new one is taken in by the DWPTs of its
\* queue and is in the queue for all that is older.
LEMMA OperationCarries ==
  ASSUME NEW U, NEW P, NEW pd, NEW ix, NEW lg, NEW ls, NEW sd, NEW st, NEW U2, NEW pd2, NEW lg2,
         NEW g \in 1..MaxGen, NEW add \in BOOLEAN, NEW kind \in {"none", "term", "query"},
         PathType(U, P, pd, ix, lg, sd, st), Kills(U, P, pd, ix, lg, ls, sd, st), Carries(U, P, pd, ix, lg, st),
         Operates(U, U2, pd, pd2, lg, lg2, g, add, kind)
  PROVE  Carries(U2, P, pd2, ix, lg2, st)
<1> DEFINE n == Len(lg) + 1
<1> USE DEF PathType
<1>1. lg2 = Append(lg, OpEntry(g, add, kind)) /\ pd2 = [pd EXCEPT ![g] = @ \cup ({kind} \ {"none"})]
  BY DEF Operates
<1>2. Grown(lg, lg2, g, add, kind) /\ Awaited(pd, pd2, lg, lg2, kind)
  BY <1>1, OpLog, OperationAwaits, ZenonT(40)
<1>3. /\ Len(lg) \in Nat /\ n \in Nat /\ Len(lg2) = n /\ lg2[n].gen = g /\ lg2[n].del = kind
      /\ \A j \in 1..Len(lg) : lg2[j] = lg[j]
      /\ \A j \in 1..Len(lg2) : j \in 1..Len(lg) \/ j = n
      /\ n \notin 1..Len(lg) /\ g \in Nat
  <2>1. Len(lg2) = n /\ lg2[n].gen = g /\ lg2[n].del = kind /\ \A j \in 1..Len(lg) : lg2[j] = lg[j]
    BY <1>2 DEF Grown
  <2>2. Len(lg) \in Nat /\ g \in Nat
    BY IndexingChainAssumption
  <2> QED
    BY <2>1, <2>2, SMTT(30)
<1>4. /\ \A j \in 1..Len(lg) : Awaits(pd, lg, j) => Awaits(pd2, lg2, j)
      /\ kind # "none" => Awaits(pd2, lg2, n)
      /\ \A d, j \in 1..Len(lg) : Struck(lg2, d, j) <=> Struck(lg, d, j)
  BY <1>2 DEF Awaited
<1> HIDE DEF n
<1>5. \A w \in U : w.docs \subseteq 1..Len(lg) /\ w \in Dwpt
  BY DEF Kills, Fresh, DwptOK, Added
<1>6. \A i \in 1..Len(P) : P[i].dwpt # None => P[i].dwpt.docs \subseteq 1..Len(lg)
  <2> SUFFICES ASSUME NEW i \in 1..Len(P), P[i].dwpt # None PROVE P[i].dwpt.docs \subseteq 1..Len(lg)
    OBVIOUS
  <2> QED
    BY DEF Kills, Filed, DwptOK, Added
<1>7. \A x \in ix.segs : x.docs \subseteq 1..Len(lg) /\ x.live \subseteq x.docs
  BY DEF Kills, Segments, Added
<1>8. Unsettled(pd2, lg2, st)
  BY <1>3, <1>4 DEF Carries, Unsettled
<1>9. NewDwpt(g) \in Dwpt /\ NewDwpt(g).docs = {}
  BY NewDwptFacts
<1>10. \A v \in U2 : \E w \in U \cup {NewDwpt(g)} : v.docs \subseteq w.docs \cup {n}
  <2> SUFFICES ASSUME NEW v \in U2 PROVE \E w \in U \cup {NewDwpt(g)} : v.docs \subseteq w.docs \cup {n}
    OBVIOUS
  <2>1. PICK w \in U \cup {NewDwpt(g)} : v = Kill(w, g, kind) \/ v = AddDoc(Kill(w, g, kind), n)
    BY DEF Operates, n
  <2>2. w \in Dwpt
    BY <1>5, <1>9
  <2> QED
    BY <1>3, <2>1, <2>2, KillType, AddDocFacts
<1>11. Apart(U2, P, ix)
  <2>1. \A i \in 1..Len(P) : P[i].dwpt # None => \A v \in U2 : v.docs \cap P[i].dwpt.docs = {}
    <3> SUFFICES ASSUME NEW i \in 1..Len(P), P[i].dwpt # None, NEW v \in U2 PROVE v.docs \cap P[i].dwpt.docs = {}
      OBVIOUS
    <3>1. PICK w \in U \cup {NewDwpt(g)} : v.docs \subseteq w.docs \cup {n}
      BY <1>10
    <3>2. w.docs \cap P[i].dwpt.docs = {}
      BY <1>9 DEF Carries, Apart
    <3>3. n \notin P[i].dwpt.docs
      BY <1>3, <1>6
    <3> QED
      BY <3>1, <3>2, <3>3
  <2>2. \A x \in ix.segs, v \in U2 : x.docs \cap v.docs = {}
    <3> SUFFICES ASSUME NEW x \in ix.segs, NEW v \in U2 PROVE x.docs \cap v.docs = {}
      OBVIOUS
    <3>1. PICK w \in U \cup {NewDwpt(g)} : v.docs \subseteq w.docs \cup {n}
      BY <1>10
    <3>2. x.docs \cap w.docs = {}
      BY <1>9 DEF Carries, Apart
    <3>3. n \notin x.docs
      BY <1>3, <1>7
    <3> QED
      BY <3>1, <3>2, <3>3
  <2> QED
    BY <2>1, <2>2 DEF Carries, Apart
<1>12. CarryP(P, pd2, lg2)
  <2> SUFFICES ASSUME NEW i \in 1..Len(P), Written(P[i]), NEW d \in P[i].dwpt.docs \ P[i].dwpt.dead,
                      NEW j \in 1..Len(lg2), Struck(lg2, d, j)
               PROVE  \/ d \in P[i].dwpt.doomed \/ Awaits(pd2, lg2, j)
                      \/ \E h \in 1..Len(P) : i < h /\ lg2[j].del \in P[h].dels
    BY DEF CarryP
  <2>1. d \in 1..Len(lg)
    BY <1>6 DEF Written
  <2>2. CASE j = n
    BY <1>3, <1>4, <2>2 DEF Struck
  <2>3. CASE j \in 1..Len(lg)
    <3>1. Struck(lg, d, j) /\ lg2[j] = lg[j]
      BY <1>3, <1>4, <2>1, <2>3
    <3> QED
      BY <1>4, <2>3, <3>1 DEF Carries, CarryP
  <2> QED
    BY <1>3, <2>2, <2>3
<1>13. CarryS(P, pd2, ix, lg2)
  <2> SUFFICES ASSUME NEW x \in ix.segs, NEW d \in x.live, NEW j \in 1..Len(lg2), Struck(lg2, d, j)
               PROVE  \/ Awaits(pd2, lg2, j)
                      \/ \E h \in 1..Len(P) : lg2[j].del \in P[h].dels
                      \/ \E p \in Elements(ix.stream) : Strikes(p, x, d, lg2[j].del)
    BY DEF CarryS
  <2>1. d \in 1..Len(lg)
    BY <1>7
  <2>2. CASE j = n
    BY <1>3, <1>4, <2>2 DEF Struck
  <2>3. CASE j \in 1..Len(lg)
    <3>1. Struck(lg, d, j) /\ lg2[j] = lg[j]
      BY <1>3, <1>4, <2>1, <2>3
    <3> QED
      BY <1>4, <2>3, <3>1 DEF Carries, CarryS
  <2> QED
    BY <1>3, <2>2, <2>3
<1>14. CarryU(U2, lg2)
  <2> SUFFICES ASSUME NEW v \in U2, NEW d \in v.docs \ v.dead, NEW j \in 1..Len(lg2),
                      Struck(lg2, d, j), lg2[j].gen = v.gen
               PROVE  d \in v.doomed
    BY DEF CarryU
  <2>1. PICK w \in U \cup {NewDwpt(g)} :
          v = Kill(w, g, kind) \/ (add /\ w.gen = g /\ v = AddDoc(Kill(w, g, kind), n))
    BY DEF Operates, n
  <2> DEFINE k == Kill(w, g, kind)
  <2>2. /\ w \in Dwpt /\ k.gen = w.gen /\ k.docs = w.docs
        /\ k.dead = IF w.gen = g /\ kind = "term" THEN w.docs ELSE w.dead
        /\ k.doomed = IF w.gen = g /\ kind = "query" THEN w.docs ELSE w.doomed
    BY <1>5, <1>9, KillType
  <2>3. AddDoc(k, n).gen = w.gen /\ AddDoc(k, n).docs = w.docs \cup {n} /\ AddDoc(k, n).dead = k.dead /\ AddDoc(k, n).doomed = k.doomed
    BY <1>3, <2>2, AddDocFacts
  <2> HIDE DEF k
  <2>4. /\ v.gen = w.gen /\ v.dead = k.dead /\ v.doomed = k.doomed
        /\ d \in w.docs \/ (d = n /\ w.gen = g)
    BY <2>1, <2>2, <2>3 DEF k
  <2>5. CASE d \in w.docs
    <3>1. w \in U /\ d \in 1..Len(lg)
      BY <1>5, <1>9, <2>5
    <3>2. CASE j = n
      <4>1. w.gen = g /\ kind # "none"
        BY <1>3, <2>4, <3>2 DEF Struck
      <4> QED
        BY <2>2, <2>4, <2>5, <4>1
    <3>3. CASE j \in 1..Len(lg)
      <4>1. Struck(lg, d, j) /\ lg[j].gen = w.gen
        BY <1>3, <1>4, <2>4, <3>1, <3>3
      <4>2. CASE d \in w.dead
        <5>1. w.dead \subseteq w.docs
          BY <3>1 DEF Kills, Fresh, DwptOK
        <5> QED
          BY <2>2, <2>4, <4>2, <5>1
      <4>3. CASE d \notin w.dead
        <5>1. d \in w.doomed
          BY <2>5, <3>1, <3>3, <4>1, <4>3 DEF Carries, CarryU
        <5> QED
          BY <2>2, <2>4, <2>5, <5>1
      <4> QED
        BY <4>2, <4>3
    <3> QED
      BY <1>3, <3>2, <3>3
  <2>6. CASE d = n
    <3>0. n \notin w.docs
      BY <1>3, <1>5, <1>9
    <3>1. lg2[j].gen = lg2[n].gen /\ lg2[n].gen \in Nat
      BY <1>3, <2>4, <2>6, <3>0
    <3>2. n < j
      BY <2>6, <3>1 DEF Struck
    <3> QED
      BY <1>3, <3>2
  <2> QED
    BY <2>4, <2>5, <2>6
<1> QED
  BY <1>8, <1>11, <1>12, <1>13, <1>14 DEF Carries

\* Freezing a queue puts its deletes behind every document that they must meet.
LEMMA FreezeCarries ==
  ASSUME NEW U, NEW P, NEW pd, NEW ix, NEW lg, NEW ls, NEW sd, NEW st, NEW U2, NEW P2, NEW pd2,
         NEW g \in 1..MaxGen, NEW t \in Ticket,
         PathType(U, P, pd, ix, lg, sd, st), Kills(U, P, pd, ix, lg, ls, sd, st), Carries(U, P, pd, ix, lg, st),
         Freezes(U, U2, P, P2, pd, pd2, g, t), g <= st,
         t.dwpt # None => st <= g /\ \A w \in U2 : w.docs \cap t.dwpt.docs = {}
  PROVE  Carries(U2, P2, pd2, ix, lg, st)
<1> DEFINE n == Len(P) + 1
<1> USE DEF PathType
<1>1. /\ Len(P) \in Nat /\ Len(P2) = n /\ P2[n] = t /\ g \in Nat
      /\ \A i \in 1..Len(P) : P2[i] = P[i]
  BY AppendProperties, IndexingChainAssumption DEF Freezes
<1>2. \A i \in 1..Len(P2) : i \in 1..Len(P) \/ i = n
  BY <1>1
<1>3. n \in 1..Len(P2) /\ \A i \in 1..Len(P) : i \in 1..Len(P2) /\ i < n
  BY <1>1
<1> HIDE DEF n
<1>4. \A j \in 1..Len(lg) : lg[j].gen \in 1..MaxGen /\ lg[j].gen \in Nat
  <2>1. \A j \in 1..Len(lg) : lg[j] \in Entry
    OBVIOUS
  <2> QED
    BY <2>1, LogFacts DEF Entry
<1>5. \A j \in 1..Len(lg) : Awaits(pd, lg, j) => Awaits(pd2, lg, j) \/ (lg[j].gen = g /\ lg[j].del \in t.dels)
  BY <1>4 DEF Awaits, Freezes
<1>6. Unsettled(pd2, lg, st)
  <2> SUFFICES ASSUME NEW j \in 1..Len(lg), lg[j].del # "none", lg[j].gen > st PROVE Awaits(pd2, lg, j)
    BY DEF Unsettled
  <2>1. Awaits(pd, lg, j) /\ lg[j].gen # g
    BY <1>1, <1>4 DEF Carries, Unsettled
  <2> QED
    BY <1>5, <2>1
<1>7. CarryU(U2, lg)
  BY DEF Carries, CarryU, Freezes
<1>8. CarryS(P2, pd2, ix, lg)
  <2> SUFFICES ASSUME NEW x \in ix.segs, NEW d \in x.live, NEW j \in 1..Len(lg), Struck(lg, d, j)
               PROVE  \/ Awaits(pd2, lg, j)
                      \/ \E h \in 1..Len(P2) : lg[j].del \in P2[h].dels
                      \/ \E p \in Elements(ix.stream) : Strikes(p, x, d, lg[j].del)
    BY DEF CarryS
  <2>1. \/ Awaits(pd, lg, j)
        \/ \E h \in 1..Len(P) : lg[j].del \in P[h].dels
        \/ \E p \in Elements(ix.stream) : Strikes(p, x, d, lg[j].del)
    BY DEF Carries, CarryS
  <2> QED
    BY <1>1, <1>3, <1>5, <2>1
<1>9. CarryP(P2, pd2, lg)
  <2> SUFFICES ASSUME NEW i \in 1..Len(P2), Written(P2[i]), NEW d \in P2[i].dwpt.docs \ P2[i].dwpt.dead,
                      NEW j \in 1..Len(lg), Struck(lg, d, j)
               PROVE  \/ d \in P2[i].dwpt.doomed \/ Awaits(pd2, lg, j)
                      \/ \E h \in 1..Len(P2) : i < h /\ lg[j].del \in P2[h].dels
    BY DEF CarryP
  <2>1. CASE i \in 1..Len(P)
    <3>1. \/ d \in P[i].dwpt.doomed \/ Awaits(pd, lg, j)
          \/ \E h \in 1..Len(P) : i < h /\ lg[j].del \in P[h].dels
      BY <1>1, <2>1 DEF Carries, CarryP
    <3> QED
      BY <1>1, <1>3, <1>5, <2>1, <3>1
  <2>2. CASE i = n
    <3>1. t.dwpt # None /\ t.dwpt \in U /\ t.dwpt.gen = g /\ P2[i] = t
      BY <1>1, <2>2 DEF Freezes, Written
    <3>2. d \in t.dwpt.docs \ t.dwpt.dead /\ lg[d].gen = g
      BY <3>1 DEF Kills, Fresh, DwptOK
    <3>3. CASE lg[j].gen = g
      BY <3>1, <3>2, <3>3 DEF Carries, CarryU
    <3>4. CASE lg[j].gen # g
      <4>1. lg[j].gen > st /\ lg[j].del # "none"
        BY <1>1, <1>4, <3>1, <3>2, <3>4 DEF Struck
      <4> QED
        BY <1>6, <4>1 DEF Unsettled
    <3> QED
      BY <3>3, <3>4
  <2> QED
    BY <1>2, <2>1, <2>2
<1>10. Apart(U2, P2, ix)
  <2>1. \A i \in 1..Len(P) : t.dwpt # None /\ P[i].dwpt # None => P[i].dwpt.docs \cap t.dwpt.docs = {}
    BY DEF Carries, Apart, Freezes
  <2>2. \A x \in ix.segs : t.dwpt # None => x.docs \cap t.dwpt.docs = {}
    BY DEF Carries, Apart, Freezes
  <2>3. \A i, k \in 1..Len(P2) : i # k /\ P2[i].dwpt # None /\ P2[k].dwpt # None =>
          P2[i].dwpt.docs \cap P2[k].dwpt.docs = {}
    <3> SUFFICES ASSUME NEW i \in 1..Len(P2), NEW k \in 1..Len(P2), i # k, P2[i].dwpt # None, P2[k].dwpt # None
                 PROVE  P2[i].dwpt.docs \cap P2[k].dwpt.docs = {}
      OBVIOUS
    <3>1. CASE i \in 1..Len(P) /\ k \in 1..Len(P)
      BY <1>1, <3>1 DEF Carries, Apart
    <3>2. CASE i = n /\ k \in 1..Len(P)
      BY <1>1, <2>1, <3>2
    <3>3. CASE k = n /\ i \in 1..Len(P)
      BY <1>1, <2>1, <3>3
    <3> QED
      BY <1>2, <3>1, <3>2, <3>3
  <2>4. \A i \in 1..Len(P2) : P2[i].dwpt # None => \A w \in U2 : w.docs \cap P2[i].dwpt.docs = {}
    BY <1>1, <1>2 DEF Carries, Apart, Freezes
  <2>5. \A i \in 1..Len(P2) : P2[i].dwpt # None => \A x \in ix.segs : x.docs \cap P2[i].dwpt.docs = {}
    BY <1>1, <1>2, <2>2 DEF Carries, Apart
  <2> QED
    BY <2>3, <2>4, <2>5 DEF Carries, Apart, Freezes
<1> QED
  BY <1>6, <1>7, <1>8, <1>9, <1>10 DEF Carries

\* Publishing the first ticket takes its deletes from the pipeline to the stream, with a generation
\* above that of every segment that they must meet.
LEMMA PublishCarries ==
  ASSUME NEW U, NEW P, NEW pd, NEW ix, NEW lg, NEW ls, NEW sd, NEW st, NEW P2, NEW ix2,
         PathType(U, P, pd, ix, lg, sd, st), Kills(U, P, pd, ix, lg, ls, sd, st), Carries(U, P, pd, ix, lg, st),
         Leaves(P, P2), Attached(P[1]), P[1].status # "open", Published(ix, ix2, P[1])
  PROVE  Carries(U, P2, pd, ix2, lg, st)
<1> DEFINE t == P[1]
           n == After(ix, t)
           seg == SegmentOf(t.dwpt, n)
<1> USE DEF PathType
<1>1. /\ 1 \in 1..Len(P) /\ \A i \in 1..Len(P2) : i + 1 \in 1..Len(P) /\ 1 < i + 1 /\ P2[i] = P[i + 1]
      /\ \A h, i \in 1..Len(P2) : h < i => h + 1 < i + 1
      /\ \A i \in 1..Len(P) : i = 1 \/ (i - 1 \in 1..Len(P2) /\ P[i] = P2[i - 1])
  BY LeavesFacts
<1>2. t \in Ticket /\ ix.next \in Nat
  BY <1>1 DEF Index0
<1>3. t.status = "ready" => t.dwpt # None /\ Written(t)
  BY DEF Attached, Written
<1>4. seg.docs = t.dwpt.docs /\ seg.live = t.dwpt.docs \ t.dwpt.dead /\ seg.gen = n
  BY DEF SegmentOf
<1>5. /\ \A x \in ix2.segs : x \in ix.segs \/ (t.status = "ready" /\ x = seg)
      /\ Elements(ix.stream) \subseteq Elements(ix2.stream)
      /\ t.dels # {} => Global(ix.next, t.dels) \in Elements(ix2.stream)
      /\ t.status = "ready" /\ t.dwpt.doomed # {} => Private(n, t.dwpt.doomed) \in Elements(ix2.stream)
  BY DEF Published
<1> HIDE DEF t, n, seg
<1>6. \A x \in ix.segs : x.gen \in Nat /\ x.gen < ix.next
  BY DEF Index0, Segment, Kills, Segments
<1>7. \A i \in 1..Len(P) : i > 1 => \E k \in 1..Len(P2) : P[i] = P2[k] /\ i = k + 1
  <2> SUFFICES ASSUME NEW i \in 1..Len(P), i > 1 PROVE i - 1 \in 1..Len(P2) /\ P[i] = P2[i - 1] /\ i = (i - 1) + 1
    OBVIOUS
  <2>1. i \in Nat /\ i # 1
    OBVIOUS
  <2> QED
    BY <1>1, <2>1
<1>8. CarryP(P2, pd, lg)
  <2> SUFFICES ASSUME NEW i \in 1..Len(P2), Written(P2[i]), NEW d \in P2[i].dwpt.docs \ P2[i].dwpt.dead,
                      NEW j \in 1..Len(lg), Struck(lg, d, j)
               PROVE  \/ d \in P2[i].dwpt.doomed \/ Awaits(pd, lg, j)
                      \/ \E h \in 1..Len(P2) : i < h /\ lg[j].del \in P2[h].dels
    BY DEF CarryP
  <2>1. \/ d \in P[i + 1].dwpt.doomed \/ Awaits(pd, lg, j)
        \/ \E h \in 1..Len(P) : i + 1 < h /\ lg[j].del \in P[h].dels
    BY <1>1 DEF Carries, CarryP
  <2>2. ASSUME NEW h \in 1..Len(P), i + 1 < h, lg[j].del \in P[h].dels
        PROVE  \E k \in 1..Len(P2) : i < k /\ lg[j].del \in P2[k].dels
    <3>1. h > 1
      BY <2>2
    <3>2. PICK k \in 1..Len(P2) : P[h] = P2[k] /\ h = k + 1
      BY <1>7, <3>1
    <3>3. i < k
      BY <2>2, <3>2
    <3> QED
      BY <2>2, <3>2, <3>3
  <2> QED
    BY <1>1, <2>1, <2>2
<1>9. CarryS(P2, pd, ix2, lg)
  <2> SUFFICES ASSUME NEW x \in ix2.segs, NEW d \in x.live, NEW j \in 1..Len(lg), Struck(lg, d, j), ~Awaits(pd, lg, j)
               PROVE  \/ \E h \in 1..Len(P2) : lg[j].del \in P2[h].dels
                      \/ \E p \in Elements(ix2.stream) : Strikes(p, x, d, lg[j].del)
    BY DEF CarryS
  <2>1. CASE x \in ix.segs
    <3>1. CASE \E p \in Elements(ix.stream) : Strikes(p, x, d, lg[j].del)
      BY <1>5, <3>1
    <3>2. CASE \E h \in 1..Len(P) : lg[j].del \in P[h].dels
      <4>1. PICK h \in 1..Len(P) : lg[j].del \in P[h].dels
        BY <3>2
      <4>2. CASE h = 1
        <5>1. t.dels # {} /\ lg[j].del \in t.dels
          BY <4>1, <4>2 DEF t
        <5> DEFINE p == Global(ix.next, t.dels)
        <5>2. p \in Elements(ix2.stream)
          BY <1>5, <5>1
        <5>3. ~p.private /\ p.gen = ix.next /\ p.dels = t.dels
          BY DEF Global
        <5> HIDE DEF p
        <5>4. Strikes(p, x, d, lg[j].del)
          BY <1>2, <1>6, <2>1, <5>1, <5>3 DEF Strikes, Applies
        <5> QED
          BY <5>2, <5>4
      <4>3. CASE h # 1
        BY <1>1, <4>1, <4>3
      <4> QED
        BY <4>2, <4>3
    <3> QED
      BY <2>1, <3>1, <3>2 DEF Carries, CarryS
  <2>2. CASE t.status = "ready" /\ x = seg
    <3>1. d \in t.dwpt.docs \ t.dwpt.dead
      BY <1>4, <2>2
    <3>2. \/ d \in t.dwpt.doomed
          \/ \E h \in 1..Len(P) : 1 < h /\ lg[j].del \in P[h].dels
      BY <1>1, <1>3, <2>2, <3>1 DEF Carries, CarryP, t
    <3>3. CASE d \in t.dwpt.doomed
      <4> DEFINE p == Private(n, t.dwpt.doomed)
      <4>1. p \in Elements(ix2.stream)
        BY <1>5, <2>2, <3>3
      <4>2. p.private /\ p.gen = n /\ p.docs = t.dwpt.doomed
        BY DEF Private
      <4> HIDE DEF p
      <4>3. Strikes(p, x, d, lg[j].del)
        BY <1>4, <2>2, <3>3, <4>2 DEF Strikes, Applies
      <4> QED
        BY <4>1, <4>3
    <3>4. CASE \E h \in 1..Len(P) : 1 < h /\ lg[j].del \in P[h].dels
      BY <1>7, <3>4
    <3> QED
      BY <3>2, <3>3, <3>4
  <2> QED
    BY <1>5, <2>1, <2>2
<1>10. Apart(U, P2, ix2)
  <2>1. \A i, k \in 1..Len(P2) : i # k /\ P2[i].dwpt # None /\ P2[k].dwpt # None =>
          P2[i].dwpt.docs \cap P2[k].dwpt.docs = {}
    <3> SUFFICES ASSUME NEW i \in 1..Len(P2), NEW k \in 1..Len(P2), i # k, P2[i].dwpt # None, P2[k].dwpt # None
                 PROVE  P2[i].dwpt.docs \cap P2[k].dwpt.docs = {}
      OBVIOUS
    <3>1. i + 1 # k + 1
      OBVIOUS
    <3>2. i + 1 \in 1..Len(P) /\ k + 1 \in 1..Len(P) /\ P2[i] = P[i + 1] /\ P2[k] = P[k + 1]
      BY <1>1
    <3> QED
      BY <3>1, <3>2 DEF Carries, Apart
  <2>2. \A i \in 1..Len(P2) : P2[i].dwpt # None => \A w \in U : w.docs \cap P2[i].dwpt.docs = {}
    BY <1>1, SMTT(30) DEF Carries, Apart
  <2>3. \A i \in 1..Len(P2) : P2[i].dwpt # None => \A x \in ix2.segs : x.docs \cap P2[i].dwpt.docs = {}
    <3> SUFFICES ASSUME NEW i \in 1..Len(P2), P2[i].dwpt # None, NEW x \in ix2.segs PROVE x.docs \cap P2[i].dwpt.docs = {}
      OBVIOUS
    <3>1. CASE x \in ix.segs
      BY <1>1, <3>1, SMTT(30) DEF Carries, Apart
    <3>2. CASE t.status = "ready" /\ x = seg
      <4>1. i + 1 # 1
        BY <1>1
      <4> QED
        BY <1>1, <1>3, <1>4, <3>2, <4>1, SMTT(30) DEF Carries, Apart, t
    <3> QED
      BY <1>5, <3>1, <3>2
  <2>4. t.status = "ready" => \A x \in ix.segs : x.docs \cap seg.docs = {}
    BY <1>1, <1>3, <1>4 DEF Carries, Apart, t
  <2>5. \A x, y \in ix2.segs : x # y => x.docs \cap y.docs = {}
    BY <1>5, <2>4 DEF Carries, Apart
  <2>6. \A x \in ix2.segs, w \in U : x.docs \cap w.docs = {}
    <3>1. t.status = "ready" => \A w \in U : seg.docs \cap w.docs = {}
      BY <1>1, <1>3, <1>4 DEF Carries, Apart, t
    <3> QED
      BY <1>5, <3>1 DEF Carries, Apart
  <2> QED
    BY <2>1, <2>2, <2>3, <2>5, <2>6 DEF Apart
<1> QED
  BY <1>8, <1>9, <1>10 DEF Carries

\* Applying and pruning the stream drops no packet that a live document still has to meet.
LEMMA ApplyCarries ==
  ASSUME NEW U, NEW P, NEW pd, NEW ix, NEW lg, NEW ls, NEW sd, NEW st, NEW ix2,
         PathType(U, P, pd, ix, lg, sd, st), Kills(U, P, pd, ix, lg, ls, sd, st), Carries(U, P, pd, ix, lg, st),
         Applied(ix, ix2)
  PROVE  Carries(U, P, pd, ix2, lg, st)
<1> USE DEF PathType
<1>1. \A x \in ix.segs : x \in Segment /\ x.gen \in Nat /\ x.live \subseteq x.docs
  BY DEF Index0, Segment, Kills, Segments
<1>2. \A p \in Elements(ix.stream) : p.gen \in Nat
  BY StreamElements
<1>3. \A x \in ix.segs : Stamp(ix, x).docs = x.docs /\ Stamp(ix, x).live = x.live \ Deleted(ix, x)
  BY <1>1 DEF Stamp, Segment
<1>4. CASE ix2.segs = ix.segs
  <2>1. CarryS(P, pd, ix2, lg)
    <3> SUFFICES ASSUME NEW x \in ix.segs, NEW d \in x.live, NEW j \in 1..Len(lg), Struck(lg, d, j),
                        NEW p \in Elements(ix.stream), Strikes(p, x, d, lg[j].del)
                 PROVE  p \in Elements(ix2.stream)
      BY <1>4 DEF CarryS, Carries
    <3>1. p.gen >= x.gen
      BY <1>1, <1>2 DEF Strikes, Applies
    <3> QED
      BY <1>1, <1>2, <1>4, <3>1 DEF Applied
  <2>2. Apart(U, P, ix2)
    BY <1>4 DEF Carries, Apart
  <2> QED
    BY <2>1, <2>2 DEF Carries
<1>5. CASE \A y \in ix2.segs : \E x \in ix.segs : y = Stamp(ix, x)
  <2>1. CarryS(P, pd, ix2, lg)
    <3> SUFFICES ASSUME NEW y \in ix2.segs, NEW d \in y.live, NEW j \in 1..Len(lg), Struck(lg, d, j)
                 PROVE  Awaits(pd, lg, j) \/ \E h \in 1..Len(P) : lg[j].del \in P[h].dels
      BY DEF CarryS
    <3>1. PICK x \in ix.segs : y = Stamp(ix, x)
      BY <1>5
    <3>2. d \in x.live /\ d \in x.docs /\ d \notin Deleted(ix, x)
      BY <1>1, <1>3, <3>1
    <3>3. \A p \in Elements(ix.stream) : ~Strikes(p, x, d, lg[j].del)
      BY <3>2 DEF Strikes, Deleted
    <3> QED
      BY <3>2, <3>3 DEF Carries, CarryS
  <2>2. Apart(U, P, ix2)
    <3>1. \A y \in ix2.segs : \E x \in ix.segs : y = Stamp(ix, x) /\ y.docs = x.docs
      BY <1>3, <1>5
    <3>2. \A y, z \in ix2.segs : y # z => y.docs \cap z.docs = {}
      <4> SUFFICES ASSUME NEW y \in ix2.segs, NEW z \in ix2.segs, y # z PROVE y.docs \cap z.docs = {}
        OBVIOUS
      <4>1. PICK x \in ix.segs : y = Stamp(ix, x) /\ y.docs = x.docs
        BY <3>1
      <4>2. PICK v \in ix.segs : z = Stamp(ix, v) /\ z.docs = v.docs
        BY <3>1
      <4>3. x # v
        BY <4>1, <4>2
      <4> QED
        BY <4>1, <4>2, <4>3 DEF Carries, Apart
    <3>3. \A i \in 1..Len(P) : P[i].dwpt # None => \A x \in ix2.segs : x.docs \cap P[i].dwpt.docs = {}
      BY <3>1 DEF Carries, Apart
    <3>4. \A x \in ix2.segs, w \in U : x.docs \cap w.docs = {}
      BY <3>1 DEF Carries, Apart
    <3> QED
      BY <3>2, <3>3, <3>4 DEF Carries, Apart
  <2> QED
    BY <2>1, <2>2 DEF Carries
<1> QED
  BY <1>4, <1>5 DEF Applied

-----------------------------------------------------------------------------
\* A step that only takes DWPTs away keeps them apart.
LEMMA SlotsFrame ==
  ASSUME Slots, Inited' \subseteq Inited, \A s \in Inited' : active'[s] = active[s], flushQueue' = flushQueue,
         Taken' \subseteq Taken, \A f \in Taken' : hand'[f] = hand[f]
  PROVE  Slots'
BY DEF Slots

\* A DWPT is checked out.
LEMMA SlotsCheckOut ==
  ASSUME ControlInv, Slots, NEW s \in Inited, AddFlushableState(s), UNCHANGED hand, Taken' = Taken
  PROVE  Slots'
<1> DEFINE n == Len(flushQueue) + 1
<1>1. active[s] \in Dwpt /\ flushQueue \in Seq(Dwpt)
  BY DEF ControlInv, ChainType, Inited
<1>2. /\ Len(flushQueue) \in Nat /\ Len(flushQueue') = n /\ flushQueue'[n] = active[s]
      /\ \A i \in 1..Len(flushQueue) : flushQueue'[i] = flushQueue[i]
  BY <1>1, AppendProperties DEF AddFlushableState
<1>3. \A i \in 1..Len(flushQueue') : i \in 1..Len(flushQueue) \/ i = n
  BY <1>2
<1>4. Inited' = Inited \ {s} /\ \A u \in Inited \ {s} : active'[u] = active[u]
  BY DEF AddFlushableState, Inited, ControlInv, ChainType
<1> HIDE DEF n
<1>5. \A i, k \in 1..Len(flushQueue') : i # k => flushQueue'[i].docs \cap flushQueue'[k].docs = {}
  <2> SUFFICES ASSUME NEW i \in 1..Len(flushQueue'), NEW k \in 1..Len(flushQueue'), i # k
               PROVE  flushQueue'[i].docs \cap flushQueue'[k].docs = {}
    OBVIOUS
  <2>1. CASE i = n \/ k = n
    BY <1>2, <1>3, <2>1 DEF Slots
  <2>2. CASE i # n /\ k # n
    BY <1>2, <1>3, <2>2 DEF Slots
  <2> QED
    BY <2>1, <2>2
<1>6. \A u \in Inited', i \in 1..Len(flushQueue') : active'[u].docs \cap flushQueue'[i].docs = {}
  BY <1>2, <1>3, <1>4 DEF Slots
<1>7. \A i \in 1..Len(flushQueue'), f \in Taken : flushQueue'[i].docs \cap hand[f].docs = {}
  BY <1>2, <1>3 DEF Slots
<1> QED
  BY <1>4, <1>5, <1>6, <1>7 DEF Slots

\* A flusher takes a DWPT, from the flush queue or from a thread state.
LEMMA SlotsTake ==
  ASSUME ControlInv, Slots, NEW f \in Flushers, NextPendingFlush(f)
  PROVE  Slots'
<1> USE DEF ControlInv
<1>1. pc[f] = "idle" /\ pc' = [pc EXCEPT ![f] = "taken"] /\ pc \in [Actors -> PCs]
  BY DEF NextPendingFlush, MayTake, ChainType
<1>2. Taken' = Taken \cup {f} /\ f \notin Taken /\ Taken \subseteq Flushers
  BY <1>1 DEF Taken, Actors
<1>3. CASE flushQueue # <<>>
  <2>1. /\ flushQueue \in Seq(Dwpt) /\ Len(flushQueue) \in Nat /\ Len(flushQueue) > 0
        /\ Head(flushQueue) = flushQueue[1]
    BY <1>3 DEF ChainType
  <2>2. /\ Len(flushQueue') = Len(flushQueue) - 1
        /\ \A i \in 1..Len(flushQueue') : flushQueue'[i] = flushQueue[i + 1]
    BY <1>3, <2>1, HeadTailProperties DEF NextPendingFlush
  <2>3. /\ \A i \in 1..Len(flushQueue') : i + 1 \in 1..Len(flushQueue) /\ i + 1 # 1
        /\ 1 \in 1..Len(flushQueue)
        /\ \A i, k \in 1..Len(flushQueue') : i # k => i + 1 # k + 1
    BY <2>1, <2>2
  <2>4. hand' = [hand EXCEPT ![f] = flushQueue[1]] /\ active' = active
    BY <1>3, <2>1 DEF NextPendingFlush
  <2>5. hand'[f] = flushQueue[1] /\ \A h \in Taken : hand'[h] = hand[h]
    BY <1>2, <2>4 DEF ChainType
  <2>6. Inited' = Inited
    BY <2>4 DEF Inited
  <2>7. \A g, h \in Taken' : g # h => hand'[g].docs \cap hand'[h].docs = {}
    BY <1>2, <2>3, <2>5 DEF Slots
  <2>8. \A i \in 1..Len(flushQueue'), h \in Taken' : flushQueue'[i].docs \cap hand'[h].docs = {}
    <3> SUFFICES ASSUME NEW i \in 1..Len(flushQueue'), NEW h \in Taken'
                 PROVE  flushQueue'[i].docs \cap hand'[h].docs = {}
      OBVIOUS
    <3> DEFINE k == i + 1
    <3>1. k \in 1..Len(flushQueue) /\ k # 1 /\ 1 \in 1..Len(flushQueue) /\ flushQueue'[i] = flushQueue[k]
      BY <2>2, <2>3
    <3> HIDE DEF k
    <3>2. CASE h = f
      BY <2>5, <3>1, <3>2 DEF Slots
    <3>3. CASE h \in Taken
      BY <2>5, <3>1, <3>3 DEF Slots
    <3> QED
      BY <1>2, <3>2, <3>3
  <2>9. \A s \in Inited, h \in Taken' : active[s].docs \cap hand'[h].docs = {}
    BY <1>2, <2>3, <2>5 DEF Slots
  <2>10. \A i, k \in 1..Len(flushQueue') : i # k => flushQueue'[i].docs \cap flushQueue'[k].docs = {}
    BY <2>2, <2>3 DEF Slots
  <2>11. \A s \in Inited, i \in 1..Len(flushQueue') : active[s].docs \cap flushQueue'[i].docs = {}
    BY <2>2, <2>3 DEF Slots
  <2> QED
    BY <2>4, <2>6, <2>7, <2>8, <2>9, <2>10, <2>11 DEF Slots
<1>4. CASE flushQueue = <<>>
  <2>1. PICK s \in flushPending : /\ hand' = [hand EXCEPT ![f] = active[s]]
                                  /\ active' = [active EXCEPT ![s] = None]
                                  /\ flushQueue' = flushQueue
    BY <1>4 DEF NextPendingFlush
  <2>2. s \in Inited /\ hand'[f] = active[s] /\ \A h \in Taken : hand'[h] = hand[h]
    BY <1>2, <2>1 DEF ChainType
  <2>3. Inited' = Inited \ {s} /\ \A u \in Inited \ {s} : active'[u] = active[u]
    BY <2>1 DEF Inited, ChainType
  <2>4. \A g, h \in Taken' : g # h => hand'[g].docs \cap hand'[h].docs = {}
    BY <1>2, <2>2 DEF Slots
  <2>5. \A i \in 1..Len(flushQueue), h \in Taken' : flushQueue[i].docs \cap hand'[h].docs = {}
    BY <1>2, <2>2 DEF Slots
  <2>6. \A u \in Inited', h \in Taken' : active'[u].docs \cap hand'[h].docs = {}
    BY <1>2, <2>2, <2>3 DEF Slots
  <2> QED
    BY <2>1, <2>3, <2>4, <2>5, <2>6 DEF Slots
<1> QED
  BY <1>3, <1>4

\* An operation adds a new document to one DWPT at most.
LEMMA SlotsOperate ==
  ASSUME ControlInv, Slots, Fresh(Unticketed, log), NEW s, NEW g, NEW kind,
         \A f \in Flushers : pc'[f] = pc[f],
         flushQueue' = [i \in 1..Len(flushQueue) |-> Kill(flushQueue[i], g, kind)],
         hand' = [f \in Flushers |-> IF pc[f] = "taken" THEN Kill(hand[f], g, kind) ELSE hand[f]],
         \A u \in Inited' : u # s => u \in Inited /\ active'[u].docs = active[u].docs,
         s \in Inited' => /\ s \in Inited => active'[s].docs \subseteq active[s].docs \cup {Len(log) + 1}
                          /\ s \notin Inited => active'[s].docs \subseteq {Len(log) + 1}
  PROVE  Slots'
<1> DEFINE n == Len(log) + 1
<1>1. /\ Len(flushQueue') = Len(flushQueue)
      /\ \A i \in 1..Len(flushQueue) : flushQueue'[i] = Kill(flushQueue[i], g, kind)
      /\ \A f \in Taken : hand'[f] = Kill(hand[f], g, kind)
      /\ Taken' = Taken
  BY KillSlots
<1>2. \A i \in 1..Len(flushQueue) : flushQueue'[i].docs = flushQueue[i].docs
  <2>1. \A i \in 1..Len(flushQueue) : flushQueue[i] \in Dwpt
    BY DEF ControlInv, ChainType
  <2> QED
    BY <1>1, <2>1, KillType
<1>3. \A f \in Taken : hand'[f].docs = hand[f].docs
  <2>1. \A f \in Taken : hand[f] \in Dwpt
    BY DEF ControlInv, ChainType, Taken, Busy
  <2> QED
    BY <1>1, <2>1, KillType
<1>4. \A w \in Unticketed : n \notin w.docs
  <2>1. Len(log) \in Nat
    BY DEF ControlInv, ChainType
  <2> QED
    BY <2>1 DEF Fresh, DwptOK, Added
<1> HIDE DEF n
<1>5. /\ \A u \in Inited : n \notin active[u].docs
      /\ \A i \in 1..Len(flushQueue) : n \notin flushQueue[i].docs
      /\ \A f \in Taken : n \notin hand[f].docs
  BY <1>4, UnticketedParts
<1>6. \A u \in Inited' : \/ u \in Inited /\ active'[u].docs = active[u].docs
                         \/ u = s /\ u \in Inited /\ active'[u].docs \subseteq active[u].docs \cup {n}
                         \/ u = s /\ active'[u].docs \subseteq {n}
  BY DEF n
<1>7. \A u, v \in Inited' : u # v => active'[u].docs \cap active'[v].docs = {}
  <2> SUFFICES ASSUME NEW u \in Inited', NEW v \in Inited', u # v PROVE active'[u].docs \cap active'[v].docs = {}
    OBVIOUS
  <2>1. CASE u # s /\ v # s
    BY <2>1 DEF Slots
  <2>2. CASE u = s
    <3>1. v \in Inited /\ active'[v].docs = active[v].docs /\ n \notin active[v].docs
      BY <1>5, <2>2
    <3>2. u \in Inited => active[u].docs \cap active[v].docs = {}
      BY <3>1 DEF Slots
    <3> QED
      BY <1>6, <2>2, <3>1, <3>2
  <2>3. CASE v = s
    <3>1. u \in Inited /\ active'[u].docs = active[u].docs /\ n \notin active[u].docs
      BY <1>5, <2>3
    <3>2. v \in Inited => active[v].docs \cap active[u].docs = {}
      BY <3>1 DEF Slots
    <3> QED
      BY <1>6, <2>3, <3>1, <3>2
  <2> QED
    BY <2>1, <2>2, <2>3
<1>8. \A u \in Inited', i \in 1..Len(flushQueue') : active'[u].docs \cap flushQueue'[i].docs = {}
  <2> SUFFICES ASSUME NEW u \in Inited', NEW i \in 1..Len(flushQueue) PROVE active'[u].docs \cap flushQueue[i].docs = {}
    BY <1>1, <1>2
  <2>1. u \in Inited => active[u].docs \cap flushQueue[i].docs = {}
    BY DEF Slots
  <2> QED
    BY <1>5, <1>6, <2>1
<1>9. \A u \in Inited', f \in Taken' : active'[u].docs \cap hand'[f].docs = {}
  <2> SUFFICES ASSUME NEW u \in Inited', NEW f \in Taken PROVE active'[u].docs \cap hand[f].docs = {}
    BY <1>1, <1>3
  <2>1. u \in Inited => active[u].docs \cap hand[f].docs = {}
    BY DEF Slots
  <2> QED
    BY <1>5, <1>6, <2>1
<1>10. \A i, k \in 1..Len(flushQueue') : i # k => flushQueue'[i].docs \cap flushQueue'[k].docs = {}
  <2> SUFFICES ASSUME NEW i \in 1..Len(flushQueue), NEW k \in 1..Len(flushQueue), i # k
               PROVE  flushQueue[i].docs \cap flushQueue[k].docs = {}
    BY <1>1, <1>2
  <2> QED
    BY DEF Slots
<1>11. \A f, h \in Taken' : f # h => hand'[f].docs \cap hand'[h].docs = {}
  <2> SUFFICES ASSUME NEW f \in Taken, NEW h \in Taken, f # h PROVE hand[f].docs \cap hand[h].docs = {}
    BY <1>1, <1>3
  <2> QED
    BY DEF Slots
<1>12. \A i \in 1..Len(flushQueue'), f \in Taken' : flushQueue'[i].docs \cap hand'[f].docs = {}
  <2> SUFFICES ASSUME NEW i \in 1..Len(flushQueue'), NEW f \in Taken' PROVE flushQueue'[i].docs \cap hand'[f].docs = {}
    OBVIOUS
  <2>1. i \in 1..Len(flushQueue) /\ f \in Taken
    BY <1>1
  <2>2. flushQueue'[i].docs = flushQueue[i].docs /\ hand'[f].docs = hand[f].docs
    BY <1>2, <1>3, <2>1
  <2> QED
    BY <2>1, <2>2 DEF Slots
<1> QED
  BY <1>7, <1>8, <1>9, <1>10, <1>11, <1>12 DEF Slots

\* Every step keeps the DWPTs without a ticket apart.
LEMMA SlotsStep ==
  ASSUME ControlInv, Slots, Fresh(Unticketed, log), Next
  PROVE  Slots'
<1> USE ActorFacts DEF ControlInv
<1>1. ASSUME NEW s \in States, Obtain(s) \/ MarkState(s) PROVE Slots'
  <2>1. Taken' = Taken /\ hand' = hand
    BY <1>1 DEF Obtain, MarkState, ChainType, Taken
  <2>2. CASE s \in Inited /\ AddFlushableState(s)
    BY <2>1, <2>2, SlotsCheckOut
  <2>3. CASE UNCHANGED <<active, flushQueue>>
    BY <2>1, <2>3, SlotsFrame DEF Inited
  <2> QED
    BY <1>1, <2>2, <2>3 DEF Obtain, MarkState
<1>2. ASSUME NEW s \in States, IndexFails(s) PROVE Slots'
  <2>1. Inited' \subseteq Inited /\ \A u \in Inited' : active'[u] = active[u]
    BY <1>2 DEF IndexFails, Inited, ChainType
  <2>2. Taken' = Taken /\ hand' = hand /\ flushQueue' = flushQueue
    BY <1>2 DEF IndexFails, Taken, ChainType
  <2> QED
    BY <2>1, <2>2, SlotsFrame
<1>3. ASSUME NEW s \in States, NEW kind \in {"none", "term"}, Index(s, kind) PROVE Slots'
  <2> DEFINE w == Target(s)
             n == Len(log) + 1
  <2>1. w \in Dwpt /\ n \in Nat
    BY TargetFacts DEF ChainType
  <2>2. /\ active' = [u \in States |-> IF u = s THEN AddDoc(Kill(w, w.gen, kind), n) ELSE Kill(active[u], w.gen, kind)]
        /\ flushQueue' = [i \in 1..Len(flushQueue) |-> Kill(flushQueue[i], w.gen, kind)]
        /\ hand' = [f \in Flushers |-> IF pc[f] = "taken" THEN Kill(hand[f], w.gen, kind) ELSE hand[f]]
    BY <1>3 DEF Index, Buffer, Target
  <2>3. \A f \in Flushers : pc'[f] = pc[f]
    BY <1>3 DEF Index, ChainType
  <2>4. active'[s].docs = w.docs \cup {n}
    BY <2>1, <2>2, AddDocFacts
  <2>5. \A u \in Inited' : u # s => u \in Inited /\ active'[u].docs = active[u].docs
    <3> SUFFICES ASSUME NEW u \in Inited', u # s PROVE u \in Inited /\ active'[u].docs = active[u].docs
      OBVIOUS
    <3>1. active'[u] = Kill(active[u], w.gen, kind) /\ active'[u] # None /\ u \in States
      BY <2>2 DEF Inited
    <3>2. active[u] \in Dwpt
      BY <3>1, KillNone DEF ChainType
    <3> QED
      BY <3>1, <3>2, KillType, NoneAssumption DEF Inited
  <2>6. (s \in Inited => w = active[s]) /\ (s \notin Inited => w.docs = {})
    BY NewDwptFacts DEF Target, ChainType
  <2> HIDE DEF w
  <2>7. /\ s \in Inited => active'[s].docs \subseteq active[s].docs \cup {Len(log) + 1}
        /\ s \notin Inited => active'[s].docs \subseteq {Len(log) + 1}
    BY <2>4, <2>6
  <2> HIDE DEF n
  <2> QED
    BY <2>2, <2>3, <2>5, <2>7, SlotsOperate
<1>4. ASSUME NEW kind \in Kinds, Delete(kind) PROVE Slots'
  <2>1. /\ active' = [u \in States |-> Kill(active[u], gen, kind)]
        /\ flushQueue' = [i \in 1..Len(flushQueue) |-> Kill(flushQueue[i], gen, kind)]
        /\ hand' = [f \in Flushers |-> IF pc[f] = "taken" THEN Kill(hand[f], gen, kind) ELSE hand[f]]
        /\ pc' = pc
    BY <1>4 DEF Delete
  <2>2. \A u \in Inited' : u \in Inited /\ active'[u].docs = active[u].docs
    <3> SUFFICES ASSUME NEW u \in Inited' PROVE u \in Inited /\ active'[u].docs = active[u].docs
      OBVIOUS
    <3>1. active'[u] = Kill(active[u], gen, kind) /\ active'[u] # None /\ u \in States
      BY <2>1 DEF Inited
    <3>2. active[u] \in Dwpt
      BY <3>1, KillNone DEF ChainType
    <3> QED
      BY <3>1, <3>2, KillType, NoneAssumption DEF Inited
  <2>3. Main \notin Inited'
    BY DEF Inited
  <2> QED
    BY <2>1, <2>2, <2>3, SlotsOperate
<1>5. ASSUME NEW f \in Flushers, NextPendingFlush(f) PROVE Slots'
  BY <1>5, SlotsTake
<1>6. ASSUME NEW f \in Flushers, AddFlushTicket(f) \/ FlushDwpt(f) \/ AfterFlush(f) PROVE Slots'
  <2>1. UNCHANGED <<active, flushQueue>>
    BY <1>6 DEF AddFlushTicket, FlushDwpt, AfterFlush, dwptVars
  <2>2. Taken' \subseteq Taken /\ \A h \in Taken' : h # f
    BY <1>6 DEF AddFlushTicket, FlushDwpt, AfterFlush, ChainType, Taken
  <2>3. \A h \in Flushers : h # f => hand'[h] = hand[h]
    BY <1>6 DEF AddFlushTicket, FlushDwpt, AfterFlush, ChainType, dwptVars
  <2>4. Inited' = Inited /\ Taken \subseteq Flushers
    BY <2>1 DEF Inited, Taken
  <2> QED
    BY <2>1, <2>2, <2>3, <2>4, SlotsFrame
<1>7. ASSUME NEW x \in Actors, Local(x) PROVE Slots'
  <2>1. UNCHANGED <<active, flushQueue, hand>>
    BY <1>7 DEF Local, ApplyAllDeletesLocal, AddDeletes, dwptVars
  <2>2. Taken' \subseteq Taken
    BY <1>7 DEF Local, ApplyAllDeletesLocal, AddDeletes, ChainType, Taken
  <2> QED
    BY <2>1, <2>2, SlotsFrame DEF Inited
<1>8. CASE UNCHANGED <<dwptVars, pc>>
  BY <1>8, SlotsFrame DEF dwptVars, Inited, Taken
<1>9. CASE \/ Events \/ WaitForFlush \/ ForcePurge \/ EndForcePurge \/ ApplyAndSnapshot \/ FinishFullFlush
           \/ \E m \in Modes : BeginFullFlush(m)
  <2>1. UNCHANGED <<dwptVars, pc>>
    BY <1>9 DEF Events, BeginEvent, PopHead, PublishPopped, EndEvent, ApplyEvent, WaitForFlush,
       ForcePurge,
       EndForcePurge, ApplyAndSnapshot, FinishFullFlush, BeginFullFlush
  <2> QED
    BY <1>8, <2>1
<1> HIDE DEF ControlInv
<1> QED
  BY <1>1, <1>2, <1>3, <1>4, <1>5, <1>6, <1>7, <1>9 DEF Next, Operation, Work, FullFlush

-----------------------------------------------------------------------------
\* The invariant of the deletes on their way, on the variables.
CarryInv == Slots /\ Carries(Unticketed, Pipeline, pending, index, log, Settled)

\* No DWPT without a ticket is older than the queues whose deletes are all frozen or known.
LEMMA Young ==
  ASSUME ControlInv, ~DeleteTrigger
  PROVE  \A w \in Unticketed : w.gen \in Nat /\ Settled <= w.gen
<1>1. gen \in Nat /\ Settled \in Nat /\ (fullFlush => Settled = gen - 1) /\ Settled <= gen
  BY LevelTypes DEF Settled
<1>2. Rolling => fullFlush
  BY DEF ControlInv, Phase, Rolling
<1>3. \A s \in Inited : active[s].gen \in Nat /\ Settled <= active[s].gen
  BY <1>1, <1>2 DEF ControlInv, Generations, Rolling
<1>4. \A i \in 1..Len(flushQueue) : flushQueue[i].gen \in Nat /\ Settled <= flushQueue[i].gen
  BY <1>1, <1>2 DEF ControlInv, Generations
<1>5. \A f \in Taken : hand[f].gen \in Nat /\ Settled <= hand[f].gen
  BY <1>1, <1>2 DEF ControlInv, Generations
<1> QED
  BY <1>3, <1>4, <1>5, UnticketedParts

\* The invariant of the deletes on their way holds at the start.
LEMMA CarryInit == Init => CarryInv
<1> SUFFICES ASSUME Init PROVE CarryInv
  OBVIOUS
<1>1. Inited = {} /\ Taken = {} /\ Len(flushQueue) = 0
  BY ActorFacts DEF Init, Inited, Taken
<1>2. Unticketed = {}
  BY <1>1, UnticketedParts
<1>3. Pipeline = <<>>
  BY DEF Init, Pipeline
<1>4. Len(Pipeline) = 0 /\ Len(log) = 0 /\ index.segs = {}
  BY <1>3 DEF Init
<1>5. Slots
  BY <1>1 DEF Slots
<1>6. Carries(Unticketed, Pipeline, pending, index, log, Settled)
  BY <1>2, <1>4 DEF Carries, Unsettled, CarryU, CarryP, CarryS, Apart
<1> QED
  BY <1>5, <1>6 DEF CarryInv

\* Every step keeps it.
LEMMA CarryStep ==
  ASSUME ~DeleteTrigger, Main \notin MayFail, ControlInv, NoTrigger, KillInv, CarryInv, Next
  PROVE  CarryInv'
<1> DEFINE Goal == Carries(Unticketed', Pipeline', pending', index', log', Settled')
<1>1. /\ PathType(Unticketed, Pipeline, pending, index, log, FiledGen, Settled)
      /\ Kills(Unticketed, Pipeline, pending, index, log, lost, FiledGen, Settled)
      /\ Carries(Unticketed, Pipeline, pending, index, log, Settled)
  BY PathTyped DEF KillInv, CarryInv
<1>2. ControlInv' /\ StepEffect
  BY ControlStep, NextEffect
<1>3. Settled \in Nat /\ Settled' \in Nat /\ log \in Seq(Entry)
  BY <1>2, LevelTypes, NextTypes DEF ControlInv, ChainType
<1>4. UNCHANGED <<gen, fullFlush>> => FiledGen' = FiledGen /\ Settled' = Settled
  BY DEF FiledGen, Settled
<1>5. ASSUME MoveStep PROVE Goal
  BY <1>1, <1>3, <1>5, MovesCarry DEF MoveStep
<1>6. ASSUME NEW g \in 1..MaxGen, NEW add \in BOOLEAN, NEW kind \in {"none", "term", "query"}, OperateStep(g, add, kind)
      PROVE  Goal
  <2>1. Carries(Unticketed', Pipeline, pending', index, log', Settled)
    BY <1>1, <1>6, OperationCarries DEF OperateStep
  <2> QED
    BY <1>4, <1>6, <2>1 DEF OperateStep
<1>7. ASSUME NEW g \in 1..MaxGen, NEW t \in Ticket, FreezeStep(g, t) PROVE Goal
  <2>1. /\ Freezes(Unticketed, Unticketed', Pipeline, Pipeline', pending, pending', g, t) /\ g <= Settled
        /\ UNCHANGED <<index, log, lost, gen, fullFlush>>
        /\ t.dwpt # None => \A w \in Unticketed' : w.docs \cap t.dwpt.docs = {}
    BY <1>7 DEF FreezeStep, CarryInv
  <2>2. t.dwpt # None => Settled <= g
    BY <2>1, Young DEF Freezes
  <2>3. Carries(Unticketed', Pipeline', pending', index, log, Settled)
    BY <1>1, <2>1, <2>2, FreezeCarries
  <2> QED
    BY <1>4, <2>1, <2>3
<1>8. ASSUME NEW kind \in {"term", "query"}, OperateAndFreezeStep(kind) PROVE Goal
  <2>1. PICK pd : /\ Operates(Unticketed, Unticketed', pending, pd, log, log', gen, FALSE, kind)
                  /\ Freezes(Unticketed', Unticketed', Pipeline, Pipeline', pd, pending', gen, GlobalTicket(pd[gen]))
                  /\ UNCHANGED <<index, lost, gen, fullFlush>> /\ FiledGen <= gen /\ gen <= Settled
    BY <1>8 DEF OperateAndFreezeStep
  <2>2. gen \in 1..MaxGen /\ FALSE \in BOOLEAN
    BY DEF ControlInv, ChainType
  <2>3. /\ Kills(Unticketed', Pipeline, pd, index, log', lost, FiledGen, Settled)
        /\ PathType(Unticketed', Pipeline, pd, index, log', FiledGen, Settled)
    BY <1>1, <1>2, <2>1, <2>2, OperatedPath
  <2>4. Carries(Unticketed', Pipeline, pd, index, log', Settled)
    <3> DEFINE add == FALSE
    <3>1. Operates(Unticketed, Unticketed', pending, pd, log, log', gen, add, kind) /\ add \in BOOLEAN
      BY <2>1
    <3>2. gen \in 1..MaxGen /\ kind \in {"none", "term", "query"}
      BY <2>2
    <3> HIDE DEF add
    <3> QED
      BY <1>1, <3>1, <3>2, OperationCarries
  <2>5. GlobalTicket(pd[gen]) \in Ticket /\ GlobalTicket(pd[gen]).dwpt = None
    BY <2>2, <2>3 DEF PathType, GlobalTicket, Ticket
  <2> DEFINE t == GlobalTicket(pd[gen])
  <2>6. t \in Ticket /\ t.dwpt = None /\ Freezes(Unticketed', Unticketed', Pipeline, Pipeline', pd, pending', gen, t)
    BY <2>1, <2>5
  <2> HIDE DEF t
  <2>7. Carries(Unticketed', Pipeline', pending', index, log', Settled)
    BY <2>1, <2>2, <2>3, <2>4, <2>6, FreezeCarries
  <2> QED
    BY <1>4, <2>1, <2>7
<1>9. ASSUME PublishStep PROVE Goal
  <2>1. Carries(Unticketed, Pipeline', pending, index', log, Settled)
    BY <1>1, <1>9, PublishCarries DEF PublishStep
  <2> QED
    BY <1>4, <1>9, <2>1 DEF PublishStep
<1>10. ASSUME ApplyStep PROVE Goal
  <2>1. Carries(Unticketed, Pipeline, pending, index', log, Settled)
    BY <1>1, <1>10, ApplyCarries DEF ApplyStep
  <2> QED
    BY <1>4, <1>10, <2>1 DEF ApplyStep
<1>11. Goal
  BY <1>2, <1>5, <1>6, <1>7, <1>8, <1>9, <1>10 DEF StepEffect
<1>12. Slots'
  BY SlotsStep DEF CarryInv, KillInv, Kills
<1> QED
  BY <1>11, <1>12 DEF CarryInv

\* The invariants imply that no delete is lost.
LEMMA CarriedAll ==
  ASSUME ~DeleteTrigger, ControlInv, KillInv, CarryInv
  PROVE  NoLostDelete
<1> SUFFICES ASSUME NEW d \in AliveDocs, NEW j \in 1..Len(log), Deletes(d, j) PROVE Carried(d, j)
  BY DEF NoLostDelete
<1>1. /\ Kills(Unticketed, Pipeline, pending, index, log, lost, FiledGen, Settled)
      /\ Carries(Unticketed, Pipeline, pending, index, log, Settled)
  BY DEF KillInv, CarryInv
<1>2. Struck(log, d, j) /\ log[j].del # "none"
  BY DEF Deletes, Before, Struck
<1>3. Awaits(pending, log, j) => Carried(d, j)
  BY DEF Awaits, Carried
<1>4. \A w : (w \in Unticketed \/ \E i \in 1..Len(Pipeline) : Written(Pipeline[i]) /\ w = Pipeline[i].dwpt)
             <=> w \in Buffered
  BY DEF Buffered, Elements
<1>5. (\E w \in Buffered : d \in w.doomed) => Carried(d, j)
  BY DEF Carried
<1>6. \A i \in 1..Len(Pipeline) : Written(Pipeline[i]) => Pipeline[i].dwpt # None
  BY DEF Written
<1>7. ASSUME NEW w \in Unticketed, d \in w.docs \ w.dead PROVE Carried(d, j)
  <2>1. log[d].gen = w.gen /\ w.gen \in Nat /\ Settled \in Nat /\ Settled <= w.gen /\ log[j].gen \in Nat
    BY <1>1, <1>7, Young, LevelTypes, LogFacts DEF Kills, Fresh, DwptOK, ControlInv, ChainType
  <2>2. CASE log[j].gen = w.gen
    BY <1>1, <1>2, <1>4, <1>5, <1>7, <2>2 DEF Carries, CarryU
  <2>3. CASE log[j].gen # w.gen
    <3>1. log[j].gen > Settled
      BY <1>2, <2>1, <2>3 DEF Struck
    <3> QED
      BY <1>1, <1>2, <1>3, <3>1 DEF Carries, Unsettled
  <2> QED
    BY <2>2, <2>3
<1>8. ASSUME NEW i \in 1..Len(Pipeline), Written(Pipeline[i]), d \in Pipeline[i].dwpt.docs \ Pipeline[i].dwpt.dead
      PROVE  Carried(d, j)
  <2>1. \/ d \in Pipeline[i].dwpt.doomed
        \/ Awaits(pending, log, j)
        \/ \E h \in 1..Len(Pipeline) : i < h /\ log[j].del \in Pipeline[h].dels
    BY <1>1, <1>2, <1>8 DEF Carries, CarryP
  <2>2. CASE d \in Pipeline[i].dwpt.doomed
    BY <1>4, <1>5, <1>8, <2>2
  <2>3. CASE \E h \in 1..Len(Pipeline) : i < h /\ log[j].del \in Pipeline[h].dels
    <3>1. PICK h \in 1..Len(Pipeline) : i < h /\ log[j].del \in Pipeline[h].dels
      BY <2>3
    <3>2. \A w \in Unticketed : d \notin w.docs
      BY <1>1, <1>6, <1>8 DEF Carries, Apart
    <3>3. \A k \in h..Len(Pipeline) : k \in 1..Len(Pipeline) /\ k # i
      BY <3>1
    <3>4. \A k \in h..Len(Pipeline) : Written(Pipeline[k]) => d \notin Pipeline[k].dwpt.docs
      BY <1>1, <1>6, <1>8, <3>3 DEF Carries, Apart
    <3> QED
      BY <3>1, <3>2, <3>4 DEF Carried
  <2> QED
    BY <1>3, <2>1, <2>2, <2>3
<1>9. ASSUME NEW x \in index.segs, d \in x.live PROVE Carried(d, j)
  <2>1. \/ Awaits(pending, log, j)
        \/ \E h \in 1..Len(Pipeline) : log[j].del \in Pipeline[h].dels
        \/ \E p \in Elements(index.stream) : Strikes(p, x, d, log[j].del)
    BY <1>1, <1>2, <1>9 DEF Carries, CarryS
  <2>2. d \in x.docs
    BY <1>1, <1>9 DEF Kills, Segments
  <2>3. CASE \E h \in 1..Len(Pipeline) : log[j].del \in Pipeline[h].dels
    <3>1. PICK h \in 1..Len(Pipeline) : log[j].del \in Pipeline[h].dels
      BY <2>3
    <3>2. \A w \in Unticketed : d \notin w.docs
      BY <1>1, <2>2 DEF Carries, Apart
    <3>3. \A k \in h..Len(Pipeline) : k \in 1..Len(Pipeline)
      BY <3>1
    <3>4. \A k \in h..Len(Pipeline) : Written(Pipeline[k]) => d \notin Pipeline[k].dwpt.docs
      BY <1>1, <1>6, <2>2, <3>3 DEF Carries, Apart
    <3> QED
      BY <3>1, <3>2, <3>4 DEF Carried
  <2>4. CASE \E p \in Elements(index.stream) : Strikes(p, x, d, log[j].del)
    <3>1. \A y \in index.segs : d \in y.docs => y = x
      BY <1>1, <2>2 DEF Carries, Apart
    <3>2. (CHOOSE y \in index.segs : d \in y.docs) = x
      BY <2>2, <3>1
    <3>3. d \in LiveDocs(index)
      BY <1>9 DEF LiveDocs
    <3> QED
      BY <2>4, <3>2, <3>3 DEF Carried, Strikes
  <2> QED
    BY <1>3, <2>1, <2>3, <2>4
<1>10. \/ \E w \in Unticketed : d \in w.docs \ w.dead
       \/ \E i \in 1..Len(Pipeline) : Written(Pipeline[i]) /\ d \in Pipeline[i].dwpt.docs \ Pipeline[i].dwpt.dead
       \/ \E x \in index.segs : d \in x.live
  <2>1. CASE d \in LiveDocs(index)
    BY <2>1 DEF LiveDocs
  <2>2. CASE \E w \in Buffered : d \in w.docs \ w.dead
    BY <1>4, <2>2
  <2> QED
    BY <2>1, <2>2 DEF AliveDocs
<1> QED
  BY <1>7, <1>8, <1>9, <1>10

\* No delete is lost: a document that is alive although a later operation deletes it will still meet
\* that delete, in its queue, in a ticket behind the document, or in a packet that applies to its
\* segment.  Both hypotheses are needed: README, section 6, has the runs that violate NoLostDelete
\* when a full flush fails, and when max_buffered_delete_terms is set.
THEOREM NoLostDeleteCorrect ==
  ASSUME Main \notin MayFail, ~DeleteTrigger
  PROVE  Spec => []NoLostDelete
<1> DEFINE Inv == ControlInv /\ NoTrigger /\ KillInv /\ CarryInv
<1>1. Init => Inv
  <2>1. Init => NoTrigger
    BY ActorFacts DEF Init, NoTrigger
  <2> QED
    BY <2>1, ControlInit, KillInit, CarryInit
<1>2. Inv /\ [Next]_vars => Inv'
  <2> SUFFICES ASSUME Inv, [Next]_vars PROVE Inv'
    OBVIOUS
  <2>1. ControlInv'
    BY ControlStep
  <2>2. CASE Next
    <3>1. NoTrigger'
      BY <2>2, NoTriggerStep
    <3> QED
      BY <2>1, <2>2, <3>1, KillStep, CarryStep
  <2>3. CASE UNCHANGED vars
    <3>1. Unticketed' = Unticketed /\ Pipeline' = Pipeline /\ FiledGen' = FiledGen /\ Settled' = Settled
      BY <2>3 DEF vars, queueVars, dwptVars, ticketVars, fullVars, Unticketed, Inited, Elements,
         Pipeline, FiledGen, Settled
    <3>2. NoTrigger'
      BY <2>3 DEF vars, NoTrigger
    <3>3. KillInv'
      BY <2>3, <3>1 DEF vars, queueVars, indexVars, history, KillInv, LogGens
    <3>4. Slots'
      BY <2>3, SlotsFrame DEF vars, dwptVars, Inited, Taken, CarryInv
    <3>5. CarryInv'
      BY <2>3, <3>1, <3>4 DEF vars, queueVars, indexVars, history, CarryInv
    <3> QED
      BY <2>1, <3>2, <3>3, <3>5
  <2> QED
    BY <2>2, <2>3
<1>3. Inv => NoLostDelete
  BY CarriedAll
<1> HIDE DEF Inv
<1> QED
  BY <1>1, <1>2, <1>3, PTL DEF Spec
=============================================================================
