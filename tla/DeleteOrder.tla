---------------------------- MODULE DeleteOrder ----------------------------
(***************************************************************************)
(* What the delete queue promises: additions, deletes and updates take     *)
(* effect one at a time, in some order that all the buffers agree on.  A   *)
(* delete kills every buffered document that matches it and was added      *)
(* before it, in whatever DWPT the document is, and no document added      *)
(* after it; and it reaches exactly one frozen packet, through which it is *)
(* applied to the segments already flushed.                                *)
(***************************************************************************)
EXTENDS Integers, Sequences

CONSTANTS Threads, Targets,
          MaxBatch     \* bound: documents added by one call

VARIABLES
  ram,      \* per DWPT: its documents and whether each is still alive
  pending,  \* the deletes issued since the last packet
  out       \* per thread: what its latest freeze or flush hands out

vars == <<ram, pending, out>>

Nothing == [kind |-> "none"]

Init ==
  /\ ram = [t \in Threads |-> <<>>]
  /\ pending = {}
  /\ out = [t \in Threads |-> Nothing]

Batches == UNION {[1..n -> Targets] : n \in 1..MaxBatch}

Fresh(ts) == [i \in 1..Len(ts) |-> [target |-> ts[i], live |-> TRUE]]

Kill(r, k) ==
  [i \in 1..Len(r) |->
     [target |-> r[i].target, live |-> r[i].live /\ r[i].target # k]]

\* The documents ts are added to the DWPT of t.
Add(t, ts) ==
  /\ ram' = [ram EXCEPT ![t] = @ \o Fresh(ts)]
  /\ UNCHANGED <<pending, out>>

\* Everything that matches k, everywhere, is deleted.
Delete(k) ==
  /\ ram' = [u \in Threads |-> Kill(ram[u], k)]
  /\ pending' = pending \cup {k}
  /\ UNCHANGED out

\* Deletes k and adds ts, as one step.
Update(t, k, ts) ==
  /\ ram' = [u \in Threads |->
               IF u = t THEN Kill(ram[u], k) \o Fresh(ts)
               ELSE Kill(ram[u], k)]
  /\ pending' = pending \cup {k}
  /\ UNCHANGED out

\* The DWPT of t is discarded with all its documents.
Abort(t) ==
  /\ ram' = [ram EXCEPT ![t] = <<>>]
  /\ UNCHANGED <<pending, out>>

\* The live documents of t become a segment; the deletes issued so far a
\* packet for the segments before it.
Flush(t) ==
  /\ out' = [out EXCEPT ![t] =
                [kind |-> "segment", packet |-> pending,
                 live |-> {i \in 1..Len(ram[t]) : ram[t][i].live}]]
  /\ ram' = [ram EXCEPT ![t] = <<>>]
  /\ pending' = {}

Freeze(t) ==
  /\ out' = [out EXCEPT ![t] = [kind |-> "packet", packet |-> pending]]
  /\ pending' = {}
  /\ UNCHANGED ram

\* All deletes not yet in a packet are forgotten (rollback, delete_all).
Clear ==
  /\ pending' = {}
  /\ UNCHANGED <<ram, out>>

\* The thread takes what its freeze handed out.
Return(t) ==
  /\ out' = [out EXCEPT ![t] = Nothing]
  /\ UNCHANGED <<ram, pending>>

Next ==
  \/ \E k \in Targets : Delete(k)
  \/ \E t \in Threads :
       \/ Abort(t)
       \/ Flush(t)
       \/ Freeze(t)
       \/ Return(t)
       \/ \E ts \in Batches : Add(t, ts)
       \/ \E k \in Targets, ts \in Batches : Update(t, k, ts)
  \/ Clear

Spec == Init /\ [][Next]_vars
=============================================================================
