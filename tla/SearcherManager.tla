-------------------------- MODULE SearcherManager --------------------------
(***************************************************************************)
(* ReferenceManager and SearcherManager (search/search_manager.rs): one    *)
(* current searcher, threads that acquire it, threads that refresh it      *)
(* under refresh_lock, and close under another lock.  A searcher is the    *)
(* version of the index it was opened on.                                  *)
(***************************************************************************)
EXTENDS Naturals, FiniteSets

CONSTANTS
    Refreshers,   \* threads that call maybe_refresh or maybe_refresh_blocking
    Users,        \* threads that acquire a searcher, use it and release it
    MaxVersion,   \* bound: changes of the index
    MaxCloses     \* bound: calls of close

Nobody == "nobody"   \* refresh_lock is free

ASSUME ManagerAssumption == Nobody \notin Refreshers

VARIABLES
    version,      \* of the index
    current,      \* ReferenceManagerBase.current; Closed when None
    refreshLock,  \* who holds refresh_lock
    stage, ref,      \* where every thread is, and the reference it works with
    asked,        \* history: the version of the index when a refresh was asked for
    result,       \* what the last refresh of every thread returned
    closed,       \* history: close has returned
    closes
managerVars == <<version, current, refreshLock, stage, ref, asked, result, closed, closes>>

Closed == 0
Clients == Refreshers \union Users

ManagerInit ==
    /\ version = 1 /\ current = 1 /\ refreshLock = Nobody
    /\ stage = [t \in Clients |-> "idle"] /\ ref = [t \in Clients |-> Closed]
    /\ asked = [t \in Refreshers |-> 0] /\ result = [t \in Refreshers |-> "none"]
    /\ closed = FALSE /\ closes = 0

MoveTo(t, l) == stage' = [stage EXCEPT ![t] = l]
Return(t, r) == stage' = [stage EXCEPT ![t] = "idle"] /\ result' = [result EXCEPT ![t] = r]

\* IndexWriter::changed: the index has a newer version.
Change ==
    /\ version < MaxVersion /\ version' = version + 1
    /\ UNCHANGED <<current, refreshLock, stage, ref, asked, result, closed, closes>>

\* Mutant: refreshes run side by side.
LockFree_always(t) == TRUE
LockFree(t) == refreshLock = Nobody
\* maybe_refresh: ensure_open, then try_lock.
MaybeRefresh(t) ==
    /\ stage[t] = "idle"
    /\ asked' = [asked EXCEPT ![t] = version]
    /\ IF current = Closed THEN Return(t, "error") /\ UNCHANGED refreshLock
       ELSE IF LockFree(t) THEN MoveTo(t, "acquire") /\ refreshLock' = t /\ UNCHANGED result
       ELSE Return(t, "busy") /\ UNCHANGED refreshLock
    /\ UNCHANGED <<version, current, ref, closed, closes>>
\* maybe_refresh_blocking: lock.
MaybeRefreshBlocking(t) ==
    /\ stage[t] = "idle"
    /\ asked' = [asked EXCEPT ![t] = version]
    /\ MoveTo(t, "lock")
    /\ UNCHANGED <<version, current, refreshLock, ref, result, closed, closes>>
Lock(t) ==
    /\ stage[t] = "lock" /\ LockFree(t)
    /\ refreshLock' = t /\ MoveTo(t, "acquire")
    /\ UNCHANGED <<version, current, ref, asked, result, closed, closes>>

\* _do_maybe_refresh: acquire the reference to refresh.
Acquire(t) ==
    /\ stage[t] = "acquire"
    /\ IF current = Closed
         THEN Return(t, "error") /\ refreshLock' = Nobody /\ UNCHANGED ref
         ELSE MoveTo(t, "refresh") /\ ref' = [ref EXCEPT ![t] = current] /\ UNCHANGED <<refreshLock, result>>
    /\ UNCHANGED <<version, current, asked, closed, closes>>
\* refresh_if_needed: a reader of the newest version, or None when nothing changed; ok: the
\* reader and the listeners raise no error.
Refresh(t, ok) ==
    /\ stage[t] = "refresh"
    /\ IF ok /\ version # ref[t]
         THEN MoveTo(t, "swap") /\ ref' = [ref EXCEPT ![t] = version] /\ UNCHANGED <<refreshLock, result>>
         ELSE /\ Return(t, IF ok THEN "done" ELSE "error")
              /\ refreshLock' = Nobody /\ UNCHANGED ref
    /\ UNCHANGED <<version, current, asked, closed, closes>>
\* _do_swap and _swap_reference: under refresh_lock, whatever current is now.
SwapReference(t) ==
    /\ stage[t] = "swap"
    /\ current' = ref[t]
    /\ Return(t, "done") /\ refreshLock' = Nobody
    /\ UNCHANGED <<version, ref, asked, closed, closes>>

\* close, under base.lock.
Close ==
    /\ closes < MaxCloses /\ closes' = closes + 1
    /\ current' = Closed /\ closed' = TRUE
    /\ UNCHANGED <<version, refreshLock, stage, ref, asked, result>>

\* acquire by a user: current is read without a lock, then its count is raised.
ReadCurrent(u) ==
    /\ stage[u] = "idle" /\ current # Closed
    /\ ref' = [ref EXCEPT ![u] = current] /\ MoveTo(u, "read")
    /\ UNCHANGED <<version, current, refreshLock, asked, result, closed, closes>>
CloneReference(u) ==
    /\ stage[u] = "read" /\ MoveTo(u, "holds")
    /\ UNCHANGED <<version, current, refreshLock, ref, asked, result, closed, closes>>
Release(u) ==
    /\ stage[u] = "holds" /\ MoveTo(u, "idle") /\ ref' = [ref EXCEPT ![u] = Closed]
    /\ UNCHANGED <<version, current, refreshLock, asked, result, closed, closes>>

RefreshStep(t) ==
    \/ Lock(t) \/ Acquire(t) \/ SwapReference(t)
    \/ \E ok \in BOOLEAN : Refresh(t, ok)
ManagerNext ==
    \/ Change \/ Close
    \/ \E t \in Refreshers : MaybeRefresh(t) \/ MaybeRefreshBlocking(t) \/ RefreshStep(t)
    \/ \E u \in Users : ReadCurrent(u) \/ CloneReference(u) \/ Release(u)
ManagerSpec == ManagerInit /\ [][ManagerNext]_managerVars

----------------------------------------------------------------------------
(* Properties. *)

\* "If this method returns true it means the calling thread either refreshed or that there were
\* no changes to refresh": from then on acquire gives a searcher that has every change made
\* before the call, and no refresh of another thread takes it back (maybe_refresh, refresh_lock).
RefreshSeen ==
    \A t \in Refreshers : stage[t] = "idle" /\ result[t] = "done" /\ current # Closed =>
        current >= asked[t]

\* "Acquiring a resource on a closed ReferenceManager will throw": closed, it stays closed.
ClosedStays == closed => current = Closed

\* The searcher a user is about to clone is still held by somebody: the manager, or a user.
CloneAlive ==
    \A u \in Users : stage[u] = "read" =>
        \/ current = ref[u]
        \/ \E t \in Clients \ {u} : ref[t] = ref[u] /\ stage[t] \in {"holds", "refresh"}
=============================================================================
