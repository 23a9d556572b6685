---------------------------- MODULE MutexFactory ----------------------------
(***************************************************************************)
(* MUTEX_FACTORY of misc/context/inc/mutex.cpp: the locks behind the       *)
(* system calls VMAPI_LOCK and VMAPI_UNLOCK.  A mutex exists only while it *)
(* is held: the first lock of an id takes a MUTEX from a static pool, the  *)
(* unlock that finds no waiter returns it.  A thread that must wait is     *)
(* queued on the mutex through an OWNER taken from a second static pool.   *)
(*                                                                         *)
(* The slots of a pool are interchangeable, and allocOwner and allocMutex  *)
(* find a slot that is not busy exactly when the counter is positive, so a *)
(* pool is its counter.  At most one mutex of the list has a given id,     *)
(* because lock searches the list before it adds one: the list is the      *)
(* function owner, NULL where no mutex has the id.                         *)
(***************************************************************************)
EXTENDS ThreadLists

CONSTANTS MutexId,     \* the identifiers passed to vm::lock and vm::unlock
          MaxMutex,    \* MAX_MUTEX_COUNT (12)
          MaxOwners    \* MAX_OWNERS_COUNT (12)

ASSUME FactoryAssumption ==
    /\ MaxMutex \in Nat
    /\ MaxOwners \in Nat

VARIABLES owner,       \* MUTEX::owner of the mutex with an id
          waiters,     \* MUTEX::owners, the queue of waiting threads
          freeMutex,   \* freeMutexCount
          freeOwners   \* freeOwnersCount

factoryVars == <<owner, waiters, freeMutex, freeOwners>>

FactoryInit ==
    /\ owner = [id \in MutexId |-> NULL]
    /\ waiters = [id \in MutexId |-> <<>>]
    /\ freeMutex = MaxMutex
    /\ freeOwners = MaxOwners

-----------------------------------------------------------------------------
\* MUTEX_FACTORY::lock when no mutex has the id and the pool has one:
\* MUTEX_GRANT_LOCK.
GrantLock(t, id) ==
    /\ owner[id] = NULL
    /\ freeMutex > 0
    /\ owner' = [owner EXCEPT ![id] = t]
    /\ freeMutex' = freeMutex - 1
    /\ UNCHANGED <<waiters, freeOwners>>

\* MUTEX_FACTORY::lock when a mutex has the id: whoever asks is queued, its
\* owner too (the lock is not recursive).  MUTEX_GRANT_WAIT.
GrantWait(t, id) ==
    /\ owner[id] # NULL
    /\ freeOwners > 0
    /\ waiters' = [waiters EXCEPT ![id] = Append(@, t)]
    /\ freeOwners' = freeOwners - 1
    /\ UNCHANGED <<owner, freeMutex>>

\* MUTEX_FACTORY::lock when the pool it needs is empty: MUTEX_SMALL_CORE.
SmallCore(id) ==
    /\ IF owner[id] = NULL THEN freeMutex = 0 ELSE freeOwners = 0
    /\ UNCHANGED factoryVars

\* MUTEX_FACTORY::unlock by the owner when threads wait: the first waiter
\* becomes the owner and its OWNER slot is returned.  The first form loses it.
PassOn_KeepsSlot(t, id) ==
    /\ owner[id] = t
    /\ waiters[id] # <<>>
    /\ owner' = [owner EXCEPT ![id] = Head(waiters[id])]
    /\ waiters' = [waiters EXCEPT ![id] = Tail(@)]
    /\ UNCHANGED <<freeMutex, freeOwners>>

PassOn(t, id) ==
    /\ owner[id] = t
    /\ waiters[id] # <<>>
    /\ owner' = [owner EXCEPT ![id] = Head(waiters[id])]
    /\ waiters' = [waiters EXCEPT ![id] = Tail(@)]
    /\ freeOwners' = freeOwners + 1
    /\ UNCHANGED freeMutex

\* MUTEX_FACTORY::unlock in the other cases where a mutex has the id: the
\* owner with no thread waiting, and ANY other thread.  The mutex goes back to
\* the pool; freeMutex empties its queue without freeOwner, so the slots of
\* threads that still wait are lost with the queue.
RemoveMutex_Always(t, id) ==
    /\ owner[id] # NULL
    /\ owner' = [owner EXCEPT ![id] = NULL]
    /\ waiters' = [waiters EXCEPT ![id] = <<>>]
    /\ freeMutex' = freeMutex + 1
    /\ UNCHANGED freeOwners

RemoveMutex(t, id) ==
    /\ owner[id] # NULL
    /\ owner[id] # t \/ waiters[id] = <<>>
    /\ owner' = [owner EXCEPT ![id] = NULL]
    /\ waiters' = [waiters EXCEPT ![id] = <<>>]
    /\ freeMutex' = freeMutex + 1
    /\ UNCHANGED freeOwners

-----------------------------------------------------------------------------
\* Every variable has the type of the code's field.
FactoryTypeOK ==
    /\ owner \in [MutexId -> Thread \cup {NULL}]
    /\ waiters \in [MutexId -> Seq(Thread)]
    /\ freeMutex \in Nat
    /\ freeOwners \in Nat

=============================================================================
