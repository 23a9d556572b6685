------------------------------- MODULE Kernel -------------------------------
(***************************************************************************)
(* The preemptive kernel of misc/context: the scheduler, the thread lists  *)
(* and the system calls of VM.cpp and Thread.c, over the lock factory of   *)
(* mutex.cpp.                                                              *)
(*                                                                         *)
(* The SysTick and SVC handlers run with interrupts masked, so each system *)
(* call of the running thread and each tick is one step.  Between two      *)
(* steps the running thread computes; what it computes shows only in the   *)
(* calls it makes, and any thread may make any call at any time: the       *)
(* kernel has no say in what its threads ask for.                          *)
(*                                                                         *)
(* A call that only returns a value or an error code to its caller leaves  *)
(* the state as it is and has no action: CREATE and CALL that t_init       *)
(* refuses, NOTIFY and FIRE_EVENT without a receiver, UNLOCK of an id no   *)
(* mutex has, CREATE_DRV, an unknown call, and the calls refused to the    *)
(* idle thread (DEPREC_IDLE_CALL).                                         *)
(*                                                                         *)
(* A name with an underscore (CurUnlinked_Not) is a faulty variant of the  *)
(* definition that follows it, with one mistake a change of the code could *)
(* make: put in its place, it must break the property it is kept for.      *)
(***************************************************************************)
EXTENDS MutexFactory

CONSTANTS Idle,       \* IDLE_THREAD
          NPrio,      \* VM_THREAD_MAX_PRIORITY (8)
          Event,      \* event names
          MaxTable,   \* THREAD_MAX_COUNT (24)
          Api         \* the system calls the threads make

ASSUME KernelAssumption ==
    /\ Idle \in Thread
    /\ NPrio \in Nat \ {0}
    /\ MaxTable \in Nat \ {0}

Prio == 0..(NPrio - 1)

\* The thread lists.  thread_delay_list is always empty (t_link_delay links
\* into the drop list) and the mail list is not modelled.
Ready(p) == <<"ready", p>>
Drop     == <<"drop", 0>>
Fault    == <<"fault", 0>>
Notify   == <<"notify", 0>>
Cond     == <<"cond", 0>>
WaitList == <<"event", 0>>
Chain(t) == <<"chain", t>>

ReadyList == {Ready(p) : p \in Prio}
ListId    == ReadyList \cup {Drop, Fault, Notify, Cond, WaitList}
                       \cup {Chain(t) : t \in Thread}

VARIABLES cur,      \* CUR_THREAD
          list,     \* thread_list[], the other lists and every THREAD::chain
          total,    \* threads_total
          preempt,  \* preemtSwitchEnabled
          heap,     \* the control blocks vmalloc has given out
          table,    \* thread_table: the threads registered in it
          status,   \* THREAD::STATUS
          prio,     \* THREAD::PRIORITY
          vprio,    \* THREAD::V_PRIORITY
          flags,    \* THREAD::fault, mutex and waitNotify, those that are set
          caller,   \* THREAD::caller
          event,    \* THREAD::event
          exited    \* history: threads whose exit left their control block behind

tcbVars    == <<status, prio, vprio, flags, caller, event>>
memVars    == <<heap, table, exited>>
kernelVars == <<cur, list, total, preempt, memVars, tcbVars>>
vars       == <<kernelVars, factoryVars>>

Status == {"stop", "run", "pend"}

Flag == {"fault", "mutex", "notify"}

-----------------------------------------------------------------------------
(***************************************************************************)
(* VMINIT and VMRUN: the idle thread, with the lowest priority, is linked  *)
(* ready and runs first.                                                   *)
(***************************************************************************)
InitList == [k \in ListId |-> IF k = Ready(NPrio - 1) THEN <<Idle>> ELSE <<>>]

InitPrio == [t \in Thread |-> IF t = Idle THEN NPrio - 1 ELSE 0]

Init ==
    /\ FactoryInit
    /\ cur = Idle
    /\ list = InitList
    /\ total = 1
    /\ preempt = TRUE
    /\ heap = {Idle}
    /\ table = {Idle}
    /\ status = [t \in Thread |-> "stop"]
    /\ prio = InitPrio
    /\ vprio = InitPrio
    /\ flags = [t \in Thread |-> {}]
    /\ caller = [t \in Thread |-> NULL]
    /\ event = [t \in Thread |-> NULL]
    /\ exited = {}

-----------------------------------------------------------------------------
(***************************************************************************)
(* The scheduler.  The operators take the lists, the count of ready        *)
(* threads and the fields of the control blocks as the handler has left    *)
(* them so far, because PICK_READY is the last part of a longer step.      *)
(***************************************************************************)

\* test_thread, for fl the flags of the threads.
Blocked(fl, t) == fl[t] # {}

\* The threads of M leave list k, each for the end of the ready list of its
\* virtual priority, in the order of list k (t_refresh, t_fire_event,
\* t_check_cond and t_unchain with the linker t_link_ready).
MoveToReady(ls, k, M, vp) ==
    [j \in ListId |->
        IF j = k THEN Keep(ls[k], Range(ls[k]) \ M)
        ELSE IF j \in ReadyList
             THEN ls[j] \o Keep(ls[k], {t \in M : Ready(vp[t]) = j})
             ELSE ls[j]]

\* t is what GET_READY and the fallback of PICK_READY return: the first
\* unblocked thread of the first ready list that has one, else the idle thread.
Picked(ls, fl, t) ==
    \/ \E p \in Prio : \E i \in DOMAIN ls[Ready(p)] :
          /\ t = ls[Ready(p)][i]
          /\ ~Blocked(fl, t)
          /\ \A j \in DOMAIN ls[Ready(p)] : j < i => Blocked(fl, ls[Ready(p)][j])
          /\ \A q \in Prio : q < p => \A u \in Range(ls[Ready(q)]) : Blocked(fl, u)
    \/ /\ \A p \in Prio : \A u \in Range(ls[Ready(p)]) : Blocked(fl, u)
       /\ t = Idle

\* The threads of list s are linked ready, and each is counted in n.
Counted_Not(n, s) == n
Counted(n, s) == n + Len(s)

\* t_check_list() == 0, for n ready threads.
RoundOver_Early(n) == n <= 1
RoundOver(n) == n = 0

\* t_refresh, called when the round is over: every thread of the drop list
\* gets its own priority back and is ready again.
Refreshed_Not(ls, vp) == vp
Refreshed(ls, vp) ==
    [t \in Thread |-> IF t \in Range(ls[Drop]) THEN prio[t] ELSE vp[t]]

\* PICK_READY, for n ready threads.
PickReady(ls, n, vp, st, fl) ==
    LET vp1 == IF RoundOver(n) THEN Refreshed(ls, vp) ELSE vp
        ls1 == IF RoundOver(n) THEN MoveToReady(ls, Drop, Range(ls[Drop]), vp1) ELSE ls
        n1  == IF RoundOver(n) THEN Counted(n, ls[Drop]) ELSE n
    IN  /\ vprio' = vp1
        /\ \E t \in Thread :
              /\ Picked(ls1, fl, t)
              /\ cur' = t
              /\ status' = [st EXCEPT ![t] = "run"]
              /\ IF st[t] = "stop"
                 THEN list' = ls1 /\ total' = n1
                 ELSE /\ list' = MoveToReady(ls1, Chain(t), Range(ls1[Chain(t)]), vp1)
                      /\ total' = Counted(n1, ls1[Chain(t)])

\* t_unlink_ready of the running thread; it decrements threads_total.
CurUnlinked_Not == list
CurUnlinked == Unlinked(list, Ready(vprio[cur]), cur)

\* The running thread gets the flag f; thread t loses it.
WithFlag_Not(f) == flags
WithFlag(f) == [flags EXCEPT ![cur] = @ \cup {f}]

Unblocked_Not(t, f) == flags
Unblocked(t, f) == [flags EXCEPT ![t] = @ \ {f}]

\* The running thread has left the ready lists, for another list or for none:
\* PICK_READY.
Suspend(ls, fl) ==
    /\ flags' = fl
    /\ PickReady(ls, total - 1, vprio, status, fl)

-----------------------------------------------------------------------------
\* One level of virtual priority is used up (V_PRIORITY++).
Aged_Not(t) == vprio
Aged(t) == [vprio EXCEPT ![t] = @ + 1]

(***************************************************************************)
(* The tick (DISPATCH).  A tick that interrupts another handler, comes     *)
(* with (uWTick & 9) = 0 or while preemption is disabled does nothing here *)
(* (Timer.tla has its effect on the software timers).  Otherwise the       *)
(* running thread loses one level of virtual priority and goes to the end  *)
(* of that list, or to the drop list from the lowest one; the threads of   *)
(* the condition list whose condition holds become ready; t_tick finds the *)
(* delay list empty.                                                       *)
(***************************************************************************)
Tick ==
    /\ preempt
    /\ LET vp == Aged(cur)
           low == vp[cur] < NPrio
           ls == Linked(CurUnlinked, IF low THEN Ready(vp[cur]) ELSE Drop, cur)
           n == IF low THEN total ELSE total - 1
       IN \E M \in SUBSET Range(list[Cond]) :
             PickReady(MoveToReady(ls, Cond, M, vp), n + Cardinality(M), vp,
                       [status EXCEPT ![cur] = "pend"], flags)
    /\ UNCHANGED <<preempt, memVars, prio, flags, caller, event, factoryVars>>

-----------------------------------------------------------------------------
(***************************************************************************)
(* The system calls (DISPATCH_SVC).  VM_SYS_THREAD, the code of the idle   *)
(* thread, creates threads and yields for ever: it makes none of the calls *)
(* FAULT, EXIT and CALL, which the kernel would let it make.               *)
(***************************************************************************)

\* VMAPI_YIELD: to the drop list, until every ready thread has been dropped
\* or blocked.
Yield ==
    /\ "yield" \in Api
    /\ Suspend(Linked(CurUnlinked, Drop, cur), flags)
    /\ UNCHANGED <<preempt, memVars, prio, caller, event, factoryVars>>

\* VMAPI_SLEEP: t_link_delay links into the drop list too, and nothing reads
\* DELAY, so a sleep is a yield whatever its length.
Sleep ==
    /\ "sleep" \in Api
    /\ cur # Idle
    /\ Suspend(Linked(CurUnlinked, Drop, cur), flags)
    /\ UNCHANGED <<preempt, memVars, prio, caller, event, factoryVars>>

\* The fields t_init gives the control block t, and thread_register, which
\* leaves t out of a full table without telling anyone.
InitThread(t, p, c) ==
    /\ heap' = heap \cup {t}
    /\ table' = IF Cardinality(table) < MaxTable THEN table \cup {t} ELSE table
    /\ status' = [status EXCEPT ![t] = "stop"]
    /\ prio' = [prio EXCEPT ![t] = p]
    /\ vprio' = [vprio EXCEPT ![t] = p]
    /\ flags' = [flags EXCEPT ![t] = {}]
    /\ caller' = [caller EXCEPT ![t] = c]
    /\ event' = [event EXCEPT ![t] = NULL]
    /\ UNCHANGED <<preempt, exited, factoryVars>>

\* VMAPI_CREATE: the new thread is linked ready, its creator goes on.
Create(t, p) ==
    /\ "create" \in Api
    /\ t \notin heap
    /\ InitThread(t, p, NULL)
    /\ list' = Linked([list EXCEPT ![Chain(t)] = <<>>], Ready(p), t)
    /\ total' = total + 1
    /\ UNCHANGED cur

Call_CallerReady(t, p) ==
    /\ "call" \in Api
    /\ cur # Idle
    /\ t \notin heap
    /\ InitThread(t, p, cur)
    /\ list' = Linked([list EXCEPT ![Chain(t)] = <<>>], Ready(p), t)
    /\ cur' = t
    /\ total' = total + 1

\* VMAPI_CALL: the new thread runs at once, whatever its priority, and its
\* caller is in no list until the new thread exits.
Call(t, p) ==
    /\ "call" \in Api
    /\ cur # Idle
    /\ t \notin heap
    /\ InitThread(t, p, cur)
    /\ list' = Linked([CurUnlinked EXCEPT ![Chain(t)] = <<>>], Ready(p), t)
    /\ cur' = t
    /\ UNCHANGED total

ExitToCaller_Scheduled ==
    /\ "exit" \in Api
    /\ cur # Idle
    /\ caller[cur] # NULL
    /\ Suspend(Linked(CurUnlinked, Ready(vprio[caller[cur]]), caller[cur]), flags)
    /\ exited' = exited \cup {cur}
    /\ UNCHANGED <<preempt, heap, table, prio, caller, event, factoryVars>>

\* VMAPI_EXIT of a thread that was called: back to the caller.  The control
\* block and its slot of the table are not released.
ExitToCaller ==
    /\ "exit" \in Api
    /\ cur # Idle
    /\ caller[cur] # NULL
    /\ list' = Linked(CurUnlinked, Ready(vprio[caller[cur]]), caller[cur])
    /\ cur' = caller[cur]
    /\ exited' = exited \cup {cur}
    /\ UNCHANGED <<total, preempt, heap, table, tcbVars, factoryVars>>

\* VMAPI_EXIT of a thread that was created: t_destroy.  The mutexes it holds
\* stay locked, and the threads of its chain are in no list any more.  What
\* the freed block holds is never read: its fields are set back to those of
\* the initial state.
ExitDestroyed ==
    /\ "exit" \in Api
    /\ cur # Idle
    /\ caller[cur] = NULL
    /\ heap' = heap \ {cur}
    /\ table' = table \ {cur}
    /\ event' = [event EXCEPT ![cur] = NULL]
    /\ prio' = [prio EXCEPT ![cur] = 0]
    /\ flags' = flags
    /\ PickReady([CurUnlinked EXCEPT ![Chain(cur)] = <<>>], total - 1,
                 [vprio EXCEPT ![cur] = 0], [status EXCEPT ![cur] = "stop"], flags)
    /\ UNCHANGED <<preempt, exited, caller, factoryVars>>

\* VMAPI_LOCK that is granted at once.
Lock(id) ==
    /\ "lock" \in Api
    /\ cur # Idle
    /\ GrantLock(cur, id)
    /\ UNCHANGED kernelVars

\* VMAPI_LOCK that must wait: the thread is queued on the mutex alone.
LockWait(id) ==
    /\ "lock" \in Api
    /\ cur # Idle
    /\ GrantWait(cur, id)
    /\ Suspend(CurUnlinked, WithFlag("mutex"))
    /\ UNCHANGED <<preempt, memVars, prio, caller, event>>

\* VMAPI_LOCK when the pool is exhausted: the thread never runs again.
LockFault(id) ==
    /\ "lock" \in Api
    /\ cur # Idle
    /\ SmallCore(id)
    /\ Suspend(Linked(CurUnlinked, Fault, cur), WithFlag("fault"))
    /\ UNCHANGED <<preempt, memVars, prio, caller, event>>

\* VMAPI_UNLOCK when a thread waits: it runs at once as the new owner, and
\* the thread that unlocked stays ready.
UnlockPass(id) ==
    LET next == Head(waiters[id])
    IN  /\ "lock" \in Api
        /\ cur # Idle
        /\ PassOn(cur, id)
        /\ list' = Linked(list, Ready(vprio[next]), next)
        /\ total' = total + 1
        /\ flags' = Unblocked(next, "mutex")
        /\ cur' = next
        /\ UNCHANGED <<preempt, memVars, status, prio, vprio, caller, event>>

\* VMAPI_UNLOCK in the other cases where a mutex has the id.
UnlockRemove(id) ==
    /\ "lock" \in Api
    /\ cur # Idle
    /\ RemoveMutex(cur, id)
    /\ UNCHANGED kernelVars

\* VMAPI_WAIT_NOTIFY.  The branch for a thread that waits already is for a
\* thread that runs with waitNotify set, which RunningIsReady excludes.
WaitNotify ==
    /\ "notify" \in Api
    /\ cur # Idle
    /\ Suspend(Linked(CurUnlinked, Notify, cur), WithFlag("notify"))
    /\ UNCHANGED <<preempt, memVars, prio, caller, event, factoryVars>>

\* VMAPI_NOTIFY that finds a thread of the name it is given in the notify list.
NotifyThread(t) ==
    /\ "notify" \in Api
    /\ t \in Range(list[Notify])
    /\ "notify" \in flags[t]
    /\ flags' = Unblocked(t, "notify")
    /\ list' = Linked(Unlinked(list, Notify, t), Ready(vprio[t]), t)
    /\ total' = total + 1
    /\ UNCHANGED <<cur, preempt, memVars, status, prio, vprio, caller, event, factoryVars>>

\* VMAPI_SYNC with a registered thread that has not faulted, be it the caller
\* itself or a thread that has exited: wait in its chain until it is picked.
Sync(t) ==
    /\ "sync" \in Api
    /\ cur # Idle
    /\ t \in table
    /\ "fault" \notin flags[t]
    /\ Suspend(Linked(CurUnlinked, Chain(t), cur), flags)
    /\ UNCHANGED <<preempt, memVars, prio, caller, event, factoryVars>>

\* VMAPI_WAIT: t_check_cond of a later tick evaluates the condition.
Wait ==
    /\ "wait" \in Api
    /\ cur # Idle
    /\ Suspend(Linked(CurUnlinked, Cond, cur), flags)
    /\ UNCHANGED <<preempt, memVars, prio, caller, event, factoryVars>>

\* VMAPI_WAIT_EVENT.
WaitEvent(e) ==
    /\ "event" \in Api
    /\ cur # Idle
    /\ event' = [event EXCEPT ![cur] = e]
    /\ Suspend(Linked(CurUnlinked, WaitList, cur), flags)
    /\ UNCHANGED <<preempt, memVars, prio, caller, factoryVars>>

\* The threads of the event list that t_fire_event finds waiting for e.
WaitingFor(e) == {t \in Range(list[WaitList]) : event[t] = e}

FireEvent_CountsOne(e) ==
    /\ "event" \in Api
    /\ WaitingFor(e) # {}
    /\ list' = MoveToReady(list, WaitList, WaitingFor(e), vprio)
    /\ total' = total + 1
    /\ UNCHANGED <<cur, preempt, memVars, tcbVars, factoryVars>>

\* VMAPI_FIRE_EVENT: every thread that waits for the event becomes ready; an
\* event nobody waits for is lost.
FireEvent(e) ==
    /\ "event" \in Api
    /\ WaitingFor(e) # {}
    /\ list' = MoveToReady(list, WaitList, WaitingFor(e), vprio)
    /\ total' = total + Cardinality(WaitingFor(e))
    /\ UNCHANGED <<cur, preempt, memVars, tcbVars, factoryVars>>

\* VMAPI_CRITICAL and VMAPI_END_CRITICAL: one flag for the whole system.
Critical ==
    /\ "critical" \in Api
    /\ preempt' \in BOOLEAN
    /\ UNCHANGED <<cur, list, total, memVars, tcbVars, factoryVars>>

\* VMAPI_FAULT: out of every list, for ever.
FaultCall ==
    /\ "fault" \in Api
    /\ cur # Idle
    /\ Suspend(CurUnlinked, WithFlag("fault"))
    /\ UNCHANGED <<preempt, memVars, prio, caller, event, factoryVars>>

\* VMAPI_RESET: the processor restarts.
Reset ==
    /\ "reset" \in Api
    /\ cur' = Idle
    /\ list' = InitList
    /\ total' = 1
    /\ preempt' = TRUE
    /\ heap' = {Idle}
    /\ table' = {Idle}
    /\ status' = [t \in Thread |-> "stop"]
    /\ prio' = InitPrio
    /\ vprio' = InitPrio
    /\ flags' = [t \in Thread |-> {}]
    /\ caller' = [t \in Thread |-> NULL]
    /\ event' = [t \in Thread |-> NULL]
    /\ exited' = {}
    /\ owner' = [id \in MutexId |-> NULL]
    /\ waiters' = [id \in MutexId |-> <<>>]
    /\ freeMutex' = MaxMutex
    /\ freeOwners' = MaxOwners

-----------------------------------------------------------------------------
ThreadStep ==
    \/ \E t \in Thread, p \in Prio : Create(t, p) \/ Call(t, p)
    \/ \E id \in MutexId : \/ Lock(id) \/ LockWait(id) \/ LockFault(id)
                           \/ UnlockPass(id) \/ UnlockRemove(id)
    \/ \E t \in Thread : NotifyThread(t) \/ Sync(t)
    \/ \E e \in Event : WaitEvent(e) \/ FireEvent(e)
    \/ Yield \/ Sleep \/ ExitToCaller \/ ExitDestroyed
    \/ WaitNotify \/ Wait \/ Critical \/ FaultCall \/ Reset

Next == Tick \/ ThreadStep

Spec == Init /\ [][Next]_vars
-----------------------------------------------------------------------------
(***************************************************************************)
(* Properties.                                                             *)
(***************************************************************************)

ReadyThreads == Members(list, ReadyList)

Linkings == Members(list, ListId)

\* The threads that a caller waits for.
Live == heap \ exited

\* Every variable has the type of the code's field.
TypeOK ==
    /\ cur \in Thread
    /\ list \in [ListId -> Seq(Thread)]
    /\ total \in Nat
    /\ preempt \in BOOLEAN
    /\ heap \in SUBSET Thread
    /\ table \in SUBSET Thread
    /\ status \in [Thread -> Status]
    /\ prio \in [Thread -> Prio]
    /\ vprio \in [Thread -> Nat]
    /\ flags \in [Thread -> SUBSET Flag]
    /\ caller \in [Thread -> Thread \cup {NULL}]
    /\ event \in [Thread -> Event \cup {NULL}]
    /\ exited \in SUBSET Thread
    /\ FactoryTypeOK

\* A thread is in at most one list, and there once: a thread has one pair of
\* link fields for all lists (Thread.h:89-90), so a second link would join
\* two lists.
OneList == Exclusive(list)

\* The running thread is linked in the ready list of its virtual priority,
\* where every call that suspends it unlinks it (t_unlink_ready of
\* CUR_THREAD), it can run, and it has neither exited nor been freed.  In
\* particular PICK_READY never resorts to an idle thread that is not ready
\* (VM.cpp:134, "Fatal error").
RunningIsReady ==
    /\ \E p \in Prio : p = vprio[cur] /\ cur \in Range(list[Ready(p)])
    /\ flags[cur] = {}
    /\ cur \in Live

\* threads_total is the number of threads in the ready lists: it is what
\* PICK_READY looks at to start the next round, so a thread too many keeps
\* the dropped threads waiting for ever, one too few lets them overtake.
ReadyCount == total = Cardinality(ReadyThreads)

\* A thread in a ready list is in that of its virtual priority and can run:
\* GET_READY skips no thread (test_thread), and the count it empties is that
\* of threads that run.
ReadyIsRunnable ==
    \A p \in Prio : \A t \in Range(list[Ready(p)]) : vprio[t] = p /\ flags[t] = {}

\* A thread in any list is a live one: no list leads through a freed control
\* block, or through that of a thread whose exit returned to its caller.
LinkedIsLive == Linkings \subseteq Live

\* The thread that called a live thread is live, in no list, not blocked and
\* waits for this one call: EXIT links it ready without looking.
CallersSuspended ==
    \A t \in Live : caller[t] # NULL =>
        /\ caller[t] \in Live \ Linkings
        /\ flags[caller[t]] = {}
        /\ \A u \in Live : caller[u] = caller[t] => u = t

\* A thread in the queue of a mutex is live, in no list, blocked by this alone,
\* and queued once: UNLOCK links it ready and clears its flag without looking.
WaitersBlocked ==
    /\ \A id \in MutexId : \A t \in Range(waiters[id]) :
          /\ t \in Live \ Linkings
          /\ flags[t] = {"mutex"}
    /\ \A id \in MutexId : IsInjective(waiters[id])
    /\ \A i, j \in MutexId : i # j => Range(waiters[i]) \cap Range(waiters[j]) = {}

\* The lists ls, with n the count of ready threads, vp the virtual priorities,
\* fl the flags and live the live threads, are as the handlers keep them: each
\* thread in one list, those that are ready and their count as above, no dead
\* thread, and in every other list what the call that will link the thread
\* ready relies on, a virtual priority that is a ready list's and the flags
\* that call clears.
Consistent(ls, n, vp, fl, live) ==
    /\ ls \in [ListId -> Seq(Thread)]
    /\ Exclusive(ls)
    /\ n = Cardinality(Members(ls, ReadyList))
    /\ Members(ls, ListId) \subseteq live
    /\ \A p \in Prio : \A t \in Range(ls[Ready(p)]) : vp[t] = p
    /\ \A k \in ListId \ {Drop} : \A t \in Range(ls[k]) : vp[t] \in Prio
    /\ \A k \in ListId \ {Fault, Notify} : \A t \in Range(ls[k]) : fl[t] = {}
    /\ \A t \in Range(ls[Notify]) : fl[t] = {"notify"}

\* The idle thread always competes for the processor.
IdleCompetes(ls) == Idle \in Members(ls, ReadyList \cup {Drop})

\* The inductive invariant of the kernel.  A thread in no list (the caller of
\* a thread, one that waits for a mutex, one that has faulted) keeps the
\* virtual priority it had when it ran, which is that of a ready list.
KernelInv ==
    /\ TypeOK
    /\ Consistent(list, total, vprio, flags, Live)
    /\ IdleCompetes(list)
    /\ RunningIsReady
    /\ CallersSuspended
    /\ WaitersBlocked
    /\ \A t \in Live \ Linkings : vprio[t] \in Prio
    /\ exited \subseteq heap

\* A thread that gave up the processor or used up its priority comes back
\* only when no thread but the one that runs was ready: nobody has a second
\* turn in a round before everybody had the first (t_refresh).
RoundsComplete ==
    [][\A t \in Range(list[Drop]) :
          t \notin Range(list'[Drop]) => ReadyThreads \subseteq {cur} \/ Reset]_vars

\* A caller stays suspended until the thread it called exits, which it does
\* by running, and then it runs at once.
CallReturns ==
    [][\A t \in Live : caller[t] # NULL /\ caller[t] \in (ReadyThreads)' =>
          (cur = t /\ cur' = caller[t] /\ t \in exited') \/ Reset]_vars

=============================================================================
