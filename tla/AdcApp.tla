------------------------------- MODULE AdcApp -------------------------------
(***************************************************************************)
(* The oscilloscope: the window analog_app and the sampling thread adc_app *)
(* it creates (entry/src/analog_app.cpp), over the mutex factory.  They    *)
(* share the sample buffers of adc_core.cpp, guarded by ADC_LOCK_ID, and   *)
(* the flags adc_pause and adc_finish, guarded by nothing.  Both threads   *)
(* are preempted anywhere, so every access to a shared variable, every     *)
(* vm:: call and the time between lock and unlock is a step of its own.    *)
(*                                                                         *)
(* adc_app takes the lock only when it is not paused and releases it       *)
(* always: paused, it removes the mutex the window may hold.               *)
(*                                                                         *)
(* analog_app ignores the result of vm::create, so the window also runs    *)
(* without adc_app, when there was no memory for a control block.          *)
(***************************************************************************)
EXTENDS MutexFactory

CONSTANTS Ui,    \* the window's thread
          Adc,   \* control blocks for adc_app: one may still be returning
                 \* when the next is created
          ADC    \* ADC_LOCK_ID

ASSUME AdcAssumption ==
    /\ MutexId = {ADC}
    /\ Thread = {Ui} \cup Adc
    /\ Ui \notin Adc
    /\ MaxMutex > 0
    /\ MaxOwners > 0

VARIABLES pc,          \* where each thread is
          adc_pause,   \* static bool adc_pause
          adc_finish,  \* static bool adc_finish
          buffers,     \* buffer_a is allocated
          raced        \* history: adc_app has removed the window's mutex
                       \* after the pause was lifted

vars == <<factoryVars, pc, adc_pause, adc_finish, buffers, raced>>

UiPc == {"closed", "idle", "lockwait", "draw", "exit", "destroy"}

AdcPc == {"none", "test", "lock", "lockwait", "fill", "unlock", "finish", "clear", "return"}

\* adc_app blocks that are still in the loop.
Sampling == {a \in Adc : pc[a] \notin {"none", "return"}}

Init ==
    /\ FactoryInit
    /\ pc = [t \in Thread |-> IF t = Ui THEN "closed" ELSE "none"]
    /\ adc_pause = FALSE
    /\ adc_finish = FALSE
    /\ buffers = FALSE
    /\ raced = FALSE

-----------------------------------------------------------------------------
Goto(t, from, to) ==
    /\ pc[t] = from
    /\ pc' = [pc EXCEPT ![t] = to]

\* What a thread does once it has the lock.
Inside(t) == IF t = Ui THEN "draw" ELSE "fill"

\* vm::lock(ADC_LOCK_ID): granted at once, or queued until an unlock passes
\* the lock on.
TakeLock(t, from) ==
    \/ /\ GrantLock(t, ADC)
       /\ Goto(t, from, Inside(t))
    \/ /\ GrantWait(t, ADC)
       /\ Goto(t, from, "lockwait")

\* vm::unlock(ADC_LOCK_ID), by whoever calls it.  The first waiter runs on
\* inside its critical section, whatever happens to the mutex before it is
\* scheduled.  Nobody checks the code that is returned when there is no mutex.
ReleaseLock(t, from, to) ==
    \/ /\ PassOn(t, ADC)
       /\ pc[t] = from
       /\ pc' = [pc EXCEPT ![t] = to, ![owner'[ADC]] = Inside(owner'[ADC])]
    \/ /\ RemoveMutex(t, ADC) \/ (owner[ADC] = NULL /\ UNCHANGED factoryVars)
       /\ Goto(t, from, to)

-----------------------------------------------------------------------------
\* analog_app starts: adc_core_init, adc_finish = false, vm::create(adc_app),
OpenWindow ==
    /\ pc[Ui] = "closed"
    /\ buffers' = TRUE
    /\ adc_finish' = FALSE
    /\ UNCHANGED <<factoryVars, adc_pause, raced>>

Open(a) ==
    /\ OpenWindow
    /\ pc[a] = "none"
    /\ pc' = [pc EXCEPT ![Ui] = "idle", ![a] = "test"]

\* which fails with T_SMALL_CORE when the kernel's heap is full.
OpenAlone ==
    /\ OpenWindow
    /\ pc' = [pc EXCEPT ![Ui] = "idle"]

\* The listener of label_pause, called by invokeEvent.
TogglePause ==
    /\ pc[Ui] = "idle"
    /\ adc_pause' = ~adc_pause
    /\ UNCHANGED <<factoryVars, pc, adc_finish, buffers, raced>>

\* plotter_draw, from vm::lock(ADC_LOCK_ID) to vm::unlock(ADC_LOCK_ID).
DrawLock ==
    /\ TakeLock(Ui, "idle")
    /\ UNCHANGED <<adc_pause, adc_finish, buffers, raced>>

DrawUnlock ==
    /\ ReleaseLock(Ui, "draw", "idle")
    /\ UNCHANGED <<adc_pause, adc_finish, buffers, raced>>

\* lExit, confirmed: ask adc_app to finish and yield until it has answered.
AskFinish_NoWait ==
    /\ Goto(Ui, "idle", "destroy")
    /\ adc_finish' = TRUE
    /\ UNCHANGED <<factoryVars, adc_pause, buffers, raced>>

AskFinish ==
    /\ Goto(Ui, "idle", "exit")
    /\ adc_finish' = TRUE
    /\ UNCHANGED <<factoryVars, adc_pause, buffers, raced>>

FinishSeen ==
    /\ Goto(Ui, "exit", "destroy")
    /\ ~adc_finish
    /\ UNCHANGED <<factoryVars, adc_pause, adc_finish, buffers, raced>>

\* while (adc_finish) vm::yield(): one more turn.
FinishPending ==
    /\ pc[Ui] = "exit"
    /\ adc_finish
    /\ UNCHANGED vars

\* APP_CLEANUP, adc_core_destroy, vm::exit.
Destroy ==
    /\ Goto(Ui, "destroy", "closed")
    /\ buffers' = FALSE
    /\ UNCHANGED <<factoryVars, adc_pause, adc_finish, raced>>

-----------------------------------------------------------------------------
\* One turn of adc_app's loop.
TestPause_Reversed(a) ==
    /\ Goto(a, "test", IF adc_pause THEN "lock" ELSE "unlock")
    /\ UNCHANGED <<factoryVars, adc_pause, adc_finish, buffers, raced>>

TestPause(a) ==
    /\ Goto(a, "test", IF adc_pause THEN "unlock" ELSE "lock")
    /\ UNCHANGED <<factoryVars, adc_pause, adc_finish, buffers, raced>>

FillLock(a) ==
    /\ TakeLock(a, "lock")
    /\ UNCHANGED <<adc_pause, adc_finish, buffers, raced>>

\* fill_buffer_sin has filled both buffers.
Filled(a) ==
    /\ Goto(a, "fill", "unlock")
    /\ UNCHANGED <<factoryVars, adc_pause, adc_finish, buffers, raced>>

FillUnlock(a) ==
    /\ ReleaseLock(a, "unlock", "finish")
    /\ raced' = (raced \/ (owner[ADC] = Ui /\ ~adc_pause))
    /\ UNCHANGED <<adc_pause, adc_finish, buffers>>

\* if (adc_finish == true); otherwise vm::yield and the next turn.
TestFinish_Ignored(a) ==
    /\ Goto(a, "finish", IF adc_finish /\ ~adc_pause THEN "clear" ELSE "test")
    /\ UNCHANGED <<factoryVars, adc_pause, adc_finish, buffers, raced>>

TestFinish(a) ==
    /\ Goto(a, "finish", IF adc_finish THEN "clear" ELSE "test")
    /\ UNCHANGED <<factoryVars, adc_pause, adc_finish, buffers, raced>>

\* adc_finish = false, the answer.
ClearFinish(a) ==
    /\ Goto(a, "clear", "return")
    /\ adc_finish' = FALSE
    /\ UNCHANGED <<factoryVars, adc_pause, buffers, raced>>

\* return 0: the thread exits and its control block is free.
Return(a) ==
    /\ Goto(a, "return", "none")
    /\ UNCHANGED <<factoryVars, adc_pause, adc_finish, buffers, raced>>

-----------------------------------------------------------------------------
\* What the window does without being asked to: finish a repaint, wait for
\* the answer, leave.
UiRun == DrawUnlock \/ FinishSeen \/ Destroy

UiStep ==
    \/ (\E a \in Adc : Open(a)) \/ OpenAlone
    \/ TogglePause \/ DrawLock \/ AskFinish \/ FinishPending \/ UiRun

AdcStep(a) ==
    \/ TestPause(a) \/ FillLock(a) \/ Filled(a) \/ FillUnlock(a)
    \/ TestFinish(a) \/ ClearFinish(a) \/ Return(a)

Next == UiStep \/ \E a \in Adc : AdcStep(a)

\* The kernel starves no thread (NoStarvation of KernelLive); what the user
\* asks for is not assumed.
Fairness == WF_vars(UiRun) /\ \A a \in Adc : WF_vars(AdcStep(a))

Spec == Init /\ [][Next]_vars /\ Fairness

-----------------------------------------------------------------------------
TypeOK ==
    /\ FactoryTypeOK
    /\ pc \in [Thread -> UiPc \cup AdcPc]
    /\ pc[Ui] \in UiPc
    /\ \A a \in Adc : pc[a] \in AdcPc
    /\ adc_pause \in BOOLEAN
    /\ adc_finish \in BOOLEAN
    /\ buffers \in BOOLEAN
    /\ raced \in BOOLEAN

\* While adc_app writes the buffers the window does not draw from them,
\* unless the pause was lifted between adc_app's test of adc_pause and its
\* unlock: removing the mutex of a drawing window does no harm while the
\* pause lasts, because the drawing window cannot lift it.
ExclusiveUntilRaced ==
    (pc[Ui] = "draw" /\ \E a \in Adc : pc[a] = "fill") => raced

\* Nobody is forgotten, although mutexes are removed by threads that do not
\* own them: a thread that waits for ADC_LOCK_ID is in the queue,
\* whoever owns it will unlock it, and each OWNER slot is free or in the queue.
NobodyForgotten ==
    /\ \A t \in Thread : pc[t] = "lockwait" <=> t \in Range(waiters[ADC])
    /\ owner[ADC] # NULL => pc[owner[ADC]] \in {"draw", "fill", "unlock"}
    /\ freeOwners + Len(waiters[ADC]) = MaxOwners

\* The buffers are allocated whenever one of the two uses them: the exit
\* handshake keeps adc_core_destroy behind adc_app's last access, also when
\* the previous adc_app has not returned yet.
BuffersLive ==
    /\ pc[Ui] \in {"lockwait", "draw"} => buffers
    /\ (\E a \in Adc : pc[a] \in {"lock", "lockwait", "fill"}) => buffers
    /\ Cardinality(Sampling) <= 1

\* The exit of the window is answered, paused or not, and whatever the
\* mutexes have been through, when there is an adc_app to answer it.  When
\* vm::create has failed there is none, and lExit spins for ever.
ExitAnswered == (pc[Ui] = "exit" /\ Sampling # {}) ~> (pc[Ui] = "closed")

=============================================================================
