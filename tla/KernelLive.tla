---------------------------- MODULE KernelLive ----------------------------
(***************************************************************************)
(* The kernel after start-up: VM_SYS_THREAD (startup_app.cpp) has created  *)
(* the threads of the application and yields for ever.  What happens from  *)
(* there on under the only fairness the hardware gives, that SysTick keeps *)
(* interrupting: the threads promise nothing, but to make no other system  *)
(* call than those in Api.                                                 *)
(***************************************************************************)
EXTENDS Kernel

CONSTANTS Boot,      \* the threads VM_SYS_THREAD creates, in that order
          BootPrio   \* the priority it gives each

ASSUME BootAssumption ==
    /\ Boot \in Seq(Thread \ {Idle})
    /\ IsInjective(Boot)
    /\ BootPrio \in [Range(Boot) -> Prio]

Booted == {Idle} \cup Range(Boot)

BootLevel == [t \in Thread |-> IF t \in Range(Boot) THEN BootPrio[t] ELSE InitPrio[t]]

VARIABLE tick   \* the parity of the ticks that have acted

liveVars == <<vars, tick>>

\* The state VM_SYS_THREAD has reached when it starts to yield.
BootInit ==
    /\ FactoryInit
    /\ cur = Idle
    /\ list = [k \in ListId |-> Keep(<<Idle>> \o Boot, {t \in Booted : Ready(BootLevel[t]) = k})]
    /\ total = Cardinality(Booted)
    /\ preempt = TRUE
    /\ heap = Booted
    /\ table = Booted
    /\ status = [t \in Thread |-> "stop"]
    /\ prio = BootLevel
    /\ vprio = BootLevel
    /\ flags = [t \in Thread |-> {}]
    /\ caller = [t \in Thread |-> NULL]
    /\ event = [t \in Thread |-> NULL]
    /\ exited = {}
    /\ tick = 0

LiveNext ==
    \/ Tick /\ tick' = 1 - tick
    \/ ThreadStep /\ UNCHANGED tick

\* No assumption on the threads; ticks that act keep coming.  SysTick runs
\* freely, three of every four ticks have (uWTick & 9) # 0, and nobody
\* disables preemption ("critical" is not in Api), so a tick is always
\* possible: the fairness is that of the parity, which only a tick changes.
LiveSpec == BootInit /\ [][LiveNext]_liveVars /\ WF_tick(tick' = 1 - tick)

-----------------------------------------------------------------------------
\* A thread that is ready, or has given up the processor or used up its
\* priority, runs again, however the other threads use the calls in Api: in
\* the run that is yielding, passing locks on, calling and exiting, or
\* computing for ever.
NoStarvation ==
    \A t \in Thread :
        (t \in ReadyThreads \/ t \in Range(list[Drop])) ~> (cur = t)

=============================================================================
