----------------------------- MODULE TouchSlots -----------------------------
(***************************************************************************)
(* How touch events reach the windows.  Every window has a TouchSensor     *)
(* (device/src/touch.cpp), a slot for one event.  The sensor thread's      *)
(* listener (device/src/startup_app.cpp) writes each event to all slots,   *)
(* the window that runs takes it out of its own.  Windows call each other  *)
(* (_XCALL): the caller is suspended in its listener, inside invokeEvent.  *)
(* There is no lock, and both threads are preempted between any two        *)
(* accesses to a slot.                                                     *)
(*                                                                         *)
(* Events are numbered as the driver fires them; the number stands for the *)
(* cause in event and for the position in point.  A listener that acts on  *)
(* an event may open a window, close its own or do neither.                *)
(***************************************************************************)
EXTENDS Integers, Sequences, SequencesExt

CONSTANTS Slots,      \* the windows, in the order in which they are written
          Calls,      \* the pairs <<v, w>> where v opens w with _XCALL
          MaxEvents,  \* bound: events fired
          MaxDepth    \* bound: windows in the chain of calls

ASSUME TouchAssumption ==
    /\ Slots \in Seq(ToSet(Slots))
    /\ IsInjective(Slots)
    /\ Slots # <<>>
    /\ Calls \subseteq ToSet(Slots) \X ToSet(Slots)
    /\ MaxEvents \in Nat
    /\ MaxDepth \in Nat \ {0}

Window == ToSet(Slots)

Main == Slots[1]

VARIABLES point, event, hasInvoke,  \* the slot of each window
          tpoint,     \* the position its listeners see
          listeners,  \* how many listeners its eventBurner holds
          fired,      \* the number of the last event
          slot,       \* where the sensor thread is: the slot it writes, ...
          store,      \* ... and the member it writes next
          chain,      \* the windows that run or are suspended, Main first
          pc,         \* where the last of them is
          then,       \* where it goes after clearEvent
          acted,      \* history: the last event each window has acted on
          since,      \* history: the last event that was out of the sensor
                      \* thread's hands when the window last emptied its slot
          taken,      \* history: the same, when it last took an event
          reentered   \* history: a window was opened a second time

slotVars == <<point, event, hasInvoke, tpoint>>

sensorVars == <<fired, slot, store>>

historyVars == <<acted, since, taken, reentered>>

vars == <<slotVars, listeners, sensorVars, chain, pc, then, historyVars>>

SENSOR_ANY == -1

Active == Last(chain)

Init ==
    /\ point = [w \in Window |-> 0]
    /\ event = [w \in Window |-> SENSOR_ANY]
    /\ hasInvoke = [w \in Window |-> FALSE]
    /\ tpoint = [w \in Window |-> 0]
    /\ listeners = [w \in Window |-> IF w = Main THEN 1 ELSE 0]
    /\ fired = 0
    /\ slot = 0
    /\ store = "point"
    /\ chain = <<Main>>
    /\ pc = "loop"
    /\ then = "loop"
    /\ acted = [w \in Window |-> 0]
    /\ since = [w \in Window |-> 0]
    /\ taken = 0
    /\ reentered = FALSE

-----------------------------------------------------------------------------
\* The sensor thread: the driver fires the next event ...
Fire ==
    /\ slot = 0
    /\ fired < MaxEvents
    /\ fired' = fired + 1
    /\ slot' = 1
    /\ UNCHANGED <<slotVars, listeners, store, chain, pc, then, historyVars>>

\* ... and setEvent is called for one slot after the other.
SetPoint ==
    /\ slot # 0
    /\ store = "point"
    /\ store' = "event"
    /\ point' = [point EXCEPT ![Slots[slot]] = fired]
    /\ UNCHANGED <<event, hasInvoke, tpoint, listeners, fired, slot, chain, pc, then, historyVars>>

SetCause_First ==
    /\ store = "point"
    /\ slot # 0
    /\ store' = "flag"
    /\ event' = [event EXCEPT ![Slots[slot]] = fired]
    /\ UNCHANGED <<point, hasInvoke, tpoint, listeners, fired, slot, chain, pc, then, historyVars>>

SetCause ==
    /\ store = "event"
    /\ store' = "flag"
    /\ event' = [event EXCEPT ![Slots[slot]] = fired]
    /\ UNCHANGED <<point, hasInvoke, tpoint, listeners, fired, slot, chain, pc, then, historyVars>>

SetFlag_NoWrap ==
    /\ store = "flag"
    /\ store' = "point"
    /\ hasInvoke' = [hasInvoke EXCEPT ![Slots[slot]] = TRUE]
    /\ slot' = slot + 1
    /\ UNCHANGED <<point, event, tpoint, listeners, fired, chain, pc, then, historyVars>>

SetFlag ==
    /\ store = "flag"
    /\ store' = "point"
    /\ hasInvoke' = [hasInvoke EXCEPT ![Slots[slot]] = TRUE]
    /\ slot' = IF slot = Len(Slots) THEN 0 ELSE slot + 1
    /\ UNCHANGED <<point, event, tpoint, listeners, fired, chain, pc, then, historyVars>>

-----------------------------------------------------------------------------
Goto(from, to) ==
    /\ pc = from
    /\ pc' = to

\* What the sensor thread may still write: the event in its hands.
OutOfHands == IF slot = 0 THEN fired ELSE fired - 1

\* The window that runs: invokeEvent.
TestFlag ==
    /\ hasInvoke[Active]
    /\ Goto("loop", "take")
    /\ UNCHANGED <<slotVars, listeners, sensorVars, chain, then, historyVars>>

TakeFlag ==
    /\ Goto("take", "copy")
    /\ hasInvoke' = [hasInvoke EXCEPT ![Active] = FALSE]
    /\ taken' = OutOfHands
    /\ UNCHANGED <<point, event, tpoint, listeners, sensorVars, chain, then, acted, since, reentered>>

CopyPoint ==
    /\ Goto("copy", "fire")
    /\ tpoint' = [tpoint EXCEPT ![Active] = point[Active]]
    /\ UNCHANGED <<point, event, hasInvoke, listeners, sensorVars, chain, then, historyVars>>

\* fireEvents with the cause as it is now.  Nobody acts on SENSOR_ANY.
FireListeners ==
    /\ Goto("fire", IF listeners[Active] > 0 /\ event[Active] # SENSOR_ANY
                    THEN "listener" ELSE "reset")
    /\ acted' = [acted EXCEPT ![Active] = IF pc' = "listener" THEN event[Active] ELSE @]
    /\ UNCHANGED <<slotVars, listeners, sensorVars, chain, then, since, taken, reentered>>

\* The listener returns without opening a window.
ListenerReturns ==
    /\ Goto("listener", "reset")
    /\ UNCHANGED <<slotVars, listeners, sensorVars, chain, then, historyVars>>

ResetCause_Not ==
    /\ Goto("reset", "loop")
    /\ since' = [since EXCEPT ![Active] = OutOfHands]
    /\ UNCHANGED <<slotVars, listeners, sensorVars, chain, then, acted, taken, reentered>>

ResetCause ==
    /\ Goto("reset", "loop")
    /\ event' = [event EXCEPT ![Active] = SENSOR_ANY]
    /\ since' = [since EXCEPT ![Active] = OutOfHands]
    /\ UNCHANGED <<point, hasInvoke, tpoint, listeners, sensorVars, chain, then, acted, taken, reentered>>

\* clearEvent.
ClearPoint ==
    /\ Goto("clearPoint", "clearFlag")
    /\ point' = [point EXCEPT ![Active] = 0]
    /\ UNCHANGED <<event, hasInvoke, tpoint, listeners, sensorVars, chain, then, historyVars>>

ClearFlag ==
    /\ Goto("clearFlag", "clearCause")
    /\ hasInvoke' = [hasInvoke EXCEPT ![Active] = FALSE]
    /\ UNCHANGED <<point, event, tpoint, listeners, sensorVars, chain, then, historyVars>>

ClearCause ==
    /\ Goto("clearCause", then)
    /\ event' = [event EXCEPT ![Active] = SENSOR_ANY]
    /\ since' = [since EXCEPT ![Active] = OutOfHands]
    /\ UNCHANGED <<point, hasInvoke, tpoint, listeners, sensorVars, chain, then, acted, taken, reentered>>

-----------------------------------------------------------------------------
\* _XCALL from the listener: the window that is opened clears its slot first.
Open(w) ==
    /\ <<Active, w>> \in Calls
    /\ Len(chain) < MaxDepth
    /\ Goto("listener", "clearPoint")
    /\ then' = "start"
    /\ chain' = Append(chain, w)
    /\ since' = [since EXCEPT ![w] = OutOfHands]
    /\ reentered' = (reentered \/ w \in ToSet(chain))
    /\ UNCHANGED <<slotVars, listeners, sensorVars, acted, taken>>

\* It builds its components and adds its listener.
AddListener ==
    /\ Goto("start", "loop")
    /\ listeners' = [listeners EXCEPT ![Active] = @ + 1]
    /\ UNCHANGED <<slotVars, sensorVars, chain, then, historyVars>>

\* APP_CLEANUP and vm::exit in the listener: invokeEvent is never resumed.
\* The caller goes on in its own listener: main_app clears its slot after
\* most calls, the others do not.
Close_AllListeners ==
    /\ Len(chain) > 1
    /\ pc = "listener"
    /\ listeners' = [w \in Window |-> 0]
    /\ chain' = Front(chain)
    /\ \/ pc' = "reset" /\ UNCHANGED then
       \/ Last(chain') = Main /\ pc' = "clearPoint" /\ then' = "reset"
    /\ UNCHANGED <<slotVars, sensorVars, historyVars>>

Close ==
    /\ Len(chain) > 1
    /\ pc = "listener"
    /\ listeners' = [listeners EXCEPT ![Active] = 0]
    /\ chain' = Front(chain)
    /\ \/ pc' = "reset" /\ UNCHANGED then
       \/ Last(chain') = Main /\ pc' = "clearPoint" /\ then' = "reset"
    /\ UNCHANGED <<slotVars, sensorVars, historyVars>>

-----------------------------------------------------------------------------
SensorStep == Fire \/ SetPoint \/ SetCause \/ SetFlag

WindowStep ==
    \/ TestFlag \/ TakeFlag \/ CopyPoint \/ FireListeners \/ ListenerReturns \/ ResetCause
    \/ ClearPoint \/ ClearFlag \/ ClearCause
    \/ (\E w \in Window : Open(w)) \/ AddListener \/ Close

Next == SensorStep \/ WindowStep

Spec == Init /\ [][Next]_vars

-----------------------------------------------------------------------------
TypeOK ==
    /\ point \in [Window -> 0 .. MaxEvents]
    /\ event \in [Window -> 1 .. MaxEvents \cup {SENSOR_ANY}]
    /\ hasInvoke \in [Window -> BOOLEAN]
    /\ tpoint \in [Window -> 0 .. MaxEvents]
    /\ listeners \in [Window -> Nat]
    /\ fired \in 0 .. MaxEvents
    /\ slot \in 0 .. Len(Slots)
    /\ store \in {"point", "event", "flag"}
    /\ chain \in Seq(Window)
    /\ chain # <<>>
    /\ pc \in {"loop", "take", "copy", "fire", "listener", "reset", "clearPoint", "clearFlag",
               "clearCause", "start"}
    /\ then \in {"loop", "reset", "start"}
    /\ acted \in [Window -> 0 .. MaxEvents]
    /\ since \in [Window -> 0 .. MaxEvents]
    /\ taken \in 0 .. MaxEvents
    /\ reentered \in BOOLEAN

\* Whatever the two threads overwrite of each other, no window acts twice on
\* an event, nor on one that was out of the sensor thread's hands when the
\* window was opened or became active again: the cause is reset after each
\* invocation and cleared at the start.  (It may act on the event that opened
\* it, if the sensor thread is preempted between two slots.)
Fresh ==
    pc = "fire" /\ event[Active] # SENSOR_ANY =>
        event[Active] > acted[Active] /\ event[Active] > since[Active]

\* An event comes with its own position, unless the sensor thread is between
\* the two stores, or wrote the slot since the window took the event, or was
\* writing it while the window cleared it: then the position is the next
\* one, an older one, or (0, 0).
Whole ==
    pc = "fire" /\ event[Active] # SENSOR_ANY =>
        \/ tpoint[Active] = event[Active]
        \/ /\ tpoint[Active] = event[Active] + 1
           /\ slot # 0 /\ Slots[slot] = Active /\ store = "event"
        \/ tpoint[Active] < event[Active] /\ event[Active] > taken
        \/ tpoint[Active] = 0 /\ event[Active] = since[Active] + 1

\* A window that waits for events has the listener for them, until a window
\* that is already in the chain is opened again (exec_app runs a file with
\* explorer_app, which calls exec_app to rename one): the inner exit then
\* removes the listeners of the outer one, which can never be closed.
NotDeaf == pc = "loop" /\ ~reentered => listeners[Active] = 1

=============================================================================
