------------------------------ MODULE AppLocks ------------------------------
(***************************************************************************)
(* The locks of the applications (LOCK_ID of entry/inc/app_def.h) over the *)
(* mutex factory: render_app holds FRAME while it updates the screen, the  *)
(* sensor thread SENSOR while it samples the touch panel, and the window   *)
(* that runs takes them and FILE, MEMORY and USB in many orders.  A window *)
(* that calls another is suspended and holds no lock but those of its      *)
(* mode, so the chain of windows is one thread here, "window".             *)
(*                                                                         *)
(* What a function does is its sequence of vm::lock and vm::unlock calls.  *)
(* ADC_LOCK_ID is left to AdcApp: its holder adc_app takes no other lock.  *)
(***************************************************************************)
EXTENDS MutexFactory

FRAME == "FRAME"
FILE == "FILE"
MEMORY == "MEMORY"
SENSOR == "SENSOR"
USB == "USB"

\* The pools (12 each) have a mutex for each id and an owner for each thread.
ASSUME AppLocksAssumption ==
    /\ MutexId = {FRAME, FILE, MEMORY, SENSOR, USB}
    /\ Thread = {"window", "render", "sensor"}
    /\ MaxMutex >= Cardinality(MutexId)
    /\ MaxOwners >= Cardinality(Thread)

VARIABLES op,          \* what the window does
          mode,        \* what it goes on holding locks for
          todo,        \* the calls each thread has still to make
          selfLocked   \* the window has locked an id it owns

locksVars == <<factoryVars, op, mode, todo, selfLocked>>

Lock(ids) == [i \in DOMAIN ids |-> <<"lock", ids[i]>>]

Unlock(ids) == [i \in DOMAIN ids |-> <<"unlock", ids[i]>>]

-----------------------------------------------------------------------------
\* The sensor thread: one turn of its loop.
SensorLoop_FrameToo ==
    Lock(<<SENSOR, FRAME>>) \o Unlock(<<FRAME, SENSOR>>)

SensorLoop == Lock(<<SENSOR>>) \o Unlock(<<SENSOR>>)

\* render_app: one update of the screen.
RenderLoop == Lock(<<FRAME>>) \o Unlock(<<FRAME>>)

\* main_app reads its configuration and the sounds while it builds its window.
MainStart ==
    Lock(<<MEMORY, FILE, SENSOR>>) \o Unlock(<<SENSOR, FILE, MEMORY>>)

\* The other windows build theirs; so does APP_CLEANUP take it down.
BuildWindow == Lock(<<MEMORY>>) \o Unlock(<<MEMORY>>)

\* The window's loop repaints.
Repaint == Lock(<<FRAME>>) \o Unlock(<<FRAME>>)

\* The repaint of the oscilloscope that destroys its menu (menu_deinit).
MenuRepaint == Lock(<<FRAME, MEMORY>>) \o Unlock(<<MEMORY, FRAME>>)

\* update_sprites, update_descktop: icons are read from files.
UpdateSprites ==
    Lock(<<FILE, MEMORY, SENSOR, FRAME>>) \o Unlock(<<FILE, MEMORY, SENSOR, FRAME>>)

\* snapshot_1bpp, snapshot_4bpp: the screen is written to a file.
Snapshot ==
    Lock(<<FILE, MEMORY, SENSOR, FRAME>>) \o Unlock(<<FILE, MEMORY, SENSOR, FRAME>>)

\* scan_dir_filter, load_cfg, store_cfg, save_config, load_config and the
\* reset dialog of cam_app: files are read or written.
UseFile ==
    Lock(<<FILE, MEMORY, SENSOR>>) \o Unlock(<<FILE, MEMORY, SENSOR>>)

\* getFileInfo of explorer_app.
GetFileInfo_EarlyReturn == Lock(<<FILE, SENSOR>>) \o Unlock(<<SENSOR>>)

GetFileInfo == Lock(<<FILE, SENSOR>>) \o Unlock(<<FILE, SENSOR>>)

\* file_app with a file of camera settings.
SetAdvConf == Lock(<<MEMORY, FILE>>) \o Unlock(<<MEMORY, FILE>>)

\* touch_app: the touch panel is calibrated.
Calibrate_SensorKept ==
    Lock(<<MEMORY, FRAME, SENSOR>>) \o Unlock(<<MEMORY, FRAME>>)

Calibrate ==
    Lock(<<MEMORY, FRAME, SENSOR>>) \o Unlock(<<SENSOR, MEMORY, FRAME>>)

\* pnesx_app: load the program, then draw without render_app until the exit.
NesStart ==
    Lock(<<FILE, MEMORY, SENSOR>>) \o Unlock(<<SENSOR, FILE, MEMORY>>) \o Lock(<<FRAME>>)

NesExit == Unlock(<<FRAME>>) \o BuildWindow

\* The USB dialog of main_app keeps the file system from the applications.
\* The dialog is modal: nothing but lUsbDisconnect is done under it.
UsbConnect == Lock(<<USB, FILE>>)

UsbDisconnect == Unlock(<<USB, FILE>>) \o UpdateSprites

\* lSystemRestart, up to vm::reset.
SystemRestart == Lock(<<FILE, MEMORY, SENSOR, FRAME>>)

Program ==
    [MainStart |-> MainStart, BuildWindow |-> BuildWindow, Repaint |-> Repaint,
     MenuRepaint |-> MenuRepaint, UpdateSprites |-> UpdateSprites, Snapshot |-> Snapshot,
     UseFile |-> UseFile, GetFileInfo |-> GetFileInfo, SetAdvConf |-> SetAdvConf,
     Calibrate |-> Calibrate, NesStart |-> NesStart, NesExit |-> NesExit,
     UsbConnect |-> UsbConnect, UsbDisconnect |-> UsbDisconnect,
     SystemRestart |-> SystemRestart]

\* What the window can do in a mode, and the mode it leads to.
Choices ==
    {<<"start", "MainStart", "windows">>}
        \cup
    {<<"windows", o, "windows">> : o \in {"BuildWindow", "Repaint", "MenuRepaint", "UpdateSprites",
        "Snapshot", "UseFile", "GetFileInfo", "SetAdvConf", "Calibrate"}}
        \cup
    {<<"windows", "NesStart", "nes">>, <<"nes", "Snapshot", "nes">>, <<"nes", "NesExit", "windows">>,
     <<"windows", "UsbConnect", "usb">>, <<"usb", "Repaint", "usb">>,
     <<"usb", "UsbDisconnect", "windows">>, <<"windows", "SystemRestart", "reset">>}

\* The locks the window holds in a mode, between two things it does.
Held(m) == CASE m = "nes" -> {FRAME}
             [] m = "usb" -> {USB, FILE}
             [] m = "reset" -> {FILE, MEMORY, SENSOR, FRAME}
             [] OTHER -> {}

Owned(t) == {id \in MutexId : owner[id] = t}

-----------------------------------------------------------------------------
InitApps ==
    /\ op = "none"
    /\ mode = "start"
    /\ todo = [t \in Thread |-> <<>>]
    /\ selfLocked = FALSE

LocksInit == FactoryInit /\ InitApps

Waiting(t) == \E id \in MutexId : t \in Range(waiters[id])

\* The window begins something, another thread the next turn of its loop.
Begin(choice) ==
    /\ todo["window"] = <<>>
    /\ mode = choice[1]
    /\ op' = choice[2]
    /\ mode' = choice[3]
    /\ todo' = [todo EXCEPT !["window"] = Program[op']]
    /\ UNCHANGED <<factoryVars, selfLocked>>

Turn(t, loop) ==
    /\ todo[t] = <<>>
    /\ todo' = [todo EXCEPT ![t] = loop]
    /\ UNCHANGED <<factoryVars, op, mode, selfLocked>>

Calls(t, call, id) ==
    /\ todo[t] # <<>>
    /\ Head(todo[t]) = <<call, id>>
    /\ ~Waiting(t)

\* vm::lock: granted, or the thread is queued before this call returns.
LockGranted(t, id) ==
    /\ Calls(t, "lock", id)
    /\ GrantLock(t, id)
    /\ todo' = [todo EXCEPT ![t] = Tail(@)]
    /\ UNCHANGED <<op, mode, selfLocked>>

LockQueued(t, id) ==
    /\ Calls(t, "lock", id)
    /\ GrantWait(t, id)
    /\ selfLocked' = (selfLocked \/ owner[id] = t)
    /\ UNCHANGED <<op, mode, todo>>

\* vm::unlock: the call of the first waiter returns too.
UnlockPassed(t, id) ==
    /\ Calls(t, "unlock", id)
    /\ PassOn(t, id)
    /\ todo' = [todo EXCEPT ![t] = Tail(@), ![owner'[id]] = Tail(@)]
    /\ UNCHANGED <<op, mode, selfLocked>>

UnlockRemoved(t, id) ==
    /\ Calls(t, "unlock", id)
    /\ RemoveMutex(t, id)
    /\ todo' = [todo EXCEPT ![t] = Tail(@)]
    /\ UNCHANGED <<op, mode, selfLocked>>

\* vm::fault("enomem"), when update_sprites finds no memory for its file:
\* the thread stops for good and keeps its locks.
Fault ==
    /\ op = "UpdateSprites"
    /\ todo["window"] = Unlock(<<FILE, MEMORY, SENSOR, FRAME>>)
    /\ op' = "none"
    /\ mode' = "faulted"
    /\ todo' = [todo EXCEPT !["window"] = <<>>]
    /\ UNCHANGED <<factoryVars, selfLocked>>

\* vm::reset.
Reset ==
    /\ mode = "reset"
    /\ todo["window"] = <<>>
    /\ owner' = [id \in MutexId |-> NULL]
    /\ waiters' = [id \in MutexId |-> <<>>]
    /\ freeMutex' = MaxMutex
    /\ freeOwners' = MaxOwners
    /\ op' = "none"
    /\ mode' = "start"
    /\ todo' = [t \in Thread |-> <<>>]
    /\ selfLocked' = FALSE

-----------------------------------------------------------------------------
CallStep(t) ==
    \E id \in MutexId :
        LockGranted(t, id) \/ LockQueued(t, id) \/ UnlockPassed(t, id) \/ UnlockRemoved(t, id)

LoopStep == Turn("render", RenderLoop) \/ Turn("sensor", SensorLoop)

LocksNext ==
    \/ \E choice \in Choices : Begin(choice)
    \/ LoopStep
    \/ \E t \in Thread : CallStep(t)
    \/ Fault
    \/ Reset

\* The kernel starves no thread (NoStarvation of KernelLive).
Fairness == WF_locksVars(Reset) /\ \A t \in Thread : WF_locksVars(CallStep(t))

LocksSpec == LocksInit /\ [][LocksNext]_locksVars /\ Fairness

-----------------------------------------------------------------------------
\* The two ways in which the window stops with its locks: pnesx_app holds
\* FRAME when its SNAPSHOT locks it again, and update_sprites may fault.
Stopped == selfLocked \/ mode = "faulted"

\* No circle of threads waits for one another, whatever the orders in which
\* the windows take their locks, until the window stops.
NoDeadlock ==
    ~Stopped =>
        \A ts \in (SUBSET Thread) \ {{}} :
            \E t \in ts : \A id \in MutexId : t \in Range(waiters[id]) => owner[id] \notin ts

\* No lock finds its pool empty: MUTEX_SMALL_CORE, which faults the thread for
\* good, is no answer that these threads get.  It relates what is owned and
\* who waits to the two counters, through every unlock that passes a mutex on.
NoSmallCore ==
    \A t \in Thread, id \in MutexId :
        Calls(t, "lock", id) => IF owner[id] = NULL THEN freeMutex > 0 ELSE freeOwners > 0

\* Every way through the functions gives the locks back: between two things
\* it does the window holds those of its mode, and no lock is held for a
\* thread that does not know it.
HeldBetween ==
    /\ ~Stopped /\ todo["window"] = <<>> => Owned("window") = Held(mode)
    /\ \A t \in {"render", "sensor"} : todo[t] = <<>> => Owned(t) = {}

\* The sensor thread gets its lock, also against a window that takes it all
\* the time or waits for the screen with it, until the window stops.
SensorServed == Waiting("sensor") ~> ~Waiting("sensor") \/ Stopped

=============================================================================
