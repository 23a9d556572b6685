------------------------------- MODULE Power -------------------------------
(***************************************************************************)
(* Sleep and wake-up: the sensor thread and its touch listener             *)
(* (device/src/startup_app.cpp), render_app and the loop of the window     *)
(* that runs (entry/src).  The sensor thread counts sleepTimeout, turns    *)
(* the backlight off when it reaches the limit, and on again, with a       *)
(* "wakeup" event, at the end of a touch.  The other threads test the      *)
(* backlight and wait for the event when it is off.                        *)
(*                                                                         *)
(* The fields of tftControl are bits of one word that every thread reads,  *)
(* changes and stores back; a thread is preempted between the two.  The    *)
(* brightness is left out, the stores that change it are not.              *)
(*                                                                         *)
(* settings_app edits a copy of applicationControl, keeps another for      *)
(* REVERT, and stores either, or the file device.cfg, back as a whole: the *)
(* word first, the limit after it.                                         *)
(***************************************************************************)
EXTENDS Naturals

CONSTANTS Limits,  \* what applicationControl.sleepTimeout may be set to
                   \* (5000 to 100000; 10000 at the start)
          Period   \* turns of the sensor thread between two samples (~100)

ASSUME PowerAssumption ==
    /\ Limits \subseteq Nat
    /\ Period \in Nat \ {0}
    /\ \A l \in Limits : Period + 1 < l

Sleeper == {"window", "render"}

VARIABLES touch,         \* the driver's last event (HOLD is a TOUCH here)
          turns,         \* turns since the last sample of a pressed finger
          sleepTimeout,
          backlight, backlightLock,   \* the word tftControl
          limit,         \* applicationControl.sleepTimeout
          sensor,        \* where the sensor thread is
          sensorReg,     \* the word it has read
          at,            \* where the window's and the render thread are
          windowReg,     \* the word the window has read
          saved,         \* cam_app's copy of backlightLock
          settings,      \* the window is settings_app
          local, temp,   \* localAppControl, tempLocalAppControl
          copying,       \* whose copy into applicationControl is under way
          fed,           \* history: the last event given to the windows
          missed,        \* history: threads between their test and
                         \* wait_event when the event was fired
          clobbered,     \* history: a store has undone another thread's
          raised         \* history: a new limit has ended the sleep

tftControl == [light |-> backlight, lock |-> backlightLock]

applicationControl == [light |-> backlight, lock |-> backlightLock, limit |-> limit]

sensorVars == <<touch, turns, sleepTimeout, sensor, sensorReg, fed>>

settingsVars == <<limit, settings, local, temp, copying, raised>>

vars == <<sensorVars, settingsVars, backlight, backlightLock, at, windowReg, saved, missed,
          clobbered>>

Word == [light : BOOLEAN, lock : BOOLEAN]

\* What the model has of an APPLICATION_CONTROL.  Static copies of it start
\* with zeros, the light off and the limit 0.
Control == [light : BOOLEAN, lock : BOOLEAN, limit : Limits \cup {0}]

WordOf(c) == [light |-> c.light, lock |-> c.lock]

Zeros == [light |-> FALSE, lock |-> FALSE, limit |-> 0]

\* A register, or a copy, that is not read before it is loaded again: one
\* value stands for whatever it holds.
Spent == WordOf(Zeros)

Init ==
    /\ touch = "NONE"
    /\ turns = 0
    /\ sleepTimeout = 0
    /\ backlight = TRUE
    /\ backlightLock = FALSE
    /\ sensor = "invoke"
    /\ sensorReg = Spent
    /\ at = [t \in Sleeper |-> "test"]
    /\ windowReg = Spent
    /\ saved = FALSE
    /\ fed = "NONE"
    /\ missed = {}
    /\ clobbered = FALSE
    /\ limit \in Limits
    /\ settings = FALSE
    /\ local = Zeros
    /\ temp = Zeros
    /\ copying = "none"
    /\ raised = FALSE

\* A thread stores w, made of the word it has read earlier.
Store(reg, w) ==
    /\ backlight' = w.light
    /\ backlightLock' = w.lock
    /\ clobbered' = (clobbered \/ reg # tftControl)

Asleep == sleepTimeout >= limit

Down == {"CLICK", "TOUCH"}

-----------------------------------------------------------------------------
\* tsc2046.invoke when no sample is due, or it shows nothing new.
NoEvent ==
    /\ sensor = "invoke"
    /\ touch \in Down => turns < Period
    /\ sensor' = "count"
    /\ turns' = IF touch \in Down THEN turns + 1 ELSE 0
    /\ UNCHANGED <<settingsVars, touch, sleepTimeout, backlight, backlightLock, sensorReg, at,
                   windowReg, saved, fed, missed, clobbered>>

\* A sample fires event e to the listener (Clicks: CLICK, TOUCH ..., RELEASE).
Sample(e) ==
    /\ sensor = "invoke"
    /\ IF touch \in Down THEN e \in {"TOUCH", "RELEASE"} ELSE e = "CLICK"
    /\ touch' = e
    /\ turns' = 0

\* The listener when awake: all windows get the event.
Forward(e) ==
    /\ Sample(e)
    /\ ~Asleep
    /\ fed' = e
    /\ sleepTimeout' = 0
    /\ sensor' = "count"
    /\ UNCHANGED <<settingsVars, backlight, backlightLock, sensorReg, at, windowReg, saved,
                   missed, clobbered>>

\* The listener when asleep: only a RELEASE counts, and no window gets it.
Swallow(e) ==
    /\ Sample(e)
    /\ Asleep
    /\ e # "RELEASE"
    /\ sensor' = "count"
    /\ UNCHANGED <<settingsVars, sleepTimeout, backlight, backlightLock, sensorReg, at,
                   windowReg, saved, fed, missed, clobbered>>

Wake_AnyEvent(e) ==
    /\ Sample(e)
    /\ Asleep
    /\ sensor' = "wake"
    /\ sensorReg' = tftControl
    /\ UNCHANGED <<settingsVars, sleepTimeout, backlight, backlightLock, at, windowReg, saved,
                   fed, missed, clobbered>>

Wake(e) ==
    /\ Sample(e)
    /\ Asleep
    /\ e = "RELEASE"
    /\ sensor' = "wake"
    /\ sensorReg' = tftControl
    /\ UNCHANGED <<settingsVars, sleepTimeout, backlight, backlightLock, at, windowReg, saved,
                   fed, missed, clobbered>>

WakeStore_TimeFirst ==
    /\ sensor = "wake"
    /\ sensor' = "fire"
    /\ sleepTimeout' = 0
    /\ UNCHANGED <<settingsVars, touch, turns, backlight, backlightLock, sensorReg, at,
                   windowReg, saved, fed, missed, clobbered>>

\* backlight = TFT_BACKLIGHT_ON, sleepTimeout = 0.
WakeStore ==
    /\ sensor = "wake"
    /\ sensor' = "fire"
    /\ Store(sensorReg, [sensorReg EXCEPT !.light = TRUE])
    /\ sleepTimeout' = 0
    /\ sensorReg' = Spent
    /\ UNCHANGED <<settingsVars, touch, turns, at, windowReg, saved, fed, missed>>

\* vm::fire_event("wakeup") makes every thread ready that waits for it.
FireWakeup ==
    /\ sensor = "fire"
    /\ sensor' = "count"
    /\ at' = [t \in Sleeper |-> IF at[t] = "waiting" THEN "test" ELSE at[t]]
    /\ missed' = {t \in Sleeper : at[t] = "wait"}
    /\ UNCHANGED <<settingsVars, touch, turns, sleepTimeout, backlight, backlightLock,
                   sensorReg, windowReg, saved, fed, clobbered>>

\* After vm::sleep(1): count, and set the brightness ...
Count ==
    /\ sensor = "count"
    /\ ~Asleep
    /\ sleepTimeout' = sleepTimeout + 1
    /\ sensor' = "dim"
    /\ sensorReg' = tftControl
    /\ UNCHANGED <<settingsVars, touch, turns, backlight, backlightLock, at, windowReg, saved,
                   fed, missed, clobbered>>

Dim ==
    /\ sensor = "dim"
    /\ sensor' = "invoke"
    /\ Store(sensorReg, sensorReg)
    /\ sensorReg' = Spent
    /\ UNCHANGED <<settingsVars, touch, turns, sleepTimeout, at, windowReg, saved, fed,
                   missed>>

\* ... or turn the backlight off, unless it is locked.
TestLock ==
    /\ sensor = "count"
    /\ Asleep
    /\ IF backlightLock THEN sensor' = "invoke" /\ UNCHANGED sensorReg
                        ELSE sensor' = "off" /\ sensorReg' = tftControl
    /\ UNCHANGED <<settingsVars, touch, turns, sleepTimeout, backlight, backlightLock, at,
                   windowReg, saved, fed, missed, clobbered>>

LightOff ==
    /\ sensor = "off"
    /\ sensor' = "invoke"
    /\ Store(sensorReg, [sensorReg EXCEPT !.light = FALSE])
    /\ sensorReg' = Spent
    /\ UNCHANGED <<settingsVars, touch, turns, sleepTimeout, at, windowReg, saved, fed,
                   missed>>

-----------------------------------------------------------------------------
Goto(t, from, to) ==
    /\ at[t] = from
    /\ at' = [at EXCEPT ![t] = to]

\* if (backlight == TFT_BACKLIGHT_OFF) ...
TestLight(t) ==
    /\ Goto(t, "test", IF backlight THEN "run" ELSE "wait")
    /\ UNCHANGED <<sensorVars, settingsVars, backlight, backlightLock, windowReg, saved,
                   missed, clobbered>>

\* ... vm::wait_event("wakeup")
WaitEvent(t) ==
    /\ Goto(t, "wait", "waiting")
    /\ UNCHANGED <<sensorVars, settingsVars, backlight, backlightLock, windowReg, saved,
                   missed, clobbered>>

\* The rest of the loop: invokeEvent and repaint, or the update of the screen.
Run(t) ==
    /\ Goto(t, "run", "test")
    /\ UNCHANGED <<sensorVars, settingsVars, backlight, backlightLock, windowReg, saved,
                   missed, clobbered>>

\* The window opens cam_app, which locks the backlight and does not test it.
CamOpen ==
    /\ Goto("window", "run", "camLock")
    /\ ~settings
    /\ saved' = backlightLock
    /\ windowReg' = tftControl
    /\ UNCHANGED <<sensorVars, settingsVars, backlight, backlightLock, missed, clobbered>>

CamLock ==
    /\ Goto("window", "camLock", "cam")
    /\ Store(windowReg, [windowReg EXCEPT !.lock = TRUE])
    /\ windowReg' = Spent
    /\ UNCHANGED <<sensorVars, settingsVars, saved, missed>>

CamExit ==
    /\ Goto("window", "cam", "camRestore")
    /\ windowReg' = tftControl
    /\ UNCHANGED <<sensorVars, settingsVars, backlight, backlightLock, saved, missed,
                   clobbered>>

\* The copy saved is spent.
CamRestore ==
    /\ Goto("window", "camRestore", "test")
    /\ Store(windowReg, [windowReg EXCEPT !.lock = saved])
    /\ windowReg' = Spent
    /\ saved' = FALSE
    /\ UNCHANGED <<sensorVars, settingsVars, missed>>

-----------------------------------------------------------------------------
\* The window opens settings_app, which copies applicationControl.
SettingsOpen ==
    /\ Goto("window", "run", "test")
    /\ ~settings
    /\ settings' = TRUE
    /\ local' = applicationControl
    /\ UNCHANGED <<sensorVars, backlight, backlightLock, windowReg, saved, missed, clobbered,
                   limit, temp, copying, raised>>

\* change_local_param: any number of presses set the limit of the copy.
Edit(l) ==
    /\ Goto("window", "run", "test")
    /\ settings
    /\ local' = [local EXCEPT !.limit = l]
    /\ UNCHANGED <<sensorVars, backlight, backlightLock, windowReg, saved, missed, clobbered,
                   limit, settings, temp, copying, raised>>

\* save_local_cfg(&applicationControl, ...), or f_read, is about to start.
BeginCopy(what) ==
    /\ Goto("window", "run", "copyWord")
    /\ settings
    /\ copying' = what
    /\ UNCHANGED <<sensorVars, backlight, backlightLock, windowReg, saved, missed, clobbered,
                   limit, settings, local, raised>>

\* label_apply: what it replaces is kept.
Apply == BeginCopy("apply") /\ temp' = applicationControl

\* label_exit with unapplied changes, to whatever field: what it replaces is
\* not kept.
ApplyAndLeave == BeginCopy("leave") /\ UNCHANGED temp

\* label_revert: zeros when nothing has been applied or loaded yet.
Revert == BeginCopy("revert") /\ UNCHANGED temp

\* load_config of a file this or an earlier session has saved.  (One that
\* cannot be opened or read changes nothing: Run.)  That it holds
\* SENSOR_LOCK_ID meanwhile is left out, which only allows more.
Load == BeginCopy("load") /\ UNCHANGED temp

\* A file that a failed save has left empty is read without an error: nothing
\* is copied, and the load goes on.
LoadEmpty ==
    /\ Goto("window", "run", "loaded")
    /\ settings
    /\ UNCHANGED <<sensorVars, settingsVars, backlight, backlightLock, windowReg, saved,
                   missed, clobbered>>

\* What is copied.  The file may hold any word and any limit, so each is
\* chosen when it is copied.
Source == [none |-> {}, apply |-> {local}, leave |-> {local}, revert |-> {temp},
           load |-> Control]

\* The copy reaches the word, however old what it copies is, ...
CopyWord ==
    /\ Goto("window", "copyWord", "copyLimit")
    /\ \E c \in Source[copying] : Store(WordOf(c), WordOf(c))
    /\ UNCHANGED <<sensorVars, settingsVars, windowReg, saved, missed>>

\* ... and then the limit.
CopyLimit ==
    /\ Goto("window", "copyLimit", IF copying = "leave" THEN "left"
                                   ELSE IF copying = "load" THEN "loaded" ELSE "test")
    /\ \E c \in Source[copying] :
        /\ limit' = c.limit
        /\ raised' = (raised \/ (Asleep /\ sleepTimeout < c.limit))
    /\ copying' = "none"
    /\ UNCHANGED <<sensorVars, backlight, backlightLock, windowReg, saved, missed, clobbered,
                   settings, local, temp>>

\* What was loaded is copied to both copies.
LoadLocal ==
    /\ Goto("window", "loaded", "loadTemp")
    /\ local' = applicationControl
    /\ UNCHANGED <<sensorVars, backlight, backlightLock, windowReg, saved, missed, clobbered,
                   limit, settings, temp, copying, raised>>

LoadTemp ==
    /\ Goto("window", "loadTemp", "test")
    /\ temp' = applicationControl
    /\ UNCHANGED <<sensorVars, backlight, backlightLock, windowReg, saved, missed, clobbered,
                   limit, settings, local, copying, raised>>

\* vm::exit(0), and the window that has opened settings_app runs on.  Its
\* copy local is spent.
SettingsExit ==
    /\ Goto("window", "run", "test") \/ Goto("window", "left", "test")
    /\ settings
    /\ settings' = FALSE
    /\ local' = Zeros
    /\ UNCHANGED <<sensorVars, backlight, backlightLock, windowReg, saved, missed, clobbered,
                   limit, temp, copying, raised>>

-----------------------------------------------------------------------------
SensorStep ==
    \/ NoEvent
    \/ \E e \in {"CLICK", "TOUCH", "RELEASE"} : Forward(e) \/ Swallow(e) \/ Wake(e)
    \/ WakeStore \/ FireWakeup \/ Count \/ Dim \/ TestLock \/ LightOff

SleeperStep(t) == TestLight(t) \/ WaitEvent(t) \/ Run(t)

CamStep == CamOpen \/ CamLock \/ CamExit \/ CamRestore

SettingsStep ==
    \/ SettingsOpen \/ (\E l \in Limits : Edit(l))
    \/ Apply \/ ApplyAndLeave \/ Revert \/ Load \/ LoadEmpty
    \/ CopyWord \/ CopyLimit \/ LoadLocal \/ LoadTemp \/ SettingsExit

Next == SensorStep \/ (\E t \in Sleeper : SleeperStep(t)) \/ CamStep \/ SettingsStep

Spec == Init /\ [][Next]_vars

-----------------------------------------------------------------------------
\* Types; sleepTimeout stops at a limit, so the system sleeps until woken.
TypeOK ==
    /\ touch \in {"NONE", "CLICK", "TOUCH", "RELEASE"}
    /\ turns \in 0 .. Period
    /\ \E l \in Limits : sleepTimeout \in 0 .. l
    /\ backlight \in BOOLEAN
    /\ backlightLock \in BOOLEAN
    /\ sensor \in {"invoke", "wake", "fire", "count", "dim", "off"}
    /\ sensorReg \in Word
    /\ at \in [Sleeper -> {"test", "run", "wait", "waiting", "camLock", "cam", "camRestore",
                           "copyWord", "copyLimit", "loaded", "loadTemp", "left"}]
    /\ windowReg \in Word
    /\ saved \in BOOLEAN
    /\ fed \in {"NONE", "CLICK", "TOUCH", "RELEASE"}
    /\ missed \subseteq Sleeper
    /\ clobbered \in BOOLEAN
    /\ limit \in Limits \cup {0}
    /\ settings \in BOOLEAN
    /\ local \in Control
    /\ temp \in Control
    /\ copying \in {"none", "apply", "leave", "revert", "load"}
    /\ raised \in BOOLEAN

\* The windows see whole gestures, CLICK, TOUCH, ..., RELEASE, although the
\* system falls asleep and wakes up between samples and settings_app moves the
\* limit: a touch that wakes it is hidden to its end, and after a touch that
\* has begun comes its own rest (or nothing any more, when a REVERT to zeros
\* has set the limit to 0).  Only a limit that is raised over sleepTimeout
\* while the system sleeps shows the windows the rest of a hidden touch.
WholeGestures ==
    [][~raised => IF fed' = "CLICK" THEN fed \notin Down ELSE fed \in Down]_fed

\* The backlight is off, and a thread is stopped until the next wake-up,
\* only while the system sleeps.  Three races break this: a thread that is
\* preempted between its test and wait_event misses the event; a store
\* of tftControl undoes one of another thread, read long ago when the store
\* is settings_app's copy of a whole structure; and such a copy raises the
\* limit of a system that sleeps, which then runs on without a wake-up.
DarkOnlyAsleep ==
    ~clobbered /\ ~raised =>
        /\ ~backlight => Asleep
        /\ \A t \in Sleeper : at[t] = "waiting" =>
              Asleep \/ sensor = "fire" \/ t \in missed

=============================================================================
