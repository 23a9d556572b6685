---------------------------- MODULE AppsProofs ----------------------------
(***************************************************************************)
(* What TLC checks of Power for limits of a few turns, for every set of    *)
(* limits and every sampling period shorter than them.  The argument: only *)
(* the sensor thread changes sleepTimeout; from its test of the time-out   *)
(* to its store the system stays asleep, unless settings_app raises the    *)
(* limit; and while the windows are in the middle of a touch the time-out  *)
(* is at most the turns since the last sample, and so below every limit    *)
(* but the 0 of an unused copy, which stops all events.                    *)
(*                                                                         *)
(* Then why the windows of AppLocks give back what they lock and no circle *)
(* of threads waits for one another.  What a function does to the locks is *)
(* said of its sequence of calls (After, OnlyOwn) and put together from    *)
(* rows of locks and of unlocks; a step takes one call off what a thread   *)
(* has still to do and does to the owners what that call does.             *)
(***************************************************************************)
EXTENDS Power, AppLocks, FiniteSetTheorems, SequenceTheorems, TLAPS

\* Where the sensor thread is agrees with the time-out.
SensorKnows ==
    /\ ~raised /\ sensor \in {"off", "wake"} => Asleep
    /\ sensor \in {"wake", "fire"} => touch = "RELEASE"

\* A thread that is about to wait, or waits, is waited for by a wake-up.
AllAccounted ==
    /\ ~backlight => Asleep
    /\ \A t \in Sleeper : at[t] \in {"wait", "waiting"} =>
          Asleep \/ sensor = "fire" \/ t \in missed

Accounted == ~clobbered /\ ~raised => AllAccounted

\* A touch the windows are in the middle of keeps the system awake; when the
\* limit is 0 they see nothing more, until it is raised.
InTouch ==
    /\ touch \in Down
    /\ sleepTimeout <= turns + 1
    /\ sensor = "count" => sleepTimeout <= turns

Midway ==
    ~raised =>
        /\ fed \in Down => sleepTimeout <= Period + 1
        /\ fed \in Down /\ limit # 0 => InTouch
        /\ touch \in Down /\ ~Asleep => fed \in Down

\* The inductive invariant.
Inv == TypeOK /\ SensorKnows /\ Accounted /\ Midway

-----------------------------------------------------------------------------
\* A store that does not undo another thread's changes one field.
LEMMA StoreKeeps ==
    ASSUME NEW reg \in Word, NEW w \in Word, Store(reg, w), ~clobbered', TypeOK
    PROVE  reg = tftControl /\ ~clobbered
  BY DEF Store, TypeOK

\* The word tftControl is a word, and applicationControl a structure.
LEMMA WordType == TypeOK => tftControl \in Word /\ applicationControl \in Control
  BY DEF TypeOK, tftControl, Word, applicationControl, Control

\* The values that stand for nothing have their types.
LEMMA SpentType == Spent \in Word /\ Zeros \in Control
  BY DEF Spent, Zeros, WordOf, Word, Control

\* What settings_app copies is a structure.
LEMMA SourceType ==
    ASSUME TypeOK, NEW c \in Source[copying]
    PROVE  c \in Control /\ WordOf(c) \in Word /\ c.limit \in Limits \cup {0}
  <1>1. c \in Control
    BY DEF Source, TypeOK
  <1> QED
    BY <1>1 DEF Control, Word, WordOf

\* The system starts with the invariant.
LEMMA InitInv == Init => Inv
  <1> SUFFICES ASSUME Init PROVE Inv
    OBVIOUS
  <1> USE PowerAssumption
  <1>1. TypeOK
    <2>1. /\ touch \in {"NONE", "CLICK", "TOUCH", "RELEASE"} /\ turns \in 0 .. Period
          /\ limit \in Limits /\ sleepTimeout \in 0 .. limit
      BY DEF Init
    <2>2. /\ backlight \in BOOLEAN /\ backlightLock \in BOOLEAN /\ saved \in BOOLEAN
          /\ clobbered \in BOOLEAN /\ raised \in BOOLEAN /\ settings \in BOOLEAN
      BY DEF Init
    <2>3. /\ sensorReg \in Word /\ windowReg \in Word
          /\ local \in Control /\ temp \in Control
      BY SpentType DEF Init
    <2>4. /\ sensor \in {"invoke", "wake", "fire", "count", "dim", "off"}
          /\ fed \in {"NONE", "CLICK", "TOUCH", "RELEASE"}
          /\ copying \in {"none", "apply", "leave", "revert", "load"}
          /\ missed \subseteq Sleeper
      BY DEF Init
    <2>5. at \in [Sleeper -> {"test", "run", "wait", "waiting", "camLock", "cam", "camRestore",
                           "copyWord", "copyLimit", "loaded", "loadTemp", "left"}]
      BY DEF Init
    <2> QED
      BY <2>1, <2>2, <2>3, <2>4, <2>5 DEF TypeOK
  <1>2. SensorKnows /\ Midway
    BY DEF Init, SensorKnows, Midway, Down
  <1>3. Accounted
    BY DEF Init, Accounted, AllAccounted, Sleeper
  <1> QED
    BY <1>1, <1>2, <1>3 DEF Inv

-----------------------------------------------------------------------------
\* What the steps of the window and of render leave alone.
LEMMA SleeperSteps ==
    ASSUME (\E t \in Sleeper : SleeperStep(t)) \/ CamStep \/ SettingsStep
    PROVE  UNCHANGED sensorVars
  BY DEF SleeperStep, CamStep, SettingsStep, TestLight, WaitEvent, Run, CamOpen, CamLock,
      CamExit, CamRestore, SettingsOpen, Edit, BeginCopy, Apply, ApplyAndLeave, Revert, Load,
      LoadEmpty, CopyWord, CopyLimit, LoadLocal, LoadTemp, SettingsExit

\* Only the copy of the limit changes it.
LEMMA OnlyCopies ==
    ASSUME [Next]_vars, ~CopyLimit
    PROVE  limit' = limit /\ raised' = raised
  BY DEF Next, SensorStep, SleeperStep, CamStep, SettingsStep, NoEvent, Forward, Swallow, Wake,
      WakeStore, FireWakeup, Count, Dim, TestLock, LightOff, TestLight, WaitEvent, Run,
      CamOpen, CamLock, CamExit, CamRestore, SettingsOpen, Edit, BeginCopy, Apply,
      ApplyAndLeave, Revert, Load, LoadEmpty, CopyWord, LoadLocal, LoadTemp, SettingsExit,
      settingsVars, vars

\* What the copy of the limit does: the sleep ends only when it is said to.
LEMMA CopyLimitEffect ==
    ASSUME TypeOK, CopyLimit
    PROVE  /\ limit' \in Limits \cup {0}
           /\ raised' \in BOOLEAN
           /\ ~raised' => ~raised /\ (Asleep => sleepTimeout >= limit')
           /\ UNCHANGED <<sensorVars, backlight, backlightLock, missed, clobbered>>
  <1>1. PICK c \in Source[copying] :
            limit' = c.limit /\ raised' = (raised \/ (Asleep /\ sleepTimeout < c.limit))
    BY DEF CopyLimit
  <1>2. c.limit \in Limits \cup {0}
    BY SourceType
  <1>3. sleepTimeout \in Nat /\ c.limit \in Nat /\ raised \in BOOLEAN
    <2>1. sleepTimeout \in Nat
      BY PowerAssumption DEF TypeOK
    <2>2. Limits \cup {0} \subseteq Nat
      <3>1. Limits \subseteq Nat
        BY PowerAssumption
      <3> QED
        BY <3>1
    <2>3. raised \in BOOLEAN
      BY DEF TypeOK
    <2>4. c.limit \in Nat
      BY <1>2, <2>2, Zenon
    <2> QED
      BY <2>1, <2>3, <2>4
  <1>4. UNCHANGED <<sensorVars, backlight, backlightLock, missed, clobbered>>
    BY DEF CopyLimit
  <1>5. raised' \in BOOLEAN /\ (~raised' => ~raised /\ (Asleep => sleepTimeout >= c.limit))
    <2>1. sleepTimeout < c.limit \/ sleepTimeout >= c.limit
      BY <1>3
    <2> QED
      BY <1>1, <1>3, <2>1
  <1> QED
    BY <1>1, <1>2, <1>4, <1>5

\* The types, group by group: each group is touched by a few actions.
LEMMA StepCounters ==
    ASSUME TypeOK, Next
    PROVE  /\ touch' \in {"NONE", "CLICK", "TOUCH", "RELEASE"}
           /\ turns' \in 0 .. Period
           /\ sensor' \in {"invoke", "wake", "fire", "count", "dim", "off"}
           /\ fed' \in {"NONE", "CLICK", "TOUCH", "RELEASE"}
  <1>1. CASE UNCHANGED sensorVars
    BY <1>1 DEF TypeOK, sensorVars
  <1>2. CASE SensorStep
    BY <1>2, PowerAssumption DEF TypeOK, Down, SensorStep, NoEvent, Forward, Swallow, Wake,
        WakeStore, FireWakeup, Count, Dim, TestLock, LightOff, Sample
  <1> QED
    BY <1>1, <1>2, SleeperSteps DEF Next

\* sleepTimeout is counted up to a limit.
LEMMA StepTime ==
    ASSUME TypeOK, Next
    PROVE  \E l \in Limits : sleepTimeout' \in 0 .. l
  <1>1. PICK l \in Limits : sleepTimeout \in 0 .. l
    BY DEF TypeOK
  <1>2. l \in Nat /\ 0 \in 0 .. l
    BY PowerAssumption
  <1>3. CASE sleepTimeout' = sleepTimeout \/ sleepTimeout' = 0
    BY <1>1, <1>2, <1>3
  <1>4. CASE Count
    <2>1. limit \in Limits /\ sleepTimeout < limit /\ sleepTimeout' = sleepTimeout + 1
      BY <1>4, <1>1, PowerAssumption DEF Count, Asleep, TypeOK
    <2>2. sleepTimeout' \in 0 .. limit
      BY <2>1, <1>1, PowerAssumption
    <2> QED
      BY <2>1, <2>2
  <1>5. CASE SensorStep /\ ~Count
    BY <1>3, <1>5 DEF SensorStep, NoEvent, Forward, Swallow, Wake, WakeStore, FireWakeup, Dim,
        TestLock, LightOff
  <1> QED
    BY <1>3, <1>4, <1>5, SleeperSteps DEF Next, sensorVars

\* A step takes the threads to places of their loops.
LEMMA StepPlaces ==
    ASSUME TypeOK, Next
    PROVE  /\ at' \in [Sleeper -> {"test", "run", "wait", "waiting", "camLock", "cam",
                                    "camRestore", "copyWord", "copyLimit", "loaded",
                                    "loadTemp", "left"}]
           /\ missed' \subseteq Sleeper
           /\ copying' \in {"none", "apply", "leave", "revert", "load"}
           /\ settings' \in BOOLEAN
  <1>1. CASE SensorStep
    BY <1>1 DEF TypeOK, Sleeper, settingsVars, SensorStep, NoEvent, Forward, Swallow, Wake,
        WakeStore, FireWakeup, Count, Dim, TestLock, LightOff
  <1>2. CASE (\E t \in Sleeper : SleeperStep(t)) \/ CamStep
    BY <1>2 DEF TypeOK, Sleeper, settingsVars, SleeperStep, CamStep, TestLight, WaitEvent, Run,
        CamOpen, CamLock, CamExit, CamRestore, Goto
  <1>3. CASE SettingsStep
    BY <1>3 DEF TypeOK, Sleeper, settingsVars, SettingsStep, SettingsOpen, Edit, BeginCopy,
        Apply, ApplyAndLeave, Revert, Load, LoadEmpty, CopyWord, CopyLimit, LoadLocal,
        LoadTemp, SettingsExit, Goto
  <1> QED
    BY <1>1, <1>2, <1>3 DEF Next

\* What the threads have read are words, and what settings_app keeps are
\* structures.
LEMMA StepWords ==
    ASSUME TypeOK, Next
    PROVE  /\ sensorReg' \in Word /\ windowReg' \in Word
           /\ local' \in Control /\ temp' \in Control
  <1> USE WordType, SpentType
  <1>1. CASE SensorStep
    BY <1>1 DEF TypeOK, settingsVars, SensorStep, NoEvent, Forward, Swallow, Wake, WakeStore,
        FireWakeup, Count, Dim, TestLock, LightOff
  <1>2. CASE (\E t \in Sleeper : SleeperStep(t)) \/ CamStep
    BY <1>2 DEF TypeOK, sensorVars, settingsVars, SleeperStep, CamStep, TestLight, WaitEvent,
        Run, CamOpen, CamLock, CamExit, CamRestore
  <1>3. ASSUME NEW l \in Limits, Edit(l)
        PROVE  sensorReg' \in Word /\ windowReg' \in Word /\ local' \in Control
               /\ temp' \in Control
    BY <1>3 DEF TypeOK, sensorVars, Edit, Control
  <1>4. CASE SettingsStep /\ ~ \E l \in Limits : Edit(l)
    BY <1>4 DEF TypeOK, sensorVars, settingsVars, SettingsStep, SettingsOpen, BeginCopy,
        Apply, ApplyAndLeave, Revert, Load, LoadEmpty, CopyWord, CopyLimit, LoadLocal,
        LoadTemp, SettingsExit
  <1> QED
    BY <1>1, <1>2, <1>3, <1>4 DEF Next

\* The bits and histories keep their types.
LEMMA StepBits ==
    ASSUME TypeOK, Next
    PROVE  /\ backlight' \in BOOLEAN /\ backlightLock' \in BOOLEAN
           /\ clobbered' \in BOOLEAN /\ saved' \in BOOLEAN
  <1>1. CASE SensorStep
    BY <1>1 DEF TypeOK, Store, Word, SensorStep, NoEvent, Forward, Swallow, Wake, WakeStore,
        FireWakeup, Count, Dim, TestLock, LightOff
  <1>2. CASE (\E t \in Sleeper : SleeperStep(t)) \/ CamStep
    BY <1>2 DEF TypeOK, Store, Word, SleeperStep, CamStep, TestLight, WaitEvent, Run, CamOpen,
        CamLock, CamExit, CamRestore
  <1>3. CASE CopyWord
    <2>1. PICK c \in Source[copying] : Store(WordOf(c), WordOf(c))
      BY <1>3 DEF CopyWord
    <2> QED
      BY <1>3, <2>1, SourceType DEF CopyWord, Store, Word, TypeOK
  <1>4. CASE SettingsStep /\ ~CopyWord
    BY <1>4 DEF TypeOK, SettingsStep, SettingsOpen, Edit, BeginCopy, Apply, ApplyAndLeave,
        Revert, Load, LoadEmpty, CopyLimit, LoadLocal, LoadTemp, SettingsExit
  <1> QED
    BY <1>1, <1>2, <1>3, <1>4 DEF Next

\* Every step keeps the types.
LEMMA StepType == TypeOK /\ [Next]_vars => TypeOK'
  <1> SUFFICES ASSUME TypeOK, [Next]_vars PROVE TypeOK'
    OBVIOUS
  <1>1. limit' \in Limits \cup {0} /\ raised' \in BOOLEAN
    BY CopyLimitEffect, OnlyCopies DEF TypeOK
  <1>2. CASE Next
    BY <1>1, <1>2, StepCounters, StepTime, StepPlaces, StepWords, StepBits DEF TypeOK
  <1>3. CASE UNCHANGED vars
    BY <1>3 DEF TypeOK, vars, sensorVars, settingsVars
  <1> QED
    BY <1>2, <1>3

-----------------------------------------------------------------------------
\* The steps that settings_app's copy of the limit is not one of.
LEMMA SensorOrStill ==
    ASSUME [Next]_vars
    PROVE  SensorStep \/ CopyLimit \/ UNCHANGED <<sensorVars, limit, raised>>
  BY SleeperSteps, OnlyCopies DEF Next, vars

\* Every step keeps what the place of the sensor thread says of the time-out.
LEMMA StepSensorKnows == Inv /\ [Next]_vars => SensorKnows'
  <1> SUFFICES ASSUME Inv, [Next]_vars PROVE SensorKnows'
    OBVIOUS
  <1>1. CASE UNCHANGED <<sensorVars, limit, raised>>
    BY <1>1 DEF sensorVars, Inv, SensorKnows, Asleep
  <1>2. CASE CopyLimit
    BY <1>2, CopyLimitEffect DEF sensorVars, Inv, SensorKnows, Asleep
  <1>3. CASE SensorStep
    <2>1. limit' = limit /\ raised' = raised
      BY <1>3, OnlyCopies DEF SensorStep, NoEvent, Forward, Swallow, Wake, WakeStore,
          FireWakeup, Count, Dim, TestLock, LightOff, settingsVars
    <2> QED
      BY <1>3, <2>1 DEF Inv, SensorKnows, Asleep, SensorStep, NoEvent, Forward, Swallow, Wake,
          WakeStore, FireWakeup, Count, Dim, TestLock, LightOff, Sample
  <1> QED
    BY <1>1, <1>2, <1>3, SensorOrStill

\* Every step keeps the windows awake in the middle of a touch.
LEMMA StepMidway == Inv /\ [Next]_vars => Midway'
  <1> SUFFICES ASSUME Inv, [Next]_vars, ~raised'
               PROVE  /\ fed' \in Down => sleepTimeout' <= Period + 1
                      /\ fed' \in Down /\ limit' # 0 => InTouch'
                      /\ touch' \in Down /\ ~Asleep' => fed' \in Down
    BY DEF Midway, Down
  <1>1. /\ sleepTimeout \in Nat /\ turns \in 0 .. Period /\ Period \in Nat
        /\ limit \in Nat
        /\ limit # 0 => Period + 1 < limit
    BY PowerAssumption DEF Inv, TypeOK
  <1>2. ~raised
    BY CopyLimitEffect, OnlyCopies DEF Inv
  <1> DEFINE Goal == /\ fed' \in Down => sleepTimeout' <= Period + 1
                     /\ fed' \in Down /\ limit' # 0 => InTouch'
                     /\ touch' \in Down /\ ~Asleep' => fed' \in Down
  <1>3. CASE UNCHANGED <<sensorVars, limit, raised>>
    BY <1>2, <1>3 DEF sensorVars, Inv, Midway, InTouch, Asleep, Down
  <1>4. CASE CopyLimit
    <2>1. /\ limit' \in Nat
          /\ limit' # 0 => Period + 1 < limit'
          /\ Asleep => sleepTimeout >= limit'
          /\ UNCHANGED sensorVars
      <3>1. /\ limit' \in Limits \cup {0}
            /\ Asleep => sleepTimeout >= limit'
            /\ UNCHANGED sensorVars
        BY <1>4, CopyLimitEffect DEF Inv
      <3>2. limit' \in Nat /\ (limit' # 0 => Period + 1 < limit')
        BY <3>1, PowerAssumption
      <3> QED
        BY <3>1, <3>2
    <2>2. fed \in Down /\ limit' # 0 => limit # 0
      BY <1>1, <1>2, <2>1 DEF Inv, Midway, Asleep
    <2> QED
      BY <1>1, <1>2, <2>1, <2>2 DEF sensorVars, Inv, Midway, InTouch, Asleep, Down
  <1>5. CASE SensorStep
    <2>1. limit' = limit
      BY <1>5 DEF SensorStep, NoEvent, Forward, Swallow, Wake, WakeStore, FireWakeup, Count,
          Dim, TestLock, LightOff, settingsVars
    <2>2. /\ fed \in Down => sleepTimeout <= Period + 1
          /\ fed \in Down /\ limit # 0 => InTouch
          /\ touch \in Down /\ ~Asleep => fed \in Down
      BY <1>2 DEF Inv, Midway
    <2>3. /\ sensor \in {"off", "wake"} => Asleep
          /\ sensor \in {"wake", "fire"} => touch = "RELEASE"
      BY <1>2 DEF Inv, SensorKnows
    <2> USE DEF InTouch, Asleep, Down
    <2>4. CASE NoEvent
      BY <1>1, <2>1, <2>2, <2>3, <2>4 DEF NoEvent
    <2>5. ASSUME NEW e \in {"CLICK", "TOUCH", "RELEASE"}, Forward(e) PROVE Goal
      BY <1>1, <2>1, <2>2, <2>3, <2>5 DEF Forward, Sample
    <2>6. ASSUME NEW e \in {"CLICK", "TOUCH", "RELEASE"}, Swallow(e) PROVE Goal
      BY <1>1, <2>1, <2>2, <2>3, <2>6 DEF Swallow, Sample
    <2>7. ASSUME NEW e \in {"CLICK", "TOUCH", "RELEASE"}, Wake(e) PROVE Goal
      BY <1>1, <2>1, <2>2, <2>3, <2>7 DEF Wake, Sample
    <2>8. CASE WakeStore
      BY <1>1, <2>1, <2>2, <2>3, <2>8 DEF WakeStore
    <2>9. CASE FireWakeup
      BY <1>1, <2>1, <2>2, <2>3, <2>9 DEF FireWakeup
    <2>10. CASE Count
      BY <1>1, <2>1, <2>2, <2>3, <2>10 DEF Count
    <2>11. CASE Dim \/ TestLock \/ LightOff
      BY <1>1, <2>1, <2>2, <2>3, <2>11 DEF Dim, TestLock, LightOff
    <2> QED
      BY <1>5, <2>4, <2>5, <2>6, <2>7, <2>8, <2>9, <2>10, <2>11 DEF SensorStep
  <1> QED
    BY <1>3, <1>4, <1>5, SensorOrStill

\* Every step keeps who waits accounted for.
LEMMA StepAccounted == Inv /\ [Next]_vars => Accounted'
  <1> SUFFICES ASSUME Inv, [Next]_vars, ~clobbered', ~raised'
               PROVE  AllAccounted'
    BY DEF Accounted
  <1>1. ~clobbered
    BY DEF Inv, TypeOK, Next, SensorStep, SleeperStep, CamStep, SettingsStep, NoEvent, Forward,
        Swallow, Wake, WakeStore, FireWakeup, Count, Dim, TestLock, LightOff, TestLight,
        WaitEvent, Run, CamOpen, CamLock, CamExit, CamRestore, SettingsOpen, Edit, BeginCopy,
        Apply, ApplyAndLeave, Revert, Load, LoadEmpty, CopyWord, CopyLimit, LoadLocal,
        LoadTemp, SettingsExit, Store, vars
  <1>2. ~raised
    BY CopyLimitEffect, OnlyCopies DEF Inv
  <1>3. AllAccounted /\ TypeOK
    BY <1>1, <1>2 DEF Inv, Accounted
  <1>4. sensor \in {"off", "wake"} => Asleep
    BY <1>2 DEF Inv, SensorKnows
  <1> USE <1>3 DEF AllAccounted, Asleep
  <1>5. CASE NoEvent
    BY <1>5 DEF NoEvent, settingsVars
  <1>6. ASSUME NEW e \in {"CLICK", "TOUCH", "RELEASE"}, Forward(e) \/ Swallow(e) \/ Wake(e)
        PROVE  AllAccounted'
    BY <1>6 DEF Forward, Swallow, Wake, Sample, settingsVars
  <1>7. CASE WakeStore
    BY <1>7 DEF WakeStore, Store, TypeOK, Word, settingsVars
  <1>8. CASE FireWakeup
    <2>1. \A t \in Sleeper : at'[t] \in {"wait", "waiting"} => t \in missed'
      BY <1>8 DEF FireWakeup, TypeOK
    <2> QED
      BY <1>8, <2>1 DEF FireWakeup, settingsVars
  <1>9. CASE Count
    BY <1>9 DEF Count, TypeOK, settingsVars
  <1>10. CASE Dim
    <2>1. sensorReg = tftControl
      BY <1>10, StoreKeeps DEF Dim, TypeOK
    <2> QED
      BY <1>10, <2>1 DEF Dim, Store, tftControl, settingsVars
  <1>11. CASE TestLock
    BY <1>11 DEF TestLock, settingsVars
  <1>12. CASE LightOff
    BY <1>12, <1>4 DEF LightOff, settingsVars
  <1>13. ASSUME NEW t \in Sleeper, TestLight(t)
         PROVE  AllAccounted'
    BY <1>13 DEF TestLight, Goto, TypeOK, sensorVars, settingsVars
  <1>14. ASSUME NEW t \in Sleeper, WaitEvent(t) \/ Run(t)
         PROVE  AllAccounted'
    BY <1>14 DEF WaitEvent, Run, Goto, TypeOK, sensorVars, settingsVars
  <1>15. CASE CamOpen \/ CamExit
    BY <1>15 DEF CamOpen, CamExit, Goto, TypeOK, sensorVars, settingsVars
  <1>16. CASE CamLock \/ CamRestore
    <2>1. windowReg = tftControl
      BY <1>16 DEF CamLock, CamRestore, Store, TypeOK
    <2>2. backlight' = backlight
      BY <1>16, <2>1 DEF CamLock, CamRestore, Store, tftControl
    <2> QED
      BY <1>16, <2>2 DEF CamLock, CamRestore, Goto, TypeOK, sensorVars, settingsVars
  <1>17. CASE CopyWord
    <2>1. PICK c \in Source[copying] : Store(WordOf(c), WordOf(c))
      BY <1>17 DEF CopyWord
    <2>2. backlight' = backlight
      BY <2>1, SourceType, StoreKeeps DEF Store, tftControl
    <2> QED
      BY <1>17, <2>2 DEF CopyWord, Goto, TypeOK, sensorVars, settingsVars
  <1>18. CASE CopyLimit
    <2>1. /\ Asleep => Asleep'
          /\ UNCHANGED <<sensorVars, backlight, missed>>
      BY <1>18, CopyLimitEffect DEF sensorVars
    <2>2. \A t \in Sleeper : at'[t] \in {"wait", "waiting"} => at'[t] = at[t]
      BY <1>18 DEF CopyLimit, Goto, TypeOK
    <2> QED
      BY <2>1, <2>2 DEF sensorVars
  <1>19. CASE SettingsStep /\ ~CopyWord /\ ~CopyLimit
    <2>1. UNCHANGED <<sensorVars, backlight, limit, missed>>
      BY <1>19 DEF SettingsStep, SettingsOpen, Edit, BeginCopy, Apply, ApplyAndLeave, Revert,
          Load, LoadEmpty, LoadLocal, LoadTemp, SettingsExit, settingsVars
    <2>2. \A t \in Sleeper : at'[t] \in {"wait", "waiting"} => at'[t] = at[t]
      BY <1>19 DEF SettingsStep, SettingsOpen, Edit, BeginCopy, Apply, ApplyAndLeave, Revert,
          Load, LoadEmpty, LoadLocal, LoadTemp, SettingsExit, Goto, TypeOK
    <2> QED
      BY <2>1, <2>2 DEF sensorVars
  <1>20. CASE UNCHANGED vars
    BY <1>20 DEF vars, sensorVars, settingsVars
  <1> QED
    BY <1>5, <1>6, <1>7, <1>8, <1>9, <1>10, <1>11, <1>12, <1>13, <1>14, <1>15, <1>16, <1>17,
       <1>18, <1>19, <1>20
    DEF Next, SensorStep, SleeperStep, CamStep

\* The invariant is inductive.
LEMMA StepInv == Inv /\ [Next]_vars => Inv'
  BY StepType, StepSensorKnows, StepMidway, StepAccounted DEF Inv

\* Power keeps its inductive invariant, whatever the limits.
THEOREM Invariance == Spec => []Inv
  BY InitInv, StepInv, PTL DEF Spec

\* Every variable has its type; the count stops at a limit.
THEOREM TypeCorrectness == Spec => []TypeOK
  <1>1. Inv => TypeOK
    BY DEF Inv
  <1> QED
    BY <1>1, Invariance, PTL

\* Unless a store of tftControl undoes another one or a copy raises the limit
\* of a system that sleeps, the backlight is off, and a thread is stopped,
\* only while the system sleeps.
THEOREM DarkOnlyWhenAsleep == Spec => []DarkOnlyAsleep
  <1>1. Inv => DarkOnlyAsleep
    BY DEF Inv, Accounted, AllAccounted, DarkOnlyAsleep
  <1> QED
    BY <1>1, Invariance, PTL

\* The windows see whole gestures, wherever the system falls asleep and wakes
\* up and settings_app moves the limit, as long as every limit is more than a
\* sampling period and none is raised while the system sleeps.
THEOREM GesturesWhole == Spec => WholeGestures
  <1>1. ASSUME Inv, [Next]_vars
        PROVE  [~raised => IF fed' = "CLICK" THEN fed \notin Down ELSE fed \in Down]_fed
    <2>1. ASSUME NEW e \in {"CLICK", "TOUCH", "RELEASE"}, Forward(e), ~raised
          PROVE  IF fed' = "CLICK" THEN fed \notin Down ELSE fed \in Down
      <3>1. limit # 0
        BY <2>1, <1>1, PowerAssumption DEF Forward, Asleep, Inv, TypeOK
      <3> QED
        BY <2>1, <3>1, <1>1 DEF Forward, Sample, Inv, Midway, InTouch, Down
    <2>2. fed' = fed \/ \E e \in {"CLICK", "TOUCH", "RELEASE"} : Forward(e)
      <3>1. CASE SensorStep
        BY <3>1 DEF SensorStep, NoEvent, Swallow, Wake, WakeStore, FireWakeup, Count, Dim,
            TestLock, LightOff
      <3>2. CASE UNCHANGED sensorVars
        BY <3>2 DEF sensorVars
      <3> QED
        BY <1>1, <3>1, <3>2, SleeperSteps DEF Next, vars
    <2> QED
      BY <2>1, <2>2
  <1> QED
    BY <1>1, Invariance, PTL DEF Spec, WholeGestures

-----------------------------------------------------------------------------
Call == {"lock", "unlock"} \X MutexId

\* What a thread that owns S owns after the first n of some calls.
After(calls, S, n) ==
    {id \in MutexId :
        \/ id \in S /\ \A i \in 1..n : calls[i][2] # id
        \/ \E i \in 1..n : calls[i] = <<"lock", id>> /\ \A j \in i+1..n : calls[j][2] # id}

AfterAll(calls, S) == After(calls, S, Len(calls))

\* A thread that owns S unlocks with the calls what it then owns.
OnlyOwn(calls, S) ==
    \A i \in DOMAIN calls : calls[i][1] = "unlock" => calls[i][2] \in After(calls, S, i - 1)

\* It locks an id that it then owns.
Relocks(calls, S) ==
    \E i \in DOMAIN calls : calls[i][1] = "lock" /\ calls[i][2] \in After(calls, S, i - 1)

Leaves(calls, S, R) ==
    OnlyOwn(calls, S) /\ (Relocks(calls, S) \/ AfterAll(calls, S) = R)

Runs(calls, S, R) == OnlyOwn(calls, S) /\ AfterAll(calls, S) = R

\* Rows of different ids.
Rows == {ids \in Seq(MutexId) : \A i, j \in DOMAIN ids : ids[i] = ids[j] => i = j}

LocksTypeOK ==
    /\ owner \in [MutexId -> Thread \cup {NULL}]
    /\ waiters \in [MutexId -> Seq(Thread)]
    /\ todo \in [Thread -> Seq(Call)]
    /\ selfLocked \in BOOLEAN

\* A thread is queued once, for the lock that it calls for, and a lock that
\* is free has no queue.
QueuedOnce ==
    \A id \in MutexId :
        /\ \A i, j \in DOMAIN waiters[id] : waiters[id][i] = waiters[id][j] => i = j
        /\ \A t \in Range(waiters[id]) :
              todo[t] # <<>> /\ Head(todo[t]) = <<"lock", id>>

\* render and the sensor thread own their lock in the second half of a turn.
InTurn(t, loop, id) ==
    /\ todo[t] \in {<<>>, loop, Tail(loop)}
    /\ Owned(t) = IF todo[t] = Tail(loop) THEN {id} ELSE {}

\* What the window has still to do leaves it with the locks of its mode,
\* unless it is about to lock an id it owns.
LeavesMode ==
    ~Stopped => Leaves(todo["window"], Owned("window"), Held(mode))

\* The window waits for itself from the moment it is said to.
WaitsForItself ==
    selfLocked <=> \E id \in MutexId : owner[id] = "window" /\ "window" \in Range(waiters[id])

\* The windows that are stopped make no call.
StoppedIdle == mode = "faulted" => todo["window"] = <<>>

LocksInv ==
    /\ LocksTypeOK
    /\ QueuedOnce
    /\ InTurn("render", RenderLoop, FRAME)
    /\ InTurn("sensor", SensorLoop, SENSOR)
    /\ LeavesMode
    /\ WaitsForItself
    /\ StoppedIdle

\* What a thread that owns S owns after one call.
AfterOne(call, S) == IF call[1] = "lock" THEN S \cup {call[2]} ELSE S \ {call[2]}

\* The first call, then n more, are n + 1 calls.
LEMMA AfterTail ==
    ASSUME NEW calls \in Seq(Call), calls # <<>>, NEW S \in SUBSET MutexId,
           NEW n \in Nat, n < Len(calls)
    PROVE  After(Tail(calls), AfterOne(Head(calls), S), n) = After(calls, S, n + 1)
  <1>1. /\ \A i \in 1..n : Tail(calls)[i] = calls[i + 1]
        /\ Head(calls) = calls[1]
        /\ calls[1] \in Call
        /\ \A i \in 1..n+1 : calls[i] \in Call
    OBVIOUS
  <1>2. ASSUME NEW id \in MutexId
        PROVE  (\A i \in 1..n+1 : calls[i][2] # id)
                 <=> calls[1][2] # id /\ \A i \in 1..n : Tail(calls)[i][2] # id
    <2>1. \A i \in 1..n+1 : i = 1 \/ (i - 1 \in 1..n /\ Tail(calls)[i - 1] = calls[i])
      BY <1>1
    <2>2. \A i \in 1..n : i + 1 \in 1..n+1
      OBVIOUS
    <2> QED
      BY <1>1, <2>1, <2>2
  <1>3. ASSUME NEW id \in MutexId, NEW i \in 1..n
        PROVE  (Tail(calls)[i] = <<"lock", id>> /\ \A j \in i+1..n : Tail(calls)[j][2] # id)
                 <=> (calls[i+1] = <<"lock", id>> /\ \A j \in (i+1)+1..n+1 : calls[j][2] # id)
    <2>1. \A j \in (i+1)+1..n+1 : j - 1 \in i+1..n /\ Tail(calls)[j - 1] = calls[j]
      BY <1>1
    <2>2. \A j \in i+1..n : j + 1 \in (i+1)+1..n+1 /\ Tail(calls)[j] = calls[j + 1]
      BY <1>1
    <2>3. (\A j \in i+1..n : Tail(calls)[j][2] # id) <=> \A j \in (i+1)+1..n+1 : calls[j][2] # id
      <3>1. ASSUME \A j \in i+1..n : Tail(calls)[j][2] # id, NEW j \in (i+1)+1..n+1
            PROVE  calls[j][2] # id
        <4>1. j - 1 \in i+1..n /\ Tail(calls)[j - 1] = calls[j]
          BY <2>1
        <4>2. Tail(calls)[j - 1][2] # id
          BY <3>1, <4>1
        <4> QED
          BY <4>1, <4>2
      <3>2. ASSUME \A j \in (i+1)+1..n+1 : calls[j][2] # id, NEW j \in i+1..n
            PROVE  Tail(calls)[j][2] # id
        BY <2>2, <3>2
      <3> QED
        BY <3>1, <3>2
    <2> QED
      BY <1>1, <2>3
  <1>4. ASSUME NEW id \in MutexId
        PROVE  (\A j \in 1+1..n+1 : calls[j][2] # id) <=> \A i \in 1..n : Tail(calls)[i][2] # id
    <2>1. \A j \in 1+1..n+1 : j - 1 \in 1..n /\ Tail(calls)[j - 1] = calls[j]
      BY <1>1
    <2>2. \A j \in 1..n : j + 1 \in 1+1..n+1 /\ Tail(calls)[j] = calls[j + 1]
      BY <1>1
    <2>3. ASSUME \A i \in 1..n : Tail(calls)[i][2] # id, NEW j \in 1+1..n+1
          PROVE  calls[j][2] # id
      <3>1. Tail(calls)[j - 1][2] # id
        BY <2>1, <2>3
      <3> QED
        BY <2>1, <3>1
    <2>4. ASSUME \A j \in 1+1..n+1 : calls[j][2] # id, NEW i \in 1..n
          PROVE  Tail(calls)[i][2] # id
      <3>1. calls[i + 1][2] # id
        BY <2>2, <2>4
      <3> QED
        BY <2>2, <3>1
    <2> QED
      BY <2>3, <2>4
  <1>5. calls[1] = <<"lock", calls[1][2]>> \/ calls[1] = <<"unlock", calls[1][2]>>
    BY <1>1 DEF Call
  <1>6. ASSUME NEW id \in MutexId
        PROVE  id \in After(Tail(calls), AfterOne(Head(calls), S), n) <=> id \in After(calls, S, n + 1)
    <2>1. (\E i \in 1..n+1 : calls[i] = <<"lock", id>> /\ \A j \in i+1..n+1 : calls[j][2] # id)
            <=> \/ calls[1] = <<"lock", id>> /\ \A j \in 1+1..n+1 : calls[j][2] # id
                \/ \E i \in 1..n : calls[i+1] = <<"lock", id>> /\ \A j \in (i+1)+1..n+1 : calls[j][2] # id
      <3>1. \A i \in 1..n+1 : i = 1 \/ (i - 1 \in 1..n /\ i = (i - 1) + 1)
        OBVIOUS
      <3>2. \A i \in 1..n : i + 1 \in 1..n+1
        OBVIOUS
      <3>3. 1 \in 1..n+1
        OBVIOUS
      <3> DEFINE P(i) == calls[i] = <<"lock", id>> /\ \A j \in i+1..n+1 : calls[j][2] # id
      <3>4. ASSUME NEW i \in 1..n+1, P(i)
            PROVE  P(1) \/ \E k \in 1..n : P(k + 1)
        <4>1. CASE i = 1
          BY <3>4, <4>1
        <4>2. CASE i - 1 \in 1..n /\ i = (i - 1) + 1
          <5>1. PICK k \in 1..n : i = k + 1
            BY <4>2
          <5> QED
            BY <3>4, <5>1
        <4> QED
          BY <3>1, <4>1, <4>2
      <3>5. (\E i \in 1..n+1 : P(i)) <=> P(1) \/ \E k \in 1..n : P(k + 1)
        <4> HIDE DEF P
        <4> QED
          BY <3>2, <3>3, <3>4
      <3> QED
        BY <3>5
    <2>2. id \in AfterOne(Head(calls), S)
            <=> calls[1] = <<"lock", id>> \/ (id \in S /\ calls[1][2] # id)
      BY <1>1, <1>5 DEF AfterOne
    <2> DEFINE None == \A i \in 1..n : Tail(calls)[i][2] # id
               Later(i) == Tail(calls)[i] = <<"lock", id>> /\ \A j \in i+1..n : Tail(calls)[j][2] # id
    <2>3. id \in After(calls, S, n + 1)
            <=> \/ id \in S /\ calls[1][2] # id /\ None
                \/ calls[1] = <<"lock", id>> /\ None
                \/ \E i \in 1..n : Later(i)
      <3>1. id \in After(calls, S, n + 1)
              <=> \/ id \in S /\ \A i \in 1..n+1 : calls[i][2] # id
                  \/ \E i \in 1..n+1 : calls[i] = <<"lock", id>> /\ \A j \in i+1..n+1 : calls[j][2] # id
        BY DEF After
      <3> QED
        BY <1>2, <1>3, <1>4, <2>1, <3>1
    <2>4. id \in After(Tail(calls), AfterOne(Head(calls), S), n)
            <=> (id \in AfterOne(Head(calls), S) /\ None) \/ \E i \in 1..n : Later(i)
      BY DEF After
    <2> HIDE DEF None, Later
    <2> QED
      BY <2>2, <2>3, <2>4
  <1> QED
    BY <1>6 DEF After

\* One call leaves the rest with what is owned after it.
LEMMA LeavesTail ==
    ASSUME NEW calls \in Seq(Call), calls # <<>>, NEW S \in SUBSET MutexId, NEW R,
           Leaves(calls, S, R),
           Head(calls)[1] = "lock" => Head(calls)[2] \notin S
    PROVE  Leaves(Tail(calls), AfterOne(Head(calls), S), R)
  <1> DEFINE rest == Tail(calls)
             T == AfterOne(Head(calls), S)
  <1>1. /\ rest \in Seq(Call)
        /\ Len(rest) = Len(calls) - 1
        /\ \A i \in DOMAIN rest : i \in Nat /\ i + 1 \in DOMAIN calls /\ rest[i] = calls[i + 1] /\ i <= Len(rest)
    OBVIOUS
  <1>2. \A i \in DOMAIN rest : After(rest, T, i - 1) = After(calls, S, i)
    <2>1. TAKE i \in DOMAIN rest
    <2>2. i - 1 \in Nat /\ i - 1 < Len(calls) /\ (i - 1) + 1 = i
      BY <1>1
    <2> QED
      BY <2>2, AfterTail
  <1>3. AfterAll(rest, T) = AfterAll(calls, S)
    <2>1. Len(rest) \in Nat /\ Len(rest) < Len(calls) /\ Len(rest) + 1 = Len(calls)
      BY <1>1
    <2> QED
      BY <2>1, AfterTail DEF AfterAll
  <1>4. OnlyOwn(rest, T)
    <2> SUFFICES ASSUME NEW i \in DOMAIN rest, rest[i][1] = "unlock"
                 PROVE  rest[i][2] \in After(rest, T, i - 1)
      BY DEF OnlyOwn
    <2>1. (i + 1) - 1 = i
      BY <1>1
    <2> QED
      BY <1>1, <1>2, <2>1 DEF OnlyOwn, Leaves
  <1>5. Relocks(calls, S) => Relocks(rest, T)
    <2> SUFFICES ASSUME NEW i \in DOMAIN calls, calls[i][1] = "lock", calls[i][2] \in After(calls, S, i - 1)
                 PROVE  Relocks(rest, T)
      BY DEF Relocks
    <2>1. i # 1
      <3> SUFFICES ASSUME i = 1 PROVE FALSE
        OBVIOUS
      <3>1. calls[1][2] \in After(calls, S, 0)
        OBVIOUS
      <3>2. calls[1][2] \in S
        BY <3>1 DEF After
      <3> QED
        BY <3>2
    <2>2. i - 1 \in DOMAIN rest /\ rest[i - 1] = calls[i]
      BY <2>1
    <2> QED
      BY <1>2, <2>2 DEF Relocks
  <1> QED
    BY <1>3, <1>4, <1>5 DEF Leaves

\* Before the first call a thread owns what it does.
LEMMA HeadOwn ==
    ASSUME NEW calls \in Seq(Call), calls # <<>>, NEW S, OnlyOwn(calls, S), Head(calls)[1] = "unlock"
    PROVE  Head(calls)[2] \in S
  <1>1. 1 \in DOMAIN calls /\ Head(calls) = calls[1]
    OBVIOUS
  <1>2. calls[1][2] \in After(calls, S, 0)
    BY <1>1 DEF OnlyOwn
  <1> QED
    BY <1>1, <1>2 DEF After

\* No calls change nothing.
LEMMA NothingToDo ==
    ASSUME NEW S \in SUBSET MutexId
    PROVE  AfterAll(<<>>, S) = S /\ OnlyOwn(<<>>, S) /\ ~Relocks(<<>>, S)
  BY DEF AfterAll, After, OnlyOwn, Relocks

\* The calls of a, then those of b.
LEMMA AfterConcat ==
    ASSUME NEW a \in Seq(Call), NEW b \in Seq(Call), NEW S \in SUBSET MutexId
    PROVE  /\ \A n \in 0..Len(a) : After(a \o b, S, n) = After(a, S, n)
           /\ \A n \in 0..Len(b) : After(a \o b, S, Len(a) + n) = After(b, AfterAll(a, S), n)
  <1> DEFINE c == a \o b
             m == Len(a)
  <1>1. /\ c \in Seq(Call)
        /\ m \in Nat
        /\ \A i \in 1..m : c[i] = a[i]
        /\ \A i \in 1..Len(b) : c[m + i] = b[i]
    OBVIOUS
  <1>2. ASSUME NEW n \in 0..m
        PROVE  After(c, S, n) = After(a, S, n)
    <2>1. \A i \in 1..n : c[i] = a[i] /\ \A j \in i+1..n : c[j] = a[j]
      BY <1>1
    <2> HIDE DEF c
    <2> QED
      BY <2>1 DEF After
  <1>3. ASSUME NEW n \in 0..Len(b), NEW id \in MutexId
        PROVE  id \in After(c, S, m + n) <=> id \in After(b, AfterAll(a, S), n)
    <2>1. \A i \in 1..m+n : \/ i \in 1..m /\ c[i] = a[i]
                            \/ i - m \in 1..n /\ c[i] = b[i - m] /\ i = m + (i - m)
      BY <1>1
    <2>2. \A i \in 1..n : m + i \in 1..m+n /\ c[m + i] = b[i] /\ m + i \notin 1..m
      BY <1>1
    <2>3. \A i \in 1..m : i \in 1..m+n /\ c[i] = a[i]
      BY <1>1
    <2> HIDE DEF c, m
    <2>4. (\A i \in 1..m+n : c[i][2] # id) <=> (\A i \in 1..m : a[i][2] # id) /\ (\A i \in 1..n : b[i][2] # id)
      <3>1. ASSUME \A i \in 1..m+n : c[i][2] # id, NEW i \in 1..m
            PROVE  a[i][2] # id
        BY <2>3, <3>1
      <3>2. ASSUME \A i \in 1..m+n : c[i][2] # id, NEW i \in 1..n
            PROVE  b[i][2] # id
        <4>1. c[m + i][2] # id
          BY <2>2, <3>2
        <4> QED
          BY <2>2, <4>1
      <3>3. ASSUME \A i \in 1..m : a[i][2] # id, \A i \in 1..n : b[i][2] # id, NEW i \in 1..m+n
            PROVE  c[i][2] # id
        BY <2>1, <3>3
      <3> QED
        BY <3>1, <3>2, <3>3
    <2>5. ASSUME NEW i \in 1..n
          PROVE  (\A j \in (m+i)+1..m+n : c[j][2] # id) <=> (\A j \in i+1..n : b[j][2] # id)
      <3>1. \A j \in (m+i)+1..m+n : j - m \in i+1..n /\ c[j] = b[j - m]
        BY <1>1, <2>1
      <3>2. \A j \in i+1..n : m + j \in (m+i)+1..m+n /\ c[m + j] = b[j]
        BY <1>1, <2>2
      <3>3. ASSUME \A j \in i+1..n : b[j][2] # id, NEW j \in (m+i)+1..m+n
            PROVE  c[j][2] # id
        <4>1. b[j - m][2] # id
          BY <3>1, <3>3
        <4> QED
          BY <3>1, <4>1
      <3>4. ASSUME \A j \in (m+i)+1..m+n : c[j][2] # id, NEW j \in i+1..n
            PROVE  b[j][2] # id
        <4>1. c[m + j][2] # id
          BY <3>2, <3>4
        <4> QED
          BY <3>2, <4>1
      <3> QED
        BY <3>3, <3>4
    <2>6. ASSUME NEW i \in 1..m
          PROVE  (\A j \in i+1..m+n : c[j][2] # id)
                   <=> (\A j \in i+1..m : a[j][2] # id) /\ (\A j \in 1..n : b[j][2] # id)
      <3>1. \A j \in i+1..m+n : j \in 1..m+n /\ (j \in 1..m => j \in i+1..m)
        BY <1>1
      <3>2. \A j \in i+1..m : j \in i+1..m+n /\ c[j] = a[j]
        BY <1>1, <2>3
      <3>3. \A j \in 1..n : m + j \in i+1..m+n /\ c[m + j] = b[j]
        BY <1>1, <2>2
      <3>4. ASSUME \A j \in i+1..m+n : c[j][2] # id, NEW j \in 1..n
            PROVE  b[j][2] # id
        <4>1. c[m + j][2] # id
          BY <3>3, <3>4
        <4> QED
          BY <3>3, <4>1
      <3>5. ASSUME \A j \in i+1..m+n : c[j][2] # id, NEW j \in i+1..m
            PROVE  a[j][2] # id
        BY <3>2, <3>5
      <3>6. ASSUME \A j \in i+1..m : a[j][2] # id, \A j \in 1..n : b[j][2] # id,
                   NEW j \in i+1..m+n
            PROVE  c[j][2] # id
        BY <2>1, <3>1, <3>6
      <3> QED
        BY <3>4, <3>5, <3>6
    <2>7. (\E i \in 1..m+n : c[i] = <<"lock", id>> /\ \A j \in i+1..m+n : c[j][2] # id)
            <=> \/ \E i \in 1..n : b[i] = <<"lock", id>> /\ \A j \in i+1..n : b[j][2] # id
                \/ /\ \E i \in 1..m : a[i] = <<"lock", id>> /\ \A j \in i+1..m : a[j][2] # id
                   /\ \A j \in 1..n : b[j][2] # id
      <3>1. ASSUME NEW i \in 1..m+n, c[i] = <<"lock", id>>, \A j \in i+1..m+n : c[j][2] # id
            PROVE  \/ \E k \in 1..n : b[k] = <<"lock", id>> /\ \A j \in k+1..n : b[j][2] # id
                   \/ /\ \E k \in 1..m : a[k] = <<"lock", id>> /\ \A j \in k+1..m : a[j][2] # id
                      /\ \A j \in 1..n : b[j][2] # id
        <4>1. CASE i \in 1..m /\ c[i] = a[i]
          BY <3>1, <4>1, <2>6
        <4>2. CASE i - m \in 1..n /\ c[i] = b[i - m] /\ i = m + (i - m)
          <5>1. PICK k \in 1..n : c[i] = b[k] /\ i = m + k
            BY <4>2
          <5> QED
            BY <3>1, <5>1, <2>5
        <4> QED
          BY <2>1, <4>1, <4>2
      <3>2. ASSUME NEW k \in 1..n, b[k] = <<"lock", id>>, \A j \in k+1..n : b[j][2] # id
            PROVE  \E i \in 1..m+n : c[i] = <<"lock", id>> /\ \A j \in i+1..m+n : c[j][2] # id
        <4>1. m + k \in 1..m+n /\ c[m + k] = <<"lock", id>>
          BY <2>2, <3>2
        <4>2. \A j \in (m+k)+1..m+n : c[j][2] # id
          BY <3>2, <2>5
        <4> QED
          BY <4>1, <4>2
      <3>3. ASSUME NEW k \in 1..m, a[k] = <<"lock", id>>, \A j \in k+1..m : a[j][2] # id,
                   \A j \in 1..n : b[j][2] # id
            PROVE  \E i \in 1..m+n : c[i] = <<"lock", id>> /\ \A j \in i+1..m+n : c[j][2] # id
        <4>1. k \in 1..m+n /\ c[k] = <<"lock", id>>
          BY <2>3, <3>3
        <4>2. \A j \in k+1..m+n : c[j][2] # id
          BY <3>3, <2>6
        <4> QED
          BY <4>1, <4>2
      <3> QED
        BY <3>1, <3>2, <3>3
    <2> QED
      BY <2>4, <2>7 DEF After, AfterAll, m
  <1>4. ASSUME NEW n \in 0..Len(b)
        PROVE  After(c, S, m + n) = After(b, AfterAll(a, S), n)
    BY <1>3 DEF After
  <1> QED
    BY <1>2, <1>4

\* One function after the other.
LEMMA RunsConcat ==
    ASSUME NEW a \in Seq(Call), NEW b \in Seq(Call), NEW S \in SUBSET MutexId, NEW R, NEW Q,
           Runs(a, S, R), Runs(b, R, Q)
    PROVE  Runs(a \o b, S, Q)
  <1> DEFINE c == a \o b
             m == Len(a)
  <1>1. /\ m \in Nat
        /\ Len(c) = m + Len(b)
        /\ Len(b) \in 0..Len(b)
        /\ \A i \in DOMAIN c : \/ i \in DOMAIN a /\ c[i] = a[i] /\ i - 1 \in 0..m
                               \/ i - m \in DOMAIN b /\ c[i] = b[i - m] /\ (i - m) - 1 \in 0..Len(b)
                                  /\ i - 1 = m + ((i - m) - 1)
    OBVIOUS
  <1>2. AfterAll(a, S) = R /\ OnlyOwn(a, S) /\ OnlyOwn(b, R) /\ AfterAll(b, R) = Q
    BY DEF Runs
  <1>3. AfterAll(c, S) = Q
    BY <1>1, <1>2, AfterConcat DEF AfterAll
  <1>4. ASSUME NEW i \in DOMAIN c, c[i][1] = "unlock"
        PROVE  c[i][2] \in After(c, S, i - 1)
    <2>1. CASE i \in DOMAIN a /\ c[i] = a[i] /\ i - 1 \in 0..m
      <3>1. a[i][2] \in After(a, S, i - 1)
        BY <1>2, <1>4, <2>1 DEF OnlyOwn
      <3>2. After(c, S, i - 1) = After(a, S, i - 1)
        BY <2>1, AfterConcat
      <3> QED
        BY <2>1, <3>1, <3>2
    <2>2. CASE i - m \in DOMAIN b /\ c[i] = b[i - m] /\ (i - m) - 1 \in 0..Len(b) /\ i - 1 = m + ((i - m) - 1)
      <3>1. b[i - m][2] \in After(b, R, (i - m) - 1)
        BY <1>2, <1>4, <2>2 DEF OnlyOwn
      <3>2. After(c, S, m + ((i - m) - 1)) = After(b, R, (i - m) - 1)
        BY <1>2, <2>2, AfterConcat
      <3> QED
        BY <2>2, <3>1, <3>2
    <2> QED
      BY <1>1, <2>1, <2>2
  <1> QED
    BY <1>3, <1>4 DEF Runs, OnlyOwn

\* A row of locks of different ids.
LEMMA RunsLock ==
    ASSUME NEW ids \in Rows, NEW S \in SUBSET MutexId
    PROVE  Lock(ids) \in Seq(Call) /\ Runs(Lock(ids), S, S \cup Range(ids))
  <1>1. /\ DOMAIN ids = 1..Len(ids) /\ Len(ids) \in Nat
        /\ \A i \in DOMAIN ids : ids[i] \in MutexId
        /\ \A i, j \in DOMAIN ids : ids[i] = ids[j] => i = j
    BY DEF Rows
  <1>2. /\ DOMAIN Lock(ids) = 1..Len(ids)
        /\ \A i \in DOMAIN ids : Lock(ids)[i] = <<"lock", ids[i]>>
    BY <1>1 DEF Lock
  <1>3. Lock(ids) \in Seq(Call)
    BY <1>1 DEF Lock, Call
  <1>4. Len(Lock(ids)) = Len(ids)
    BY <1>1, <1>2, <1>3
  <1>5. OnlyOwn(Lock(ids), S)
    BY <1>1, <1>2 DEF OnlyOwn
  <1>6. ASSUME NEW id \in MutexId, id \in Range(ids)
        PROVE  id \in AfterAll(Lock(ids), S)
    <2>1. PICK k \in DOMAIN ids : ids[k] = id
      BY <1>6 DEF Range
    <2>2. \A j \in k+1..Len(ids) : j \in DOMAIN ids /\ j # k
      BY <1>1, <2>1
    <2>3. Lock(ids)[k] = <<"lock", id>> /\ \A j \in k+1..Len(ids) : Lock(ids)[j][2] # id
      <3>1. Lock(ids)[k] = <<"lock", id>>
        BY <1>2, <2>1
      <3>2. \A j \in k+1..Len(ids) : ids[j] # id
        BY <1>1, <2>1, <2>2
      <3>3. \A j \in k+1..Len(ids) : Lock(ids)[j][2] # id
        BY <1>2, <2>2, <3>2
      <3> QED
        BY <3>1, <3>3
    <2> QED
      BY <1>1, <1>4, <2>1, <2>3 DEF AfterAll, After
  <1>7. ASSUME NEW id \in MutexId, id \notin Range(ids)
        PROVE  id \in AfterAll(Lock(ids), S) <=> id \in S
    <2>1. \A i \in 1..Len(ids) : Lock(ids)[i][2] # id /\ Lock(ids)[i] # <<"lock", id>>
      BY <1>1, <1>2, <1>7 DEF Range
    <2> QED
      BY <1>4, <2>1 DEF AfterAll, After
  <1>8. Range(ids) \in SUBSET MutexId
    BY <1>1 DEF Range
  <1>9. AfterAll(Lock(ids), S) = S \cup Range(ids)
    BY <1>6, <1>7, <1>8 DEF AfterAll, After
  <1> QED
    BY <1>3, <1>5, <1>9 DEF Runs

\* A row of unlocks of different ids that are owned.
LEMMA RunsUnlock ==
    ASSUME NEW ids \in Rows, NEW S \in SUBSET MutexId, Range(ids) \subseteq S
    PROVE  Unlock(ids) \in Seq(Call) /\ Runs(Unlock(ids), S, S \ Range(ids))
  <1>1. /\ DOMAIN ids = 1..Len(ids) /\ Len(ids) \in Nat
        /\ \A i \in DOMAIN ids : ids[i] \in MutexId
        /\ \A i, j \in DOMAIN ids : ids[i] = ids[j] => i = j
    BY DEF Rows
  <1>2. /\ DOMAIN Unlock(ids) = 1..Len(ids)
        /\ \A i \in DOMAIN ids : Unlock(ids)[i] = <<"unlock", ids[i]>>
    BY <1>1 DEF Unlock
  <1>3. Unlock(ids) \in Seq(Call)
    BY <1>1 DEF Unlock, Call
  <1>4. Len(Unlock(ids)) = Len(ids)
    BY <1>1, <1>2, <1>3
  <1>5. OnlyOwn(Unlock(ids), S)
    <2> SUFFICES ASSUME NEW i \in 1..Len(ids)
                 PROVE  Unlock(ids)[i][2] \in After(Unlock(ids), S, i - 1)
      BY <1>2 DEF OnlyOwn
    <2>1. ids[i] \in S
      BY <1>1 DEF Range
    <2>2. \A j \in 1..i-1 : j \in DOMAIN ids /\ j # i
      BY <1>1
    <2>3. \A j \in 1..i-1 : Unlock(ids)[j][2] # ids[i]
      BY <1>1, <1>2, <2>2
    <2> QED
      BY <1>1, <1>2, <2>1, <2>3 DEF After
  <1>6. \A i \in 1..Len(ids) : Unlock(ids)[i] = <<"unlock", ids[i]>>
    BY <1>1, <1>2
  <1>7. ASSUME NEW id \in MutexId
        PROVE  id \in AfterAll(Unlock(ids), S) <=> id \in S \ Range(ids)
    <2>1. ~\E i \in 1..Len(ids) : Unlock(ids)[i] = <<"lock", id>>
      BY <1>6
    <2>2. (\A i \in 1..Len(ids) : Unlock(ids)[i][2] # id) <=> id \notin Range(ids)
      BY <1>1, <1>6 DEF Range
    <2> QED
      BY <1>4, <2>1, <2>2 DEF AfterAll, After
  <1>8. AfterAll(Unlock(ids), S) = S \ Range(ids)
    BY <1>7 DEF AfterAll, After
  <1> QED
    BY <1>3, <1>5, <1>8 DEF Runs

\* The five ids are different.
LEMMA Ids ==
    /\ {FRAME, FILE, MEMORY, SENSOR, USB} = MutexId
    /\ FRAME \notin {FILE, MEMORY, SENSOR, USB}
    /\ FILE \notin {MEMORY, SENSOR, USB}
    /\ MEMORY \notin {SENSOR, USB}
    /\ SENSOR # USB
  BY AppLocksAssumption DEF FRAME, FILE, MEMORY, SENSOR, USB

\* The rows the functions lock and unlock.
LEMMA RowsOf ==
    ASSUME NEW a \in MutexId, NEW b \in MutexId, NEW c \in MutexId, NEW d \in MutexId
    PROVE  /\ <<a>> \in Rows /\ Range(<<a>>) = {a}
           /\ a # b => <<a, b>> \in Rows /\ Range(<<a, b>>) = {a, b}
           /\ a \notin {b, c} /\ b # c => <<a, b, c>> \in Rows /\ Range(<<a, b, c>>) = {a, b, c}
           /\ a \notin {b, c, d} /\ b \notin {c, d} /\ c # d =>
                 <<a, b, c, d>> \in Rows /\ Range(<<a, b, c, d>>) = {a, b, c, d}
  <1>1. <<a>> \in Rows /\ Range(<<a>>) = {a}
    BY DEF Rows, Range
  <1>2. ASSUME a # b
        PROVE  <<a, b>> \in Rows /\ Range(<<a, b>>) = {a, b}
    BY <1>2 DEF Rows, Range
  <1>3. ASSUME a \notin {b, c}, b # c
        PROVE  <<a, b, c>> \in Rows /\ Range(<<a, b, c>>) = {a, b, c}
    BY <1>3 DEF Rows, Range
  <1>4. ASSUME a \notin {b, c, d}, b \notin {c, d}, c # d
        PROVE  <<a, b, c, d>> \in Rows /\ Range(<<a, b, c, d>>) = {a, b, c, d}
    BY <1>4 DEF Rows, Range
  <1> QED
    BY <1>1, <1>2, <1>3, <1>4

\* A function that locks some ids and unlocks the same, in any order, gives
\* back what it takes.
LEMMA RunsBracket ==
    ASSUME NEW ids \in Rows, NEW jds \in Rows, Range(ids) = Range(jds),
           NEW S \in SUBSET MutexId, S \cap Range(ids) = {}
    PROVE  Lock(ids) \o Unlock(jds) \in Seq(Call) /\ Runs(Lock(ids) \o Unlock(jds), S, S)
  <1>1. Range(ids) \in SUBSET MutexId
    BY DEF Rows, Range
  <1>2. Lock(ids) \in Seq(Call) /\ Runs(Lock(ids), S, S \cup Range(ids))
    BY RunsLock
  <1>3. /\ S \cup Range(ids) \in SUBSET MutexId
        /\ Range(jds) \subseteq S \cup Range(ids)
        /\ (S \cup Range(ids)) \ Range(jds) = S
    BY <1>1
  <1>4. Unlock(jds) \in Seq(Call) /\ Runs(Unlock(jds), S \cup Range(ids), S)
    BY <1>3, RunsUnlock
  <1>5. Runs(Lock(ids) \o Unlock(jds), S, S)
    BY <1>2, <1>4, RunsConcat
  <1> QED
    BY <1>2, <1>4, <1>5

\* What the functions give back that lock what nobody keeps.
LEMMA Brackets ==
    ASSUME NEW S \in SUBSET MutexId
    PROVE  /\ S = {} => MainStart \in Seq(Call) /\ Runs(MainStart, S, S)
           /\ S = {} => BuildWindow \in Seq(Call) /\ Runs(BuildWindow, S, S)
           /\ FRAME \notin S => Repaint \in Seq(Call) /\ Runs(Repaint, S, S)
           /\ S = {} => MenuRepaint \in Seq(Call) /\ Runs(MenuRepaint, S, S)
           /\ S = {} => UpdateSprites \in Seq(Call) /\ Runs(UpdateSprites, S, S)
           /\ S = {} => Snapshot \in Seq(Call) /\ Runs(Snapshot, S, S)
           /\ S = {} => UseFile \in Seq(Call) /\ Runs(UseFile, S, S)
           /\ S = {} => GetFileInfo \in Seq(Call) /\ Runs(GetFileInfo, S, S)
           /\ S = {} => SetAdvConf \in Seq(Call) /\ Runs(SetAdvConf, S, S)
           /\ S = {} => Calibrate \in Seq(Call) /\ Runs(Calibrate, S, S)
  <1>1. S = {} => MainStart \in Seq(Call) /\ Runs(MainStart, S, S)
    <2>1. /\ <<MEMORY, FILE, SENSOR>> \in Rows /\ Range(<<MEMORY, FILE, SENSOR>>) = {MEMORY, FILE, SENSOR}
          /\ <<SENSOR, FILE, MEMORY>> \in Rows /\ Range(<<SENSOR, FILE, MEMORY>>) = {SENSOR, FILE, MEMORY}
      BY Ids, RowsOf
    <2> QED
      BY <2>1, RunsBracket DEF MainStart
  <1>2. S = {} => BuildWindow \in Seq(Call) /\ Runs(BuildWindow, S, S)
    <2>1. <<MEMORY>> \in Rows
      BY Ids, RowsOf
    <2> QED
      BY <2>1, RunsBracket DEF BuildWindow
  <1>3. FRAME \notin S => Repaint \in Seq(Call) /\ Runs(Repaint, S, S)
    <2>1. <<FRAME>> \in Rows /\ Range(<<FRAME>>) = {FRAME}
      BY Ids, RowsOf
    <2> QED
      BY <2>1, RunsBracket DEF Repaint
  <1>4. S = {} => MenuRepaint \in Seq(Call) /\ Runs(MenuRepaint, S, S)
    <2>1. /\ <<FRAME, MEMORY>> \in Rows /\ Range(<<FRAME, MEMORY>>) = {FRAME, MEMORY}
          /\ <<MEMORY, FRAME>> \in Rows /\ Range(<<MEMORY, FRAME>>) = {MEMORY, FRAME}
      BY Ids, RowsOf
    <2> QED
      BY <2>1, RunsBracket DEF MenuRepaint
  <1>5. <<FILE, MEMORY, SENSOR, FRAME>> \in Rows
    BY Ids, RowsOf
  <1>6. S = {} => UpdateSprites \in Seq(Call) /\ Runs(UpdateSprites, S, S)
    BY <1>5, RunsBracket DEF UpdateSprites
  <1>7. S = {} => Snapshot \in Seq(Call) /\ Runs(Snapshot, S, S)
    BY <1>5, RunsBracket DEF Snapshot
  <1>8. S = {} => UseFile \in Seq(Call) /\ Runs(UseFile, S, S)
    <2>1. <<FILE, MEMORY, SENSOR>> \in Rows
      BY Ids, RowsOf
    <2> QED
      BY <2>1, RunsBracket DEF UseFile
  <1>9. S = {} => GetFileInfo \in Seq(Call) /\ Runs(GetFileInfo, S, S)
    <2>1. <<FILE, SENSOR>> \in Rows
      BY Ids, RowsOf
    <2> QED
      BY <2>1, RunsBracket DEF GetFileInfo
  <1>10. S = {} => SetAdvConf \in Seq(Call) /\ Runs(SetAdvConf, S, S)
    <2>1. <<MEMORY, FILE>> \in Rows
      BY Ids, RowsOf
    <2> QED
      BY <2>1, RunsBracket DEF SetAdvConf
  <1>11. S = {} => Calibrate \in Seq(Call) /\ Runs(Calibrate, S, S)
    <2>1. /\ <<MEMORY, FRAME, SENSOR>> \in Rows /\ Range(<<MEMORY, FRAME, SENSOR>>) = {MEMORY, FRAME, SENSOR}
          /\ <<SENSOR, MEMORY, FRAME>> \in Rows /\ Range(<<SENSOR, MEMORY, FRAME>>) = {SENSOR, MEMORY, FRAME}
      BY Ids, RowsOf
    <2> QED
      BY <2>1, RunsBracket DEF Calibrate
  <1> QED
    BY <1>1, <1>2, <1>3, <1>4, <1>6, <1>7, <1>8, <1>9, <1>10, <1>11

\* What the other functions take or give back.
LEMMA Takes ==
    /\ NesStart \in Seq(Call) /\ Runs(NesStart, {}, {FRAME})
    /\ NesExit \in Seq(Call) /\ Runs(NesExit, {FRAME}, {})
    /\ UsbConnect \in Seq(Call) /\ Runs(UsbConnect, {}, {USB, FILE})
    /\ UsbDisconnect \in Seq(Call) /\ Runs(UsbDisconnect, {USB, FILE}, {})
    /\ SystemRestart \in Seq(Call) /\ Runs(SystemRestart, {}, {FILE, MEMORY, SENSOR, FRAME})
  <1>1. /\ <<FRAME>> \in Rows /\ Range(<<FRAME>>) = {FRAME}
        /\ <<USB, FILE>> \in Rows /\ Range(<<USB, FILE>>) = {USB, FILE}
        /\ {FRAME} \in SUBSET MutexId /\ {USB, FILE} \in SUBSET MutexId
    BY Ids, RowsOf
  <1>2. NesStart \in Seq(Call) /\ Runs(NesStart, {}, {FRAME})
    <2>1. /\ <<FILE, MEMORY, SENSOR>> \in Rows /\ Range(<<FILE, MEMORY, SENSOR>>) = {FILE, MEMORY, SENSOR}
          /\ <<SENSOR, FILE, MEMORY>> \in Rows /\ Range(<<SENSOR, FILE, MEMORY>>) = {SENSOR, FILE, MEMORY}
      BY Ids, RowsOf
    <2> DEFINE load == Lock(<<FILE, MEMORY, SENSOR>>) \o Unlock(<<SENSOR, FILE, MEMORY>>)
    <2>2. load \in Seq(Call) /\ Runs(load, {}, {})
      BY <2>1, RunsBracket
    <2>3. Lock(<<FRAME>>) \in Seq(Call) /\ Runs(Lock(<<FRAME>>), {}, {} \cup {FRAME})
      BY <1>1, RunsLock
    <2>4. {} \cup {FRAME} = {FRAME}
      OBVIOUS
    <2>5. NesStart = load \o Lock(<<FRAME>>)
      BY DEF NesStart
    <2> HIDE DEF load
    <2>6. Runs(load \o Lock(<<FRAME>>), {}, {FRAME})
      BY <2>2, <2>3, <2>4, RunsConcat
    <2> QED
      BY <2>2, <2>3, <2>5, <2>6
  <1>3. NesExit \in Seq(Call) /\ Runs(NesExit, {FRAME}, {})
    <2>1. Unlock(<<FRAME>>) \in Seq(Call) /\ Runs(Unlock(<<FRAME>>), {FRAME}, {FRAME} \ {FRAME})
      BY <1>1, RunsUnlock
    <2>2. {FRAME} \ {FRAME} = {}
      OBVIOUS
    <2>3. BuildWindow \in Seq(Call) /\ Runs(BuildWindow, {}, {})
      BY Brackets
    <2>4. Runs(Unlock(<<FRAME>>) \o BuildWindow, {FRAME}, {})
      BY <1>1, <2>1, <2>2, <2>3, RunsConcat
    <2> QED
      BY <2>1, <2>3, <2>4 DEF NesExit
  <1>4. UsbConnect \in Seq(Call) /\ Runs(UsbConnect, {}, {USB, FILE})
    <2>1. {} \cup {USB, FILE} = {USB, FILE}
      OBVIOUS
    <2> QED
      BY <1>1, <2>1, RunsLock DEF UsbConnect
  <1>5. UsbDisconnect \in Seq(Call) /\ Runs(UsbDisconnect, {USB, FILE}, {})
    <2>1. Unlock(<<USB, FILE>>) \in Seq(Call)
            /\ Runs(Unlock(<<USB, FILE>>), {USB, FILE}, {USB, FILE} \ {USB, FILE})
      BY <1>1, RunsUnlock
    <2>2. {USB, FILE} \ {USB, FILE} = {}
      OBVIOUS
    <2>3. UpdateSprites \in Seq(Call) /\ Runs(UpdateSprites, {}, {})
      BY Brackets
    <2>4. Runs(Unlock(<<USB, FILE>>) \o UpdateSprites, {USB, FILE}, {})
      BY <1>1, <2>1, <2>2, <2>3, RunsConcat
    <2> QED
      BY <2>1, <2>3, <2>4 DEF UsbDisconnect
  <1>6. SystemRestart \in Seq(Call) /\ Runs(SystemRestart, {}, {FILE, MEMORY, SENSOR, FRAME})
    <2>1. /\ <<FILE, MEMORY, SENSOR, FRAME>> \in Rows
          /\ {} \cup Range(<<FILE, MEMORY, SENSOR, FRAME>>) = {FILE, MEMORY, SENSOR, FRAME}
      BY Ids, RowsOf
    <2> QED
      BY <2>1, RunsLock DEF SystemRestart
  <1> QED
    BY <1>2, <1>3, <1>4, <1>5, <1>6

\* The snapshot of pnesx_app locks FRAME, which it holds.
LEMMA SnapshotRelocks ==
    Snapshot \in Seq(Call) /\ OnlyOwn(Snapshot, {FRAME}) /\ Relocks(Snapshot, {FRAME})
  <1> DEFINE ids == <<FILE, MEMORY, SENSOR, FRAME>>
             S == {FRAME}
  <1>1. ids \in Rows /\ Range(ids) = {FILE, MEMORY, SENSOR, FRAME} /\ S \in SUBSET MutexId
    BY Ids, RowsOf
  <1>2. Lock(ids) \in Seq(Call) /\ Runs(Lock(ids), S, S \cup Range(ids))
    BY <1>1, RunsLock
  <1>3. S \cup Range(ids) \in SUBSET MutexId /\ Range(ids) \subseteq S \cup Range(ids)
    BY <1>1, Ids
  <1>4. Unlock(ids) \in Seq(Call) /\ Runs(Unlock(ids), S \cup Range(ids), (S \cup Range(ids)) \ Range(ids))
    BY <1>1, <1>3, RunsUnlock
  <1>5. Snapshot = Lock(ids) \o Unlock(ids)
    BY DEF Snapshot
  <1>6. /\ Lock(ids) = <<<<"lock", FILE>>, <<"lock", MEMORY>>, <<"lock", SENSOR>>, <<"lock", FRAME>>>>
        /\ Len(Unlock(ids)) \in Nat
    BY <1>4 DEF Lock
  <1> HIDE DEF ids
  <1>7. Snapshot \in Seq(Call) /\ OnlyOwn(Snapshot, S)
    <2>1. Runs(Lock(ids) \o Unlock(ids), S, (S \cup Range(ids)) \ Range(ids))
      BY <1>1, <1>2, <1>4, RunsConcat
    <2> QED
      BY <1>2, <1>4, <1>5, <2>1 DEF Runs
  <1>8. /\ 4 \in DOMAIN Snapshot
        /\ Snapshot[1] = <<"lock", FILE>> /\ Snapshot[2] = <<"lock", MEMORY>>
        /\ Snapshot[3] = <<"lock", SENSOR>> /\ Snapshot[4] = <<"lock", FRAME>>
    BY <1>2, <1>4, <1>5, <1>6
  <1>9. \A i \in 1..3 : Snapshot[i][2] # FRAME
    <2>1. \A i \in 1..3 : i \in {1, 2, 3}
      OBVIOUS
    <2> QED
      BY <1>8, <2>1, Ids
  <1>10. FRAME \in After(Snapshot, S, 4 - 1)
    <2>1. 4 - 1 = 3
      OBVIOUS
    <2> QED
      BY <1>9, <2>1, Ids DEF After
  <1>11. Relocks(Snapshot, S)
    BY <1>8, <1>10 DEF Relocks
  <1> QED
    BY <1>7, <1>11

\* What ends with the locks R leaves R.
LEMMA RunsLeaves == \A calls, S, R : Runs(calls, S, R) => Leaves(calls, S, R)
  BY DEF Runs, Leaves

\* Whatever the window begins leaves it with the locks of the mode it leads
\* to, or stops it.
LEMMA ChoiceLeaves ==
    ASSUME NEW choice \in Choices
    PROVE  /\ Program[choice[2]] \in Seq(Call)
           /\ Leaves(Program[choice[2]], Held(choice[1]), Held(choice[3]))
  <1>1. /\ Held("start") = {} /\ Held("windows") = {} /\ Held("nes") = {FRAME}
        /\ Held("usb") = {USB, FILE} /\ Held("reset") = {FILE, MEMORY, SENSOR, FRAME}
    BY DEF Held
  <1>2. {} \in SUBSET MutexId /\ {USB, FILE} \in SUBSET MutexId /\ FRAME \notin {USB, FILE}
    BY Ids
  <1>3. CASE choice = <<"start", "MainStart", "windows">>
    BY <1>1, <1>2, <1>3, Brackets, RunsLeaves DEF Program
  <1>4. CASE choice[1] = "windows" /\ choice[3] = "windows"
             /\ choice[2] \in {"BuildWindow", "Repaint", "MenuRepaint", "UpdateSprites",
                               "Snapshot", "UseFile", "GetFileInfo", "SetAdvConf", "Calibrate"}
    <2>1. Program[choice[2]] \in Seq(Call) /\ Runs(Program[choice[2]], {}, {})
      BY <1>4, Brackets DEF Program
    <2> QED
      BY <1>1, <1>4, <2>1, RunsLeaves
  <1>5. CASE choice = <<"windows", "NesStart", "nes">>
    BY <1>1, <1>5, Takes, RunsLeaves DEF Program
  <1>6. CASE choice = <<"nes", "Snapshot", "nes">>
    BY <1>1, <1>6, SnapshotRelocks DEF Program, Leaves
  <1>7. CASE choice = <<"nes", "NesExit", "windows">>
    BY <1>1, <1>7, Takes, RunsLeaves DEF Program
  <1>8. CASE choice = <<"windows", "UsbConnect", "usb">>
    BY <1>1, <1>8, Takes, RunsLeaves DEF Program
  <1>9. CASE choice = <<"usb", "Repaint", "usb">>
    BY <1>1, <1>2, <1>9, Brackets, RunsLeaves DEF Program
  <1>10. CASE choice = <<"usb", "UsbDisconnect", "windows">>
    BY <1>1, <1>10, Takes, RunsLeaves DEF Program
  <1>11. CASE choice = <<"windows", "SystemRestart", "reset">>
    BY <1>1, <1>11, Takes, RunsLeaves DEF Program
  <1> QED
    BY <1>3, <1>4, <1>5, <1>6, <1>7, <1>8, <1>9, <1>10, <1>11 DEF Choices

-----------------------------------------------------------------------------
\* A thread's call returns, or nothing changes for it.
Moves(u) ==
    /\ todo[u] # <<>>
    /\ todo'[u] = Tail(todo[u])
    /\ Owned(u)' = AfterOne(Head(todo[u]), Owned(u))
    /\ Head(todo[u])[1] = "lock" => Head(todo[u])[2] \notin Owned(u)

Stays(u) == todo'[u] = todo[u] /\ Owned(u)' = Owned(u)

\* The three threads.
LEMMA Threads ==
    /\ Thread = {"window", "render", "sensor"}
    /\ NULL \notin Thread
  BY AppLocksAssumption, ThreadAssumption

\* The tails of a pair.
LEMMA TailOfPair ==
    ASSUME NEW x, NEW y
    PROVE  Tail(<<x, y>>) = <<y>> /\ Tail(<<y>>) = <<>>
  <1>1. /\ <<x, y>> \in Seq({x, y}) /\ <<y>> \in Seq({x, y})
        /\ Len(<<x, y>>) = 2 /\ Len(<<y>>) = 1
    OBVIOUS
  <1>2. /\ Tail(<<x, y>>) \in Seq({x, y})
        /\ Len(Tail(<<x, y>>)) = 1 /\ Tail(<<x, y>>)[1] = y
    OBVIOUS
  <1>3. Tail(<<x, y>>) = <<y>>
    BY <1>1, <1>2, SeqEqual
  <1>4. Tail(<<y>>) \in Seq({x, y}) /\ Len(Tail(<<y>>)) = 0
    OBVIOUS
  <1> QED
    BY <1>3, <1>4, EmptySeq

\* A pair is a sequence.
LEMMA PairInSeq == \A S : \A x, y \in S : <<x, y>> \in Seq(S)
  OBVIOUS

\* The halves of a turn.
LEMMA Halves ==
    ASSUME NEW loop, NEW id, loop = Lock(<<id>>) \o Unlock(<<id>>)
    PROVE  /\ loop # <<>> /\ Head(loop) = <<"lock", id>>
           /\ Tail(loop) # <<>> /\ Head(Tail(loop)) = <<"unlock", id>>
           /\ Tail(Tail(loop)) = <<>>
           /\ loop # Tail(loop)
           /\ id \in MutexId => loop \in Seq(Call)
  <1>1. loop = <<<<"lock", id>>, <<"unlock", id>>>>
    BY DEF Lock, Unlock
  <1>2. Tail(loop) = <<<<"unlock", id>>>> /\ Tail(Tail(loop)) = <<>>
    BY <1>1, TailOfPair
  <1>3. Len(loop) = 2 /\ Len(Tail(loop)) = 1
    BY <1>1, <1>2
  <1>4. Head(loop) = <<"lock", id>> /\ Head(Tail(loop)) = <<"unlock", id>>
    BY <1>1, <1>2
  <1>5. id \in MutexId => loop \in Seq(Call)
    <2>1. id \in MutexId => <<"lock", id>> \in Call /\ <<"unlock", id>> \in Call
      BY DEF Call
    <2> QED
      BY <1>1, <2>1, PairInSeq
  <1>6. loop # <<>> /\ Tail(loop) # <<>> /\ loop # Tail(loop)
    <2>1. Len(<<>>) = 0
      OBVIOUS
    <2>2. loop = <<>> => Len(loop) = 0
      BY <2>1
    <2>3. Tail(loop) = <<>> => Len(Tail(loop)) = 0
      BY <2>1
    <2>4. loop = Tail(loop) => Len(loop) = Len(Tail(loop))
      OBVIOUS
    <2> QED
      BY <1>3, <2>2, <2>3, <2>4
  <1> QED
    BY <1>2, <1>4, <1>5, <1>6

\* The turns of render and of the sensor thread lock and unlock one id.
LEMMA Loops ==
    /\ RenderLoop = Lock(<<FRAME>>) \o Unlock(<<FRAME>>)
    /\ SensorLoop = Lock(<<SENSOR>>) \o Unlock(<<SENSOR>>)
  BY DEF RenderLoop, SensorLoop

\* A thread in its turn stays in it.
LEMMA TurnGoesOn ==
    ASSUME NEW t, NEW id, NEW loop, loop = Lock(<<id>>) \o Unlock(<<id>>),
           InTurn(t, loop, id), Moves(t) \/ Stays(t)
    PROVE  InTurn(t, loop, id)'
  <1>1. /\ loop # <<>> /\ Head(loop) = <<"lock", id>>
        /\ Tail(loop) # <<>> /\ Head(Tail(loop)) = <<"unlock", id>>
        /\ Tail(Tail(loop)) = <<>>
        /\ loop # Tail(loop)
    BY Halves
  <1>2. CASE Stays(t)
    BY <1>2 DEF Stays, InTurn
  <1>3. CASE Moves(t) /\ todo[t] = loop
    <2>1. todo'[t] = Tail(loop) /\ Owned(t) = {} /\ Owned(t)' = {id}
      <3>1. todo'[t] = Tail(loop) /\ Owned(t)' = AfterOne(<<"lock", id>>, Owned(t))
        BY <1>1, <1>3 DEF Moves
      <3>2. Owned(t) = {}
        BY <1>1, <1>3 DEF InTurn
      <3>3. AfterOne(<<"lock", id>>, {}) = {id}
        BY DEF AfterOne
      <3> QED
        BY <3>1, <3>2, <3>3
    <2> QED
      BY <2>1 DEF InTurn
  <1>4. CASE Moves(t) /\ todo[t] = Tail(loop)
    <2>1. todo'[t] = <<>> /\ Owned(t) = {id} /\ Owned(t)' = {}
      <3>1. todo'[t] = <<>> /\ Owned(t)' = AfterOne(<<"unlock", id>>, Owned(t))
        BY <1>1, <1>4 DEF Moves
      <3>2. Owned(t) = {id}
        BY <1>1, <1>4 DEF InTurn
      <3>3. AfterOne(<<"unlock", id>>, {id}) = {}
        BY DEF AfterOne
      <3> QED
        BY <3>1, <3>2, <3>3
    <2> QED
      BY <1>1, <2>1 DEF InTurn
  <1> QED
    BY <1>2, <1>3, <1>4 DEF InTurn, Moves

\* What is kept when some calls return and the others wait.
LEMMA CallsReturn ==
    ASSUME LocksInv, mode' = mode, selfLocked => selfLocked',
           \A u \in Thread : Moves(u) \/ Stays(u)
    PROVE  /\ InTurn("render", RenderLoop, FRAME)'
           /\ InTurn("sensor", SensorLoop, SENSOR)'
           /\ LeavesMode'
           /\ StoppedIdle'
           /\ todo \in [Thread -> Seq(Call)] /\ \A u \in Thread : todo'[u] \in Seq(Call)
  <1>1. \A u \in {"window", "render", "sensor"} : Moves(u) \/ Stays(u)
    BY Threads
  <1>2. InTurn("render", RenderLoop, FRAME)'
    <2>1. InTurn("render", RenderLoop, FRAME)
      BY DEF LocksInv
    <2> QED
      BY <1>1, <2>1, Loops, TurnGoesOn
  <1>3. InTurn("sensor", SensorLoop, SENSOR)'
    <2>1. InTurn("sensor", SensorLoop, SENSOR)
      BY DEF LocksInv
    <2> QED
      BY <1>1, <2>1, Loops, TurnGoesOn
  <1>4. todo \in [Thread -> Seq(Call)]
    BY DEF LocksInv, LocksTypeOK
  <1>5. ASSUME NEW u \in Thread
        PROVE  todo'[u] \in Seq(Call)
    <2>1. todo[u] \in Seq(Call)
      BY <1>4
    <2>2. CASE todo[u] # <<>> /\ todo'[u] = Tail(todo[u])
      BY <2>1, <2>2
    <2>3. CASE todo'[u] = todo[u]
      BY <2>1, <2>3
    <2> QED
      BY <2>2, <2>3 DEF Moves, Stays
  <1>6. LeavesMode'
    <2> SUFFICES ASSUME ~Stopped'
                 PROVE  Leaves(todo'["window"], Owned("window")', Held(mode'))
      BY DEF LeavesMode
    <2>1. Leaves(todo["window"], Owned("window"), Held(mode))
      BY DEF Stopped, LocksInv, LeavesMode
    <2>2. CASE Stays("window")
      BY <2>1, <2>2 DEF Stays
    <2>3. CASE Moves("window")
      <3> DEFINE calls == todo["window"]
                 S == Owned("window")
      <3>1. calls \in Seq(Call) /\ calls # <<>> /\ S \in SUBSET MutexId
        BY <1>4, <2>3, Threads DEF Moves, Owned
      <3>2. Head(calls)[1] = "lock" => Head(calls)[2] \notin S
        BY <2>3 DEF Moves
      <3>3. Leaves(Tail(calls), AfterOne(Head(calls), S), Held(mode))
        <4> HIDE DEF calls, S
        <4>1. Leaves(calls, S, Held(mode))
          BY <2>1 DEF calls, S
        <4> QED
          BY <3>1, <3>2, <4>1, LeavesTail
      <3> QED
        BY <2>3, <3>3 DEF Moves
    <2> QED
      BY <1>1, <2>2, <2>3
  <1>7. StoppedIdle'
    BY <1>1 DEF StoppedIdle, LocksInv, Moves, Stays
  <1> QED
    BY <1>2, <1>3, <1>4, <1>5, <1>6, <1>7

\* A thread that unlocks owns what it unlocks.
LEMMA UnlocksOwn ==
    ASSUME LocksInv, NEW t \in Thread, NEW id \in MutexId, Calls(t, "unlock", id)
    PROVE  owner[id] = t
  <1>1. /\ todo[t] # <<>> /\ Head(todo[t]) = <<"unlock", id>> /\ ~Waiting(t)
        /\ todo[t] \in Seq(Call)
    BY DEF Calls, LocksInv, LocksTypeOK
  <1>2. ASSUME NEW loop, NEW i, loop = Lock(<<i>>) \o Unlock(<<i>>), InTurn(t, loop, i)
        PROVE  id \in Owned(t)
    <2>1. /\ loop # <<>> /\ Head(loop) = <<"lock", i>>
          /\ Head(Tail(loop)) = <<"unlock", i>>
      BY <1>2, Halves
    <2>2. todo[t] = Tail(loop) /\ i = id
      <3>1. todo[t] \in {<<>>, loop, Tail(loop)}
        BY <1>2 DEF InTurn
      <3>2. <<"lock", i>> # <<"unlock", id>> /\ (<<"unlock", i>> = <<"unlock", id>> => i = id)
        OBVIOUS
      <3>3. todo[t] = Tail(loop)
        BY <1>1, <2>1, <3>1, <3>2
      <3> QED
        BY <1>1, <2>1, <3>2, <3>3
    <2> QED
      BY <1>2, <2>2 DEF InTurn
  <1>3. CASE t = "window"
    <2>1. ~Stopped
      BY <1>1, <1>3 DEF Stopped, LocksInv, WaitsForItself, StoppedIdle, Waiting
    <2>2. OnlyOwn(todo[t], Owned(t))
      BY <1>3, <2>1 DEF LocksInv, LeavesMode, Leaves
    <2>3. id \in Owned(t)
      BY <1>1, <2>2, HeadOwn
    <2> QED
      BY <2>3 DEF Owned
  <1>4. CASE t = "render"
    <2>1. id \in Owned(t)
      BY <1>2, <1>4, Loops DEF LocksInv
    <2> QED
      BY <2>1 DEF Owned
  <1>5. CASE t = "sensor"
    <2>1. id \in Owned(t)
      BY <1>2, <1>5, Loops DEF LocksInv
    <2> QED
      BY <2>1 DEF Owned
  <1> QED
    BY <1>3, <1>4, <1>5, Threads

\* render and the sensor thread own nothing when they lock.
LEMMA LocksWithNothing ==
    ASSUME LocksInv, NEW t \in {"render", "sensor"}, NEW id,
           todo[t] # <<>>, Head(todo[t]) = <<"lock", id>>
    PROVE  Owned(t) = {}
  <1>1. ASSUME NEW loop, NEW i, loop = Lock(<<i>>) \o Unlock(<<i>>), InTurn(t, loop, i)
        PROVE  Owned(t) = {}
    <2>1. Head(Tail(loop)) = <<"unlock", i>>
      BY <1>1, Halves
    <2>2. <<"lock", id>> # <<"unlock", i>>
      OBVIOUS
    <2>3. todo[t] # Tail(loop)
      BY <2>1, <2>2
    <2> QED
      BY <1>1, <2>3 DEF InTurn
  <1> QED
    BY <1>1, Loops DEF LocksInv

\* The system starts with the invariant of the locks.
LEMMA StartLocks == LocksInit => LocksInv
  <1> SUFFICES ASSUME LocksInit PROVE LocksInv
    OBVIOUS
  <1> USE DEF LocksInit, FactoryInit, InitApps
  <1>1. LocksTypeOK
    <2>1. <<>> \in Seq(Call) /\ <<>> \in Seq(Thread)
      BY EmptySeq
    <2> QED
      BY <2>1 DEF LocksTypeOK
  <1>2. \A t \in Thread : Owned(t) = {}
    BY Threads DEF Owned
  <1>3. \A id \in MutexId : Range(waiters[id]) = {} /\ DOMAIN waiters[id] = {}
    BY DEF Range
  <1>4. QueuedOnce
    BY <1>3 DEF QueuedOnce
  <1>5. InTurn("render", RenderLoop, FRAME) /\ InTurn("sensor", SensorLoop, SENSOR)
    <2>1. todo["render"] = <<>> /\ todo["sensor"] = <<>>
      BY Threads
    <2>2. Tail(RenderLoop) # <<>> /\ Tail(SensorLoop) # <<>>
      BY Halves, Loops
    <2> QED
      BY <1>2, <2>1, <2>2, Threads DEF InTurn
  <1>6. LeavesMode
    <2>1. todo["window"] = <<>> /\ Held(mode) = {} /\ Owned("window") = {}
      BY <1>2, Threads DEF Held
    <2> QED
      BY <2>1, NothingToDo DEF LeavesMode, Leaves
  <1>7. WaitsForItself
    BY <1>3 DEF WaitsForItself
  <1>8. StoppedIdle
    BY DEF StoppedIdle
  <1> QED
    BY <1>1, <1>4, <1>5, <1>6, <1>7, <1>8 DEF LocksInv

\* vm::lock is granted.
LEMMA GrantedLocks ==
    ASSUME LocksInv, NEW t \in Thread, NEW id \in MutexId, LockGranted(t, id)
    PROVE  LocksInv'
  <1>1. /\ LocksTypeOK /\ QueuedOnce /\ WaitsForItself
        /\ NULL \notin Thread
    BY Threads DEF LocksInv
  <1>2. /\ owner[id] = NULL
        /\ owner' = [owner EXCEPT ![id] = t]
        /\ waiters' = waiters
        /\ todo' = [todo EXCEPT ![t] = Tail(@)]
        /\ mode' = mode /\ selfLocked' = selfLocked
        /\ todo[t] # <<>> /\ Head(todo[t]) = <<"lock", id>> /\ ~Waiting(t)
    BY DEF LockGranted, GrantLock, Calls
  <1>3. \A i \in MutexId : owner'[i] = IF i = id THEN t ELSE owner[i]
    BY <1>1, <1>2 DEF LocksTypeOK
  <1>4. \A u \in Thread : todo'[u] = IF u = t THEN Tail(todo[t]) ELSE todo[u]
    BY <1>1, <1>2 DEF LocksTypeOK
  <1>5. ASSUME NEW u \in Thread PROVE Moves(u) \/ Stays(u)
    <2>1. CASE u = t
      <3>1. Owned(t)' = Owned(t) \cup {id} /\ id \notin Owned(t)
        BY <1>1, <1>2, <1>3 DEF Owned
      <3>2. AfterOne(<<"lock", id>>, Owned(t)) = Owned(t) \cup {id}
        BY DEF AfterOne
      <3> QED
        BY <1>2, <1>4, <2>1, <3>1, <3>2 DEF Moves
    <2>2. CASE u # t
      <3>1. Owned(u)' = Owned(u)
        BY <1>1, <1>2, <1>3, <2>2 DEF Owned
      <3> QED
        BY <1>4, <2>2, <3>1 DEF Stays
    <2> QED
      BY <2>1, <2>2
  <1>6. /\ InTurn("render", RenderLoop, FRAME)' /\ InTurn("sensor", SensorLoop, SENSOR)'
        /\ LeavesMode' /\ StoppedIdle'
        /\ \A u \in Thread : todo'[u] \in Seq(Call)
    BY <1>2, <1>5, CallsReturn
  <1>7. LocksTypeOK'
    <2>1. todo' \in [Thread -> Seq(Call)]
      BY <1>1, <1>2, <1>6 DEF LocksTypeOK
    <2> QED
      BY <1>1, <1>2, <2>1 DEF LocksTypeOK
  <1>8. QueuedOnce'
    <2>1. \A i \in MutexId : t \notin Range(waiters[i])
      BY <1>2 DEF Waiting
    <2>2. \A i \in MutexId : Range(waiters[i]) \subseteq Thread
      BY <1>1 DEF LocksTypeOK, Range
    <2> QED
      BY <1>1, <1>2, <1>4, <2>1, <2>2 DEF QueuedOnce
  <1>9. WaitsForItself'
    <2>1. t \notin Range(waiters[id])
      BY <1>2 DEF Waiting
    <2>2. \A i \in MutexId : owner'[i] = "window" /\ "window" \in Range(waiters[i])
                               <=> owner[i] = "window" /\ "window" \in Range(waiters[i])
      BY <1>2, <1>3, <2>1, Threads
    <2> QED
      BY <1>1, <1>2, <2>2 DEF WaitsForItself
  <1> QED
    BY <1>6, <1>7, <1>8, <1>9 DEF LocksInv

\* vm::lock puts the thread in the queue.
LEMMA QueuedLocks ==
    ASSUME LocksInv, NEW t \in Thread, NEW id \in MutexId, LockQueued(t, id)
    PROVE  LocksInv'
  <1>1. LocksTypeOK /\ QueuedOnce /\ WaitsForItself
    BY DEF LocksInv
  <1>2. /\ owner' = owner
        /\ waiters' = [waiters EXCEPT ![id] = Append(@, t)]
        /\ todo' = todo /\ mode' = mode
        /\ selfLocked' = (selfLocked \/ owner[id] = t)
        /\ todo[t] # <<>> /\ Head(todo[t]) = <<"lock", id>> /\ ~Waiting(t)
    BY DEF LockQueued, GrantWait, Calls
  <1>3. \A u \in Thread : Stays(u)
    BY <1>2 DEF Stays, Owned
  <1>4. /\ InTurn("render", RenderLoop, FRAME)' /\ InTurn("sensor", SensorLoop, SENSOR)'
        /\ LeavesMode' /\ StoppedIdle'
    BY <1>2, <1>3, CallsReturn
  <1>5. \A i \in MutexId : waiters'[i] = IF i = id THEN Append(waiters[id], t) ELSE waiters[i]
    BY <1>1, <1>2 DEF LocksTypeOK
  <1>6. waiters[id] \in Seq(Thread) /\ t \notin Range(waiters[id])
    BY <1>1, <1>2 DEF LocksTypeOK, Waiting
  <1>7. Range(waiters'[id]) = Range(waiters[id]) \cup {t}
    <2>1. waiters'[id] = Append(waiters[id], t)
      BY <1>5
    <2> QED
      BY <1>6, <2>1 DEF Range
  <1>8. LocksTypeOK'
    <2>1. Append(waiters[id], t) \in Seq(Thread)
      BY <1>6
    <2> QED
      BY <1>1, <1>2, <2>1 DEF LocksTypeOK
  <1>9. QueuedOnce'
    <2>1. ASSUME NEW i \in DOMAIN waiters'[id], NEW j \in DOMAIN waiters'[id],
                 waiters'[id][i] = waiters'[id][j]
          PROVE  i = j
      <3> DEFINE w == waiters[id]
      <3>1. /\ DOMAIN waiters'[id] = 1..Len(w)+1 /\ Len(w) \in Nat
            /\ \A k \in 1..Len(w) : waiters'[id][k] = w[k] /\ w[k] # t
            /\ waiters'[id][Len(w) + 1] = t
        <4>1. waiters'[id] = Append(w, t) /\ w \in Seq(Thread)
          BY <1>5, <1>6
        <4>2. \A k \in 1..Len(w) : w[k] # t
          BY <1>6 DEF Range
        <4> HIDE DEF w
        <4> QED
          BY <4>1, <4>2
      <3>2. \A k, l \in 1..Len(w) : w[k] = w[l] => k = l
        BY <1>1, <1>6 DEF QueuedOnce
      <3> HIDE DEF w
      <3> QED
        BY <2>1, <3>1, <3>2
    <2> QED
      BY <1>1, <1>2, <1>5, <1>7, <2>1 DEF QueuedOnce
  <1>10. owner[id] = t => t = "window"
    <2>1. t \in {"render", "sensor"} => Owned(t) = {}
      BY <1>2, LocksWithNothing
    <2> QED
      BY <2>1, Threads DEF Owned
  <1>11. WaitsForItself'
    <2>1. \A i \in MutexId : owner'[i] = "window" /\ "window" \in Range(waiters'[i])
            <=> \/ owner[i] = "window" /\ "window" \in Range(waiters[i])
                \/ i = id /\ owner[id] = t
      BY <1>2, <1>5, <1>7, <1>10
    <2> QED
      BY <1>1, <1>2, <2>1 DEF WaitsForItself
  <1> QED
    BY <1>4, <1>8, <1>9, <1>11 DEF LocksInv

\* vm::unlock, and the lock of the first waiter.
LEMMA PassedLocks ==
    ASSUME LocksInv, NEW t \in Thread, NEW id \in MutexId, UnlockPassed(t, id)
    PROVE  LocksInv'
  <1>1. LocksTypeOK /\ QueuedOnce /\ WaitsForItself
    BY DEF LocksInv
  <1> DEFINE w == waiters[id]
  <1>0. w \in Seq(Thread) /\ w # <<>> /\ Head(w) \in Thread
    BY <1>1 DEF UnlockPassed, PassOn, LocksTypeOK
  <1> PICK u \in Thread : u = Head(w)
    BY <1>0
  <1>2. /\ owner[id] = t
        /\ w # <<>> /\ w \in Seq(Thread)
        /\ owner' = [owner EXCEPT ![id] = u]
        /\ waiters' = [waiters EXCEPT ![id] = Tail(w)]
        /\ todo' = [todo EXCEPT ![t] = Tail(@), ![owner'[id]] = Tail(@)]
        /\ mode' = mode /\ selfLocked' = selfLocked
        /\ todo[t] # <<>> /\ Head(todo[t]) = <<"unlock", id>> /\ ~Waiting(t)
    BY <1>1 DEF UnlockPassed, PassOn, Calls, LocksTypeOK
  <1>3. /\ DOMAIN w = 1..Len(w) /\ Len(w) \in Nat \ {0} /\ u = w[1]
        /\ Tail(w) \in Seq(Thread) /\ DOMAIN Tail(w) = 1..Len(w)-1
        /\ \A i \in 1..Len(w)-1 : Tail(w)[i] = w[i + 1] /\ i + 1 \in 1..Len(w) /\ i + 1 # 1
    <2> HIDE DEF w
    <2>1. DOMAIN w = 1..Len(w) /\ Len(w) \in Nat \ {0} /\ u = w[1]
      BY <1>0
    <2>2. Tail(w) \in Seq(Thread) /\ Len(Tail(w)) = Len(w) - 1
      BY <1>0
    <2>3. \A i \in 1..Len(w)-1 : Tail(w)[i] = w[i + 1]
      BY <1>0
    <2>4. DOMAIN Tail(w) = 1..Len(w)-1
      BY <2>2
    <2> QED
      BY <2>1, <2>2, <2>3, <2>4, SMTT(30)
  <1>4. \A i, j \in DOMAIN w : w[i] = w[j] => i = j
    BY <1>1 DEF QueuedOnce
  <1>5. /\ u \in Range(w) /\ u \in Thread
        /\ u \notin Range(Tail(w)) /\ Range(Tail(w)) \subseteq Range(w)
    <2>1. u \in Range(w) /\ u \in Thread
      BY <1>2, <1>3 DEF Range
    <2>2. ASSUME NEW v \in Range(Tail(w)) PROVE v \in Range(w) /\ v # u
      <3>1. PICK i \in 1..Len(w)-1 : v = Tail(w)[i]
        BY <1>3 DEF Range
      <3>2. v = w[i + 1] /\ i + 1 \in 1..Len(w) /\ i + 1 # 1 /\ 1 \in 1..Len(w)
        BY <1>3, <3>1
      <3>3. v # w[1]
        BY <1>3, <1>4, <3>2
      <3> QED
        BY <1>3, <3>2, <3>3 DEF Range
    <2> QED
      BY <2>1, <2>2
  <1>6. t \notin Range(w) /\ u # t
    BY <1>2, <1>5 DEF Waiting
  <1>7. todo[u] # <<>> /\ Head(todo[u]) = <<"lock", id>>
    BY <1>1, <1>5 DEF QueuedOnce
  <1> HIDE DEF w
  <1>8. \A i \in MutexId : owner'[i] = IF i = id THEN u ELSE owner[i]
    BY <1>1, <1>2 DEF LocksTypeOK
  <1>9. \A i \in MutexId : waiters'[i] = IF i = id THEN Tail(w) ELSE waiters[i]
    BY <1>1, <1>2 DEF LocksTypeOK
  <1>10. \A v \in Thread : todo'[v] = IF v \in {t, u} THEN Tail(todo[v]) ELSE todo[v]
    <2>1. owner'[id] = u
      BY <1>8
    <2> QED
      BY <1>1, <1>2, <1>5, <1>6, <2>1 DEF LocksTypeOK
  <1>11. ASSUME NEW v \in Thread PROVE Moves(v) \/ Stays(v)
    <2>1. CASE v = t
      <3>1. Owned(t)' = Owned(t) \ {id}
        BY <1>2, <1>6, <1>8 DEF Owned
      <3>2. AfterOne(<<"unlock", id>>, Owned(t)) = Owned(t) \ {id}
        BY DEF AfterOne
      <3>3. todo'[t] = Tail(todo[t]) /\ Head(todo[t])[1] # "lock"
        <4>1. todo'[t] = Tail(todo[t])
          BY <1>10
        <4>2. Head(todo[t])[1] = "unlock"
          BY <1>2
        <4> QED
          BY <4>1, <4>2
      <3>4. Moves(t)
        BY <1>2, <3>1, <3>2, <3>3 DEF Moves
      <3> QED
        BY <2>1, <3>4
    <2>2. CASE v = u
      <3>1. Owned(u)' = Owned(u) \cup {id} /\ id \notin Owned(u)
        BY <1>2, <1>6, <1>8 DEF Owned
      <3>2. AfterOne(<<"lock", id>>, Owned(u)) = Owned(u) \cup {id}
        BY DEF AfterOne
      <3> QED
        <4>1. todo'[u] = Tail(todo[u]) /\ Head(todo[u])[2] = id
          BY <1>7, <1>10
        <4>2. Moves(u)
          BY <1>7, <3>1, <3>2, <4>1 DEF Moves
        <4> QED
          BY <2>2, <4>2
    <2>3. CASE v \notin {t, u}
      <3>1. Owned(v)' = Owned(v)
        BY <1>2, <1>8, <2>3 DEF Owned
      <3> QED
        BY <1>10, <2>3, <3>1 DEF Stays
    <2> QED
      BY <2>1, <2>2, <2>3
  <1>12. /\ InTurn("render", RenderLoop, FRAME)' /\ InTurn("sensor", SensorLoop, SENSOR)'
         /\ LeavesMode' /\ StoppedIdle'
         /\ \A v \in Thread : todo'[v] \in Seq(Call)
    BY <1>2, <1>11, CallsReturn
  <1>13. LocksTypeOK'
    <2>1. todo' \in [Thread -> Seq(Call)]
      <3>1. todo' \in [Thread -> {todo'[v] : v \in Thread}]
        BY <1>1, <1>2 DEF LocksTypeOK
      <3> QED
        BY <1>12, <3>1
    <2> QED
      BY <1>1, <1>2, <1>3, <1>5, <2>1 DEF LocksTypeOK
  <1>14. QueuedOnce'
    <2>1. ASSUME NEW i \in MutexId
          PROVE  \A k, l \in DOMAIN waiters'[i] : waiters'[i][k] = waiters'[i][l] => k = l
      <3>1. CASE i # id
        BY <1>1, <1>9, <3>1 DEF QueuedOnce
      <3>2. ASSUME NEW k \in 1..Len(w)-1, NEW l \in 1..Len(w)-1, Tail(w)[k] = Tail(w)[l]
            PROVE  k = l
        <4>1. w[k + 1] = w[l + 1] /\ k + 1 \in DOMAIN w /\ l + 1 \in DOMAIN w
          BY <1>3, <3>2
        <4>2. k + 1 = l + 1
          BY <1>4, <4>1
        <4> QED
          BY <1>3, <4>2
      <3> QED
        BY <1>3, <1>9, <3>1, <3>2
    <2>2. ASSUME NEW i \in MutexId, NEW v \in Range(waiters'[i])
          PROVE  todo'[v] # <<>> /\ Head(todo'[v]) = <<"lock", i>>
      <3>1. v \in Range(waiters[i]) /\ waiters[i] \in Seq(Thread)
        BY <1>1, <1>5, <1>9, <2>2 DEF w, LocksTypeOK
      <3>2. todo[v] # <<>> /\ Head(todo[v]) = <<"lock", i>> /\ v \in Thread
        BY <1>1, <3>1 DEF QueuedOnce, Range
      <3>3. v # t
        BY <1>2, <3>1 DEF Waiting
      <3>4. v # u
        <4>1. v = u => i = id
          BY <1>7, <3>2
        <4> QED
          BY <1>5, <1>9, <2>2, <4>1
      <3> QED
        BY <1>10, <3>2, <3>3, <3>4
    <2> QED
      BY <2>1, <2>2 DEF QueuedOnce
  <1>15. WaitsForItself'
    <2>1. ~(owner[id] = "window" /\ "window" \in Range(waiters[id]))
      BY <1>2, <1>6 DEF w
    <2>2. ~(owner'[id] = "window" /\ "window" \in Range(waiters'[id]))
      BY <1>5, <1>8, <1>9
    <2>3. \A i \in MutexId \ {id} : owner'[i] = owner[i] /\ waiters'[i] = waiters[i]
      BY <1>8, <1>9
    <2> QED
      BY <1>1, <1>2, <2>1, <2>2, <2>3 DEF WaitsForItself
  <1> QED
    BY <1>12, <1>13, <1>14, <1>15 DEF LocksInv

\* vm::unlock with no waiter.
LEMMA RemovedLocks ==
    ASSUME LocksInv, NEW t \in Thread, NEW id \in MutexId, UnlockRemoved(t, id)
    PROVE  LocksInv'
  <1>1. /\ LocksTypeOK /\ QueuedOnce /\ WaitsForItself
        /\ NULL \notin Thread
    BY Threads DEF LocksInv
  <1>2. owner[id] = t
    BY UnlocksOwn DEF UnlockRemoved
  <1>3. /\ waiters[id] = <<>>
        /\ owner' = [owner EXCEPT ![id] = NULL]
        /\ waiters' = [waiters EXCEPT ![id] = <<>>]
        /\ todo' = [todo EXCEPT ![t] = Tail(@)]
        /\ mode' = mode /\ selfLocked' = selfLocked
        /\ todo[t] # <<>> /\ Head(todo[t]) = <<"unlock", id>> /\ ~Waiting(t)
    BY <1>2 DEF UnlockRemoved, RemoveMutex, Calls
  <1>4. \A i \in MutexId : owner'[i] = IF i = id THEN NULL ELSE owner[i]
    BY <1>1, <1>3 DEF LocksTypeOK
  <1>5. waiters' = waiters
    BY <1>1, <1>3 DEF LocksTypeOK
  <1>6. \A u \in Thread : todo'[u] = IF u = t THEN Tail(todo[t]) ELSE todo[u]
    BY <1>1, <1>3 DEF LocksTypeOK
  <1>7. ASSUME NEW u \in Thread PROVE Moves(u) \/ Stays(u)
    <2>1. CASE u = t
      <3>1. Owned(t)' = Owned(t) \ {id}
        BY <1>1, <1>2, <1>4 DEF Owned
      <3>2. AfterOne(<<"unlock", id>>, Owned(t)) = Owned(t) \ {id}
        BY DEF AfterOne
      <3> QED
        BY <1>3, <1>6, <2>1, <3>1, <3>2 DEF Moves
    <2>2. CASE u # t
      <3>1. Owned(u)' = Owned(u)
        BY <1>1, <1>2, <1>4, <2>2 DEF Owned
      <3> QED
        BY <1>6, <2>2, <3>1 DEF Stays
    <2> QED
      BY <2>1, <2>2
  <1>8. /\ InTurn("render", RenderLoop, FRAME)' /\ InTurn("sensor", SensorLoop, SENSOR)'
        /\ LeavesMode' /\ StoppedIdle'
        /\ \A u \in Thread : todo'[u] \in Seq(Call)
    BY <1>3, <1>7, CallsReturn
  <1>9. LocksTypeOK'
    <2>1. todo' \in [Thread -> Seq(Call)]
      BY <1>1, <1>3, <1>8 DEF LocksTypeOK
    <2> QED
      BY <1>1, <1>3, <1>5, <2>1 DEF LocksTypeOK
  <1>10. QueuedOnce'
    <2>1. \A i \in MutexId : t \notin Range(waiters[i])
      BY <1>3 DEF Waiting
    <2>2. \A i \in MutexId : Range(waiters[i]) \subseteq Thread
      BY <1>1 DEF LocksTypeOK, Range
    <2> QED
      BY <1>1, <1>5, <1>6, <2>1, <2>2 DEF QueuedOnce
  <1>11. WaitsForItself'
    <2>1. Range(waiters[id]) = {}
      BY <1>3 DEF Range
    <2>2. \A i \in MutexId : owner'[i] = "window" /\ "window" \in Range(waiters[i])
                               <=> owner[i] = "window" /\ "window" \in Range(waiters[i])
      BY <1>4, <2>1
    <2> QED
      BY <1>1, <1>3, <1>5, <2>2 DEF WaitsForItself
  <1> QED
    BY <1>8, <1>9, <1>10, <1>11 DEF LocksInv

\* What is kept when no lock and no queue changes, and one thread that has
\* nothing to do is given calls.
LEMMA GivenCalls ==
    ASSUME LocksInv, NEW t \in Thread, NEW calls \in Seq(Call), todo[t] = <<>>,
           todo' = [todo EXCEPT ![t] = calls],
           UNCHANGED <<factoryVars, selfLocked>>
    PROVE  /\ LocksTypeOK' /\ QueuedOnce' /\ WaitsForItself'
           /\ \A u \in Thread : todo'[u] = (IF u = t THEN calls ELSE todo[u]) /\ Owned(u)' = Owned(u)
  <1>1. /\ LocksTypeOK /\ QueuedOnce /\ WaitsForItself
        /\ owner' = owner /\ waiters' = waiters /\ selfLocked' = selfLocked
    BY DEF LocksInv, factoryVars
  <1>2. LocksTypeOK'
    BY <1>1 DEF LocksTypeOK
  <1>3. \A u \in Thread : todo'[u] = (IF u = t THEN calls ELSE todo[u]) /\ Owned(u)' = Owned(u)
    BY <1>1 DEF LocksTypeOK, Owned
  <1>4. QueuedOnce'
    <2>1. \A i \in MutexId : t \notin Range(waiters[i]) /\ Range(waiters[i]) \subseteq Thread
      BY <1>1 DEF LocksTypeOK, QueuedOnce, Range
    <2> QED
      BY <1>1, <1>3, <2>1 DEF QueuedOnce
  <1>5. WaitsForItself'
    BY <1>1 DEF WaitsForItself
  <1> QED
    BY <1>2, <1>3, <1>4, <1>5

\* The window begins something.
LEMMA BegunLocks ==
    ASSUME LocksInv, NEW choice \in Choices, Begin(choice)
    PROVE  LocksInv'
  <1>1. /\ todo["window"] = <<>> /\ mode = choice[1] /\ mode' = choice[3]
        /\ todo' = [todo EXCEPT !["window"] = Program[choice[2]]]
        /\ UNCHANGED <<factoryVars, selfLocked>>
    BY DEF Begin
  <1>2. /\ Program[choice[2]] \in Seq(Call)
        /\ Leaves(Program[choice[2]], Held(choice[1]), Held(choice[3]))
    BY ChoiceLeaves
  <1>3. /\ LocksTypeOK' /\ QueuedOnce' /\ WaitsForItself'
        /\ \A u \in Thread : todo'[u] = (IF u = "window" THEN Program[choice[2]] ELSE todo[u])
                             /\ Owned(u)' = Owned(u)
    BY <1>1, <1>2, Threads, GivenCalls
  <1>4. choice[1] # "faulted" /\ choice[3] # "faulted"
    BY DEF Choices
  <1>5. LeavesMode'
    <2> SUFFICES ASSUME ~selfLocked
                 PROVE  Leaves(todo'["window"], Owned("window")', Held(mode'))
      BY <1>1 DEF LeavesMode, Stopped
    <2>1. Leaves(<<>>, Owned("window"), Held(choice[1]))
      BY <1>1, <1>4 DEF LocksInv, LeavesMode, Stopped
    <2>2. Owned("window") \in SUBSET MutexId
      BY DEF Owned
    <2>3. Owned("window") = Held(choice[1])
      BY <2>1, <2>2, NothingToDo DEF Leaves
    <2>4. Owned("window")' = Owned("window") /\ todo'["window"] = Program[choice[2]]
      BY <1>3, Threads
    <2> QED
      BY <1>1, <1>2, <2>3, <2>4
  <1>6. StoppedIdle'
    BY <1>1, <1>4 DEF StoppedIdle
  <1>7. Stays("render") /\ Stays("sensor")
    BY <1>3, Threads DEF Stays
  <1>8. InTurn("render", RenderLoop, FRAME)' /\ InTurn("sensor", SensorLoop, SENSOR)'
    BY <1>7, Loops, TurnGoesOn DEF LocksInv
  <1> QED
    BY <1>3, <1>5, <1>6, <1>8 DEF LocksInv

\* render or the sensor thread begins a turn.
LEMMA TurnedLocks == LocksInv /\ LoopStep => LocksInv'
  <1> SUFFICES ASSUME LocksInv, NEW t \in {"render", "sensor"}, NEW i \in MutexId, NEW loop,
                      loop = Lock(<<i>>) \o Unlock(<<i>>), Turn(t, loop),
                      t = "render" => loop = RenderLoop /\ i = FRAME,
                      t = "sensor" => loop = SensorLoop /\ i = SENSOR
               PROVE  LocksInv'
    <2>1. FRAME \in MutexId /\ SENSOR \in MutexId
      BY Ids
    <2> QED
      BY <2>1, Loops DEF LoopStep
  <1>1. /\ todo[t] = <<>> /\ mode' = mode
        /\ todo' = [todo EXCEPT ![t] = loop]
        /\ UNCHANGED <<factoryVars, selfLocked>>
        /\ t \in Thread
    BY Threads DEF Turn
  <1>2. loop \in Seq(Call) /\ loop # Tail(loop) /\ Tail(loop) # <<>>
    BY Halves
  <1>3. /\ LocksTypeOK' /\ QueuedOnce' /\ WaitsForItself'
        /\ \A u \in Thread : todo'[u] = (IF u = t THEN loop ELSE todo[u]) /\ Owned(u)' = Owned(u)
    BY <1>1, <1>2, GivenCalls
  <1>4. InTurn(t, loop, i)'
    <2>1. Owned(t) = {}
      <3>1. InTurn(t, loop, i)
        BY DEF LocksInv
      <3> QED
        BY <1>1, <1>2, <3>1 DEF InTurn
    <2>2. todo'[t] = loop /\ Owned(t)' = {}
      BY <1>1, <1>3, <2>1
    <2> QED
      BY <1>2, <2>2 DEF InTurn
  <1>5. \A u \in Thread \ {t} : Stays(u)
    BY <1>3 DEF Stays
  <1>6. InTurn("render", RenderLoop, FRAME)'
    <2>1. CASE t = "render"
      BY <1>4, <2>1
    <2>2. CASE t # "render"
      BY <1>5, <2>2, Threads, Loops, TurnGoesOn DEF LocksInv
    <2> QED
      BY <2>1, <2>2
  <1>7. InTurn("sensor", SensorLoop, SENSOR)'
    <2>1. CASE t = "sensor"
      BY <1>4, <2>1
    <2>2. CASE t # "sensor"
      BY <1>5, <2>2, Threads, Loops, TurnGoesOn DEF LocksInv
    <2> QED
      BY <2>1, <2>2
  <1>8. LeavesMode' /\ StoppedIdle'
    <2>1. todo'["window"] = todo["window"] /\ Owned("window")' = Owned("window")
      BY <1>5, Threads DEF Stays
    <2> QED
      BY <1>1, <2>1 DEF LocksInv, LeavesMode, StoppedIdle, Stopped
  <1> QED
    BY <1>3, <1>6, <1>7, <1>8 DEF LocksInv

\* update_sprites faults.
LEMMA FaultedLocks == LocksInv /\ Fault => LocksInv'
  <1> SUFFICES ASSUME LocksInv, Fault PROVE LocksInv'
    OBVIOUS
  <1>1. /\ LocksTypeOK /\ QueuedOnce /\ WaitsForItself
        /\ todo["window"] = Unlock(<<FILE, MEMORY, SENSOR, FRAME>>)
        /\ mode' = "faulted"
        /\ todo' = [todo EXCEPT !["window"] = <<>>]
        /\ owner' = owner /\ waiters' = waiters /\ selfLocked' = selfLocked
    BY DEF Fault, LocksInv, factoryVars
  <1>2. Head(todo["window"]) = <<"unlock", FILE>>
    BY <1>1 DEF Unlock
  <1>3. \A u \in Thread : todo'[u] = IF u = "window" THEN <<>> ELSE todo[u]
    BY <1>1 DEF LocksTypeOK
  <1>4. LocksTypeOK'
    <2>1. <<>> \in Seq(Call)
      BY EmptySeq
    <2> QED
      BY <1>1, <2>1 DEF LocksTypeOK
  <1>5. QueuedOnce'
    <2>1. \A i \in MutexId : Range(waiters[i]) \subseteq Thread
      BY <1>1 DEF LocksTypeOK, Range
    <2>2. ASSUME NEW i \in MutexId, "window" \in Range(waiters[i]) PROVE FALSE
      <3>1. Head(todo["window"]) = <<"lock", i>>
        BY <1>1, <2>2 DEF QueuedOnce
      <3> QED
        BY <1>2, <3>1
    <2> QED
      BY <1>1, <1>3, <2>1, <2>2 DEF QueuedOnce
  <1>6. WaitsForItself'
    BY <1>1 DEF WaitsForItself
  <1>7. LeavesMode' /\ StoppedIdle'
    BY <1>1, <1>3, Threads DEF LeavesMode, Stopped, StoppedIdle
  <1>8. Stays("render") /\ Stays("sensor")
    BY <1>1, <1>3, Threads DEF Stays, Owned
  <1>9. InTurn("render", RenderLoop, FRAME)' /\ InTurn("sensor", SensorLoop, SENSOR)'
    BY <1>8, Loops, TurnGoesOn DEF LocksInv
  <1> QED
    BY <1>4, <1>5, <1>6, <1>7, <1>9 DEF LocksInv

\* vm::reset begins again.
LEMMA ResetLocks == Reset => LocksInv'
  <1>1. Reset => LocksInit'
    BY DEF Reset, LocksInit, FactoryInit, InitApps
  <1>2. LocksInit' => LocksInv'
    BY StartLocks, PTL
  <1> QED
    BY <1>1, <1>2

\* The invariant of the locks is inductive.
LEMMA StepLocks == LocksInv /\ [LocksNext]_locksVars => LocksInv'
  <1> SUFFICES ASSUME LocksInv, [LocksNext]_locksVars PROVE LocksInv'
    OBVIOUS
  <1>1. CASE UNCHANGED locksVars
    BY <1>1 DEF locksVars, factoryVars, LocksInv, LocksTypeOK, QueuedOnce, InTurn, LeavesMode,
       WaitsForItself, StoppedIdle, Stopped, Owned
  <1>2. CASE \E choice \in Choices : Begin(choice)
    BY <1>2, BegunLocks
  <1>3. CASE LoopStep
    BY <1>3, TurnedLocks
  <1>4. ASSUME NEW t \in Thread, CallStep(t) PROVE LocksInv'
    BY <1>4, GrantedLocks, QueuedLocks, PassedLocks, RemovedLocks DEF CallStep
  <1>5. CASE Fault
    BY <1>5, FaultedLocks
  <1>6. CASE Reset
    BY <1>6, ResetLocks
  <1> QED
    BY <1>1, <1>2, <1>3, <1>4, <1>5, <1>6 DEF LocksNext

\* The inductive invariant of the locks holds.
THEOREM LocksInvariance == LocksSpec => []LocksInv
  <1> QED
    BY StartLocks, StepLocks, PTL DEF LocksSpec

\* No circle of threads waits for one another: whoever owns a lock that is
\* waited for is the window, or a thread in the second half of its turn,
\* which waits for nothing; and the window waits for itself only once it has
\* stopped.
THEOREM LocksFree == LocksSpec => []NoDeadlock
  <1>1. LocksInv => NoDeadlock
    <2> SUFFICES ASSUME LocksInv, ~Stopped, NEW ts \in (SUBSET Thread) \ {{}},
                        \A t \in ts : \E id \in MutexId : t \in Range(waiters[id]) /\ owner[id] \in ts
                 PROVE  FALSE
      BY DEF NoDeadlock
    <2>1. ASSUME NEW t \in ts, NEW id \in MutexId, owner[id] = t PROVE t = "window"
      <3>1. PICK i \in MutexId : t \in Range(waiters[i])
        OBVIOUS
      <3>2. todo[t] # <<>> /\ Head(todo[t]) = <<"lock", i>>
        BY <3>1 DEF LocksInv, QueuedOnce
      <3>3. id \in Owned(t)
        BY <2>1 DEF Owned
      <3> QED
        BY <3>2, <3>3, LocksWithNothing, Threads
    <2>2. PICK t \in ts : TRUE
      OBVIOUS
    <2>3. PICK id \in MutexId : t \in Range(waiters[id]) /\ owner[id] \in ts
      OBVIOUS
    <2>4. "window" \in ts
      BY <2>1, <2>3
    <2>5. PICK i \in MutexId : "window" \in Range(waiters[i]) /\ owner[i] \in ts
      BY <2>4
    <2>6. owner[i] = "window"
      BY <2>1, <2>5
    <2>7. selfLocked
      BY <2>5, <2>6 DEF LocksInv, WaitsForItself
    <2> QED
      BY <2>7 DEF Stopped
  <1> QED
    BY <1>1, LocksInvariance, PTL

\* Every way through the functions gives the locks back.
THEOREM LocksGivenBack == LocksSpec => []HeldBetween
  <1>1. LocksInv => HeldBetween
    <2> SUFFICES ASSUME LocksInv PROVE HeldBetween
      OBVIOUS
    <2>1. ASSUME ~Stopped, todo["window"] = <<>> PROVE Owned("window") = Held(mode)
      <3>1. Leaves(<<>>, Owned("window"), Held(mode))
        BY <2>1 DEF LocksInv, LeavesMode
      <3>2. Owned("window") \in SUBSET MutexId
        BY DEF Owned
      <3> QED
        BY <3>1, <3>2, NothingToDo DEF Leaves
    <2>2. Tail(RenderLoop) # <<>> /\ Tail(SensorLoop) # <<>>
      BY Halves, Loops
    <2>3. ASSUME NEW t \in {"render", "sensor"}, todo[t] = <<>> PROVE Owned(t) = {}
      BY <2>2, <2>3 DEF LocksInv, InTurn
    <2> QED
      BY <2>1, <2>3 DEF HeldBetween
  <1> QED
    BY <1>1, LocksInvariance, PTL

-----------------------------------------------------------------------------
\* The ids that have a mutex, and the threads that have an OWNER.
Taken == {id \in MutexId : owner[id] # NULL}

Queued == {t \in Thread : Waiting(t)}

\* The counters of the pools are exact.
PoolsExact ==
    /\ freeMutex \in Nat /\ freeMutex + Cardinality(Taken) = MaxMutex
    /\ freeOwners \in Nat /\ freeOwners + Cardinality(Queued) = MaxOwners

\* Ids and threads are few.
LEMMA Few == IsFiniteSet(MutexId) /\ IsFiniteSet(Thread)
  <1>1. IsFiniteSet({FRAME, FILE, MEMORY, SENSOR, USB})
    <2>1. IsFiniteSet({}) /\ IsFiniteSet({} \cup {FRAME})
      BY FS_EmptySet, FS_AddElement
    <2>2. IsFiniteSet(({} \cup {FRAME}) \cup {FILE})
      BY <2>1, FS_AddElement
    <2>3. IsFiniteSet((({} \cup {FRAME}) \cup {FILE}) \cup {MEMORY})
      BY <2>2, FS_AddElement
    <2>4. IsFiniteSet(((({} \cup {FRAME}) \cup {FILE}) \cup {MEMORY}) \cup {SENSOR})
      BY <2>3, FS_AddElement
    <2>5. IsFiniteSet((((({} \cup {FRAME}) \cup {FILE}) \cup {MEMORY}) \cup {SENSOR}) \cup {USB})
      BY <2>4, FS_AddElement
    <2>6. (((({} \cup {FRAME}) \cup {FILE}) \cup {MEMORY}) \cup {SENSOR}) \cup {USB}
            = {FRAME, FILE, MEMORY, SENSOR, USB}
      OBVIOUS
    <2> QED
      BY <2>5, <2>6
  <1> QED
    BY <1>1, Ids, ThreadAssumption

\* One element more, one less.
LEMMA Counting ==
    ASSUME NEW U, IsFiniteSet(U), NEW S \in SUBSET U, NEW x \in U
    PROVE  /\ Cardinality(S) \in Nat
           /\ x \notin S => Cardinality(S \cup {x}) = Cardinality(S) + 1
           /\ x \in S => Cardinality(S \ {x}) = Cardinality(S) - 1
           /\ x \notin S => Cardinality(S) < Cardinality(U)
  <1>1. IsFiniteSet(S) /\ Cardinality(S) \in Nat /\ Cardinality(S) <= Cardinality(U)
        /\ Cardinality(U) \in Nat
    BY FS_Subset, FS_CardinalityType
  <1>2. x \notin S => Cardinality(S \cup {x}) = Cardinality(S) + 1
    BY <1>1, FS_AddElement
  <1>3. x \in S => Cardinality(S \ {x}) = Cardinality(S) - 1
    BY <1>1, FS_RemoveElement
  <1>4. S \cup {x} \in SUBSET U
    OBVIOUS
  <1>5. Cardinality(S \cup {x}) <= Cardinality(U)
    BY <1>4, FS_Subset
  <1> QED
    BY <1>1, <1>2, <1>3, <1>5

\* The pools start full.
LEMMA StartPools == LocksInit => PoolsExact
  <1> SUFFICES ASSUME LocksInit PROVE PoolsExact
    OBVIOUS
  <1> USE DEF LocksInit, FactoryInit
  <1>1. Taken = {}
    BY DEF Taken
  <1>2. Queued = {}
    BY DEF Queued, Waiting, Range
  <1> QED
    BY <1>1, <1>2, FS_EmptySet, FactoryAssumption DEF PoolsExact

\* A step that changes neither owners nor queues changes no counter.
LEMMA SamePools ==
    ASSUME PoolsExact, UNCHANGED factoryVars
    PROVE  PoolsExact'
  <1>1. Taken' = Taken /\ Queued' = Queued
    BY DEF factoryVars, Taken, Queued, Waiting
  <1> QED
    BY <1>1 DEF PoolsExact, factoryVars

\* A lock that is granted takes a mutex.
LEMMA GrantedPools ==
    ASSUME LocksInv, PoolsExact, NEW t \in Thread, NEW id \in MutexId, LockGranted(t, id)
    PROVE  PoolsExact'
  <1>1. /\ owner[id] = NULL /\ owner' = [owner EXCEPT ![id] = t] /\ freeMutex > 0
        /\ freeMutex' = freeMutex - 1 /\ waiters' = waiters /\ freeOwners' = freeOwners
    BY DEF LockGranted, GrantLock
  <1>2. \A i \in MutexId : owner'[i] = IF i = id THEN t ELSE owner[i]
    BY <1>1 DEF LocksInv, LocksTypeOK
  <1>3. Taken' = Taken \cup {id} /\ id \notin Taken
    BY <1>1, <1>2, Threads DEF Taken
  <1>4. Queued' = Queued
    BY <1>1 DEF Queued, Waiting
  <1>5. Taken \in SUBSET MutexId
    BY DEF Taken
  <1>6. Cardinality(Taken') = Cardinality(Taken) + 1 /\ Cardinality(Taken) \in Nat
    BY <1>3, <1>5, Few, Counting
  <1> QED
    BY <1>1, <1>4, <1>6 DEF PoolsExact

\* A lock that waits takes an owner.
LEMMA QueuedPools ==
    ASSUME LocksInv, PoolsExact, NEW t \in Thread, NEW id \in MutexId, LockQueued(t, id)
    PROVE  PoolsExact'
  <1>1. /\ owner' = owner /\ waiters' = [waiters EXCEPT ![id] = Append(@, t)] /\ freeOwners > 0
        /\ freeOwners' = freeOwners - 1 /\ freeMutex' = freeMutex /\ ~Waiting(t)
    BY DEF LockQueued, GrantWait, Calls
  <1>2. waiters[id] \in Seq(Thread)
        /\ \A i \in MutexId : waiters'[i] = IF i = id THEN Append(waiters[id], t) ELSE waiters[i]
    BY <1>1 DEF LocksInv, LocksTypeOK
  <1>3. Range(waiters'[id]) = Range(waiters[id]) \cup {t}
    <2>1. waiters'[id] = Append(waiters[id], t)
      BY <1>2
    <2> QED
      BY <1>2, <2>1 DEF Range
  <1>4. Queued' = Queued \cup {t} /\ t \notin Queued
    BY <1>1, <1>2, <1>3 DEF Queued, Waiting
  <1>5. Taken' = Taken
    BY <1>1 DEF Taken
  <1>6. Queued \in SUBSET Thread
    BY DEF Queued
  <1>7. Cardinality(Queued') = Cardinality(Queued) + 1 /\ Cardinality(Queued) \in Nat
    BY <1>4, <1>6, Few, Counting
  <1> QED
    BY <1>1, <1>5, <1>7 DEF PoolsExact

\* The first waiter leaves the only queue it is in.
LEMMA PassedPools ==
    ASSUME LocksInv, PoolsExact, NEW t \in Thread, NEW id \in MutexId, UnlockPassed(t, id)
    PROVE  PoolsExact'
  <1>1. /\ owner[id] = t /\ waiters[id] # <<>> /\ waiters[id] \in Seq(Thread)
        /\ owner' = [owner EXCEPT ![id] = Head(waiters[id])]
        /\ waiters' = [waiters EXCEPT ![id] = Tail(@)]
        /\ freeOwners' = freeOwners + 1 /\ freeMutex' = freeMutex
    BY DEF UnlockPassed, PassOn, LocksInv, LocksTypeOK
  <1>2. PICK w \in Seq(Thread) : w = waiters[id]
    BY <1>1
  <1>3. PICK u \in Thread : u = Head(w)
    BY <1>1, <1>2
  <1>4. \A i \in MutexId : waiters'[i] = IF i = id THEN Tail(w) ELSE waiters[i]
    BY <1>1, <1>2 DEF LocksInv, LocksTypeOK
  <1>5. \A i \in MutexId : owner'[i] = IF i = id THEN u ELSE owner[i]
    BY <1>1, <1>2, <1>3 DEF LocksInv, LocksTypeOK
  <1>6. Taken' = Taken
    BY <1>1, <1>5, Threads DEF Taken
  <1>7. \A i, j \in DOMAIN w : w[i] = w[j] => i = j
    BY <1>2 DEF LocksInv, QueuedOnce
  <1>8. Range(Tail(w)) = Range(w) \ {u} /\ u \in Range(w)
    <2>1. DOMAIN w = 1..Len(w) /\ Len(w) \in Nat \ {0} /\ u = w[1]
      BY <1>1, <1>2, <1>3
    <2>2. DOMAIN Tail(w) = 1..Len(w)-1 /\ \A i \in 1..Len(w)-1 : Tail(w)[i] = w[i + 1]
      BY <1>1, <1>2
    <2>3. u \in Range(w)
      BY <2>1 DEF Range
    <2>4. ASSUME NEW v \in Range(Tail(w)) PROVE v \in Range(w) /\ v # u
      <3>1. PICK i \in 1..Len(w)-1 : v = w[i + 1]
        BY <2>2 DEF Range
      <3>2. i + 1 \in DOMAIN w /\ 1 \in DOMAIN w /\ i + 1 # 1
        BY <2>1
      <3> QED
        BY <1>7, <2>1, <3>1, <3>2 DEF Range
    <2>5. ASSUME NEW v \in Range(w), v # u PROVE v \in Range(Tail(w))
      <3>1. PICK i \in 1..Len(w) : v = w[i]
        BY <2>1 DEF Range
      <3>2. i - 1 \in 1..Len(w)-1 /\ (i - 1) + 1 = i
        BY <2>1, <2>5, <3>1
      <3>3. v = Tail(w)[i - 1]
        BY <2>2, <3>1, <3>2
      <3> QED
        BY <2>2, <3>2, <3>3 DEF Range
    <2> QED
      BY <2>3, <2>4, <2>5
  <1>9. \A i \in MutexId : u \in Range(waiters[i]) => i = id
    <2>1. \A i \in MutexId : u \in Range(waiters[i]) => Head(todo[u]) = <<"lock", i>>
      BY DEF LocksInv, QueuedOnce
    <2>2. Head(todo[u]) = <<"lock", id>>
      BY <1>2, <1>8, <2>1
    <2> QED
      BY <2>1, <2>2
  <1>10. Queued' = Queued \ {u} /\ u \in Queued
    <2>1. \A v \in Thread \ {u}, i \in MutexId : v \in Range(waiters'[i]) <=> v \in Range(waiters[i])
      BY <1>2, <1>4, <1>8
    <2>2. \A i \in MutexId : u \notin Range(waiters'[i])
      BY <1>4, <1>8, <1>9
    <2>3. u \in Range(waiters[id])
      BY <1>2, <1>8
    <2> QED
      BY <2>1, <2>2, <2>3 DEF Queued, Waiting
  <1>11. Queued \in SUBSET Thread
    BY DEF Queued
  <1>12. Cardinality(Queued') = Cardinality(Queued) - 1 /\ Cardinality(Queued) \in Nat
    BY <1>10, <1>11, Few, Counting
  <1> QED
    BY <1>1, <1>6, <1>12 DEF PoolsExact

\* An unlock with no waiter returns the mutex.
LEMMA RemovedPools ==
    ASSUME LocksInv, PoolsExact, NEW t \in Thread, NEW id \in MutexId, UnlockRemoved(t, id)
    PROVE  PoolsExact'
  <1>1. owner[id] = t
    BY UnlocksOwn DEF UnlockRemoved
  <1>2. /\ waiters[id] = <<>>
        /\ owner' = [owner EXCEPT ![id] = NULL] /\ waiters' = [waiters EXCEPT ![id] = <<>>]
        /\ freeMutex' = freeMutex + 1 /\ freeOwners' = freeOwners
    BY <1>1 DEF UnlockRemoved, RemoveMutex
  <1>3. waiters' = waiters
    BY <1>2 DEF LocksInv, LocksTypeOK
  <1>4. \A i \in MutexId : owner'[i] = IF i = id THEN NULL ELSE owner[i]
    BY <1>2 DEF LocksInv, LocksTypeOK
  <1>5. Taken' = Taken \ {id} /\ id \in Taken
    BY <1>1, <1>4, Threads DEF Taken
  <1>6. Queued' = Queued
    BY <1>3 DEF Queued, Waiting
  <1>7. Taken \in SUBSET MutexId
    BY DEF Taken
  <1>8. Cardinality(Taken') = Cardinality(Taken) - 1 /\ Cardinality(Taken) \in Nat
    BY <1>5, <1>7, Few, Counting
  <1> QED
    BY <1>2, <1>6, <1>8 DEF PoolsExact

\* The counters stay exact.
LEMMA StepPools == LocksInv /\ PoolsExact /\ [LocksNext]_locksVars => PoolsExact'
  <1> SUFFICES ASSUME LocksInv, PoolsExact, [LocksNext]_locksVars PROVE PoolsExact'
    OBVIOUS
  <1>1. CASE UNCHANGED factoryVars
    BY <1>1, SamePools
  <1>2. ASSUME NEW t \in Thread, CallStep(t) PROVE PoolsExact'
    BY <1>2, GrantedPools, QueuedPools, PassedPools, RemovedPools DEF CallStep
  <1>3. CASE Reset
    <2>1. Reset => LocksInit'
      BY DEF Reset, LocksInit, FactoryInit, InitApps
    <2>2. LocksInit' => PoolsExact'
      BY StartPools, PTL
    <2> QED
      BY <1>3, <2>1, <2>2
  <1> QED
    BY <1>1, <1>2, <1>3 DEF LocksNext, LoopStep, Begin, Turn, Fault, locksVars

\* No lock of these threads finds its pool empty, for any pools that have a
\* mutex for each id and an owner for each thread: every lock that is passed on
\* or given back returns its slots.
THEOREM PoolsSuffice == LocksSpec => []NoSmallCore
  <1>1. LocksInv /\ PoolsExact => NoSmallCore
    <2> SUFFICES ASSUME PoolsExact, NEW t \in Thread, NEW id \in MutexId, Calls(t, "lock", id)
                 PROVE  IF owner[id] = NULL THEN freeMutex > 0 ELSE freeOwners > 0
      BY DEF NoSmallCore
    <2>1. CASE owner[id] = NULL
      <3>1. Taken \in SUBSET MutexId /\ id \notin Taken
        BY <2>1 DEF Taken
      <3>2. Cardinality(Taken) < Cardinality(MutexId) /\ Cardinality(Taken) \in Nat
        BY <3>1, Few, Counting
      <3>3. Cardinality(MutexId) \in Nat /\ MaxMutex >= Cardinality(MutexId) /\ MaxMutex \in Nat
        BY Few, FS_CardinalityType, AppLocksAssumption, FactoryAssumption
      <3> QED
        BY <2>1, <3>2, <3>3 DEF PoolsExact
    <2>2. CASE owner[id] # NULL
      <3>1. Queued \in SUBSET Thread /\ t \notin Queued
        BY DEF Queued, Calls
      <3>2. Cardinality(Queued) < Cardinality(Thread) /\ Cardinality(Queued) \in Nat
        BY <3>1, Few, Counting
      <3>3. Cardinality(Thread) \in Nat /\ MaxOwners >= Cardinality(Thread) /\ MaxOwners \in Nat
        BY Few, FS_CardinalityType, AppLocksAssumption, FactoryAssumption
      <3> QED
        BY <2>2, <3>2, <3>3 DEF PoolsExact
    <2> QED
      BY <2>1, <2>2
  <1>2. LocksInv /\ [LocksNext]_locksVars => LocksInv'
    BY StepLocks
  <1>3. LocksInit => LocksInv /\ PoolsExact
    BY StartLocks, StartPools
  <1>4. LocksInv /\ PoolsExact /\ [LocksNext]_locksVars => PoolsExact'
    BY StepPools
  <1> QED
    BY <1>1, <1>2, <1>3, <1>4, PTL DEF LocksSpec

=============================================================================
