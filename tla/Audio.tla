------------------------------- MODULE Audio -------------------------------
(***************************************************************************)
(* The sounds of the user interface.  The sensor thread plays clickWave    *)
(* from its listener, holding SENSOR_LOCK_ID; the window plays confirmWave *)
(* (appOnActionHook) and exchanges both samples (updateAudio): at start-up *)
(* with the lock, when a WAV file is opened without it.  Both threads meet *)
(* again in HAL_DAC_Start_DMA, whose lock is a flag that is tested and set *)
(* in two steps, and refuses whoever finds it set; ll_play then spins for  *)
(* ever.                                                                   *)
(***************************************************************************)
EXTENDS Naturals

CONSTANTS Sensor, Window,  \* the two threads
          Buffer,          \* blocks of the heap a WaveSample and its data take
          NULL

ASSUME AudioAssumption ==
    /\ Sensor # Window
    /\ NULL \notin Buffer \cup {Sensor, Window}

VARIABLES pc,          \* where each thread is
          wave,        \* clickWave and confirmWave
          slot,        \* the pointer updateAudio was called for
          old,         \* static WaveSample *sample of updateAudio
          new,         \* the sample updateAudio makes
          cur,         \* per thread: the sample ll_play plays
          block,       \* what each block of the heap holds
          sensorLock,  \* the owner of SENSOR_LOCK_ID
          dacLock,     \* DAC_HandleTypeDef::Lock
          dma,         \* the buffer DMA1_Stream5 reads
          overlapped   \* history: an exchange without the lock has met a click
                       \* or a playing buffer

heapVars == <<wave, slot, old, new, block>>
dacVars == <<cur, dacLock, dma>>
vars == <<pc, heapVars, sensorLock, dacVars, overlapped>>

Thread == {Sensor, Window}

\* The steps of WaveSample::play, and those of updateAudio.
Playing == {"claim", "set", "stream", "enable", "release"}
Exchanging == {"open", "publish", "free", "load"}

Init ==
    /\ pc = [t \in Thread |-> IF t = Sensor THEN "idle" ELSE "start"]
    /\ wave = [click |-> NULL, confirm |-> NULL]
    /\ slot = "click"
    /\ old = NULL
    /\ new = NULL
    /\ cur = [t \in Thread |-> NULL]
    /\ block = [b \in Buffer |-> "free"]
    /\ sensorLock = NULL
    /\ dacLock = FALSE
    /\ dma = NULL
    /\ overlapped = FALSE

Goto(t, from, to) ==
    /\ pc[t] = from
    /\ pc' = [pc EXCEPT ![t] = to]

-----------------------------------------------------------------------------
\* SENSOR_THREAD: the lock around invoke, and the listener's click.
SensorLock_Not ==
    /\ Goto(Sensor, "idle", "invoke")
    /\ UNCHANGED <<heapVars, sensorLock, dacVars>>

SensorLock ==
    /\ Goto(Sensor, "idle", "invoke")
    /\ sensorLock = NULL
    /\ sensorLock' = Sensor
    /\ UNCHANGED <<heapVars, dacVars>>

SensorUnlock ==
    /\ Goto(Sensor, "invoke", "idle")
    /\ sensorLock' = NULL
    /\ UNCHANGED <<heapVars, dacVars>>

\* if (clickWave != nullptr): the pointer is read again for the call.
TestClick ==
    /\ wave.click # NULL
    /\ Goto(Sensor, "invoke", "call")
    /\ UNCHANGED <<heapVars, sensorLock, dacVars>>

CallClick ==
    /\ Goto(Sensor, "call", "claim")
    /\ cur' = [cur EXCEPT ![Sensor] = wave.click]
    /\ UNCHANGED <<heapVars, sensorLock, dacLock, dma>>

\* appOnActionHook.  Only this thread ever writes confirmWave.
PlayConfirm ==
    /\ wave.confirm # NULL
    /\ Goto(Window, "idle", "claim")
    /\ cur' = [cur EXCEPT ![Window] = wave.confirm]
    /\ UNCHANGED <<heapVars, sensorLock, dacLock, dma>>

-----------------------------------------------------------------------------
\* ll_play, through HAL_DAC_Start_DMA: __HAL_LOCK, HAL_DMA_Start_IT, whose
\* refusal nobody looks at, __HAL_UNLOCK.
Claim(t) ==
    /\ Goto(t, "claim", IF dacLock THEN "hung" ELSE "set")
    /\ UNCHANGED <<heapVars, sensorLock, dacVars>>

SetLock(t) ==
    /\ Goto(t, "set", "stream")
    /\ dacLock' = TRUE
    /\ UNCHANGED <<heapVars, sensorLock, cur, dma>>

Stream_KeepsLock(t) ==
    /\ Goto(t, "stream",
            IF dma = NULL THEN "enable" ELSE IF t = Sensor THEN "invoke" ELSE "idle")
    /\ UNCHANGED <<heapVars, sensorLock, dacVars>>

Stream(t) ==
    /\ Goto(t, "stream", IF dma = NULL THEN "enable" ELSE "release")
    /\ UNCHANGED <<heapVars, sensorLock, dacVars>>

Enable(t) ==
    /\ Goto(t, "enable", "release")
    /\ dma' = cur[t]
    /\ UNCHANGED <<heapVars, sensorLock, cur, dacLock>>

Release(t) ==
    /\ Goto(t, "release", IF t = Sensor THEN "invoke" ELSE "idle")
    /\ dacLock' = FALSE
    /\ cur' = [cur EXCEPT ![t] = NULL]
    /\ UNCHANGED <<heapVars, sensorLock, dma>>

\* The stream has sent the whole buffer: DMA1_Stream5_IRQHandler.
Played ==
    /\ dma # NULL
    /\ dma' = NULL
    /\ UNCHANGED <<pc, heapVars, sensorLock, cur, dacLock>>

-----------------------------------------------------------------------------
\* updateAudio(s, path): sample = *s; *s = nullptr.
Exchange(from, s) ==
    /\ Goto(Window, from, "open")
    /\ slot' = s
    /\ old' = wave[s]
    /\ wave' = [wave EXCEPT ![s] = NULL]
    /\ UNCHANGED <<new, block, sensorLock, dacVars>>

\* main_app: both samples under SENSOR_LOCK_ID.
StartLock ==
    /\ Goto(Window, "start", "click")
    /\ sensorLock = NULL
    /\ sensorLock' = Window
    /\ UNCHANGED <<heapVars, dacVars>>

StartClick == Exchange("click", "click")
StartConfirm == Exchange("confirm", "confirm")

StartUnlock ==
    /\ Goto(Window, "unlock", "idle")
    /\ sensorLock' = NULL
    /\ UNCHANGED <<heapVars, dacVars>>

\* file_app, for a WAV file.
OpenWav == Exchange("idle", "click")

\* Where updateAudio returns to.
Returned == CASE sensorLock = Window /\ slot = "click" -> "confirm"
              [] sensorLock = Window /\ slot = "confirm" -> "unlock"
              [] OTHER -> "idle"

\* The early returns: no memory, or not a sample the driver can play.
OpenFailed ==
    /\ Goto(Window, "open", Returned)
    /\ wave' = [wave EXCEPT ![slot] = old]
    /\ UNCHANGED <<slot, old, new, block, sensorLock, dacVars>>

\* buffer = new uint8_t[...].
Allocate(b) ==
    /\ block[b] = "free"
    /\ Goto(Window, "open", "publish")
    /\ new' = b
    /\ block' = [block EXCEPT ![b] = "empty"]
    /\ UNCHANGED <<wave, slot, old, sensorLock, dacVars>>

\* *s = new WaveSample(...), before its data are read.
Publish ==
    /\ Goto(Window, "publish", "free")
    /\ wave' = [wave EXCEPT ![slot] = new]
    /\ UNCHANGED <<slot, old, new, block, sensorLock, dacVars>>

FreeOld ==
    /\ Goto(Window, "free", "load")
    /\ block' = [b \in Buffer |-> IF b = old THEN "free" ELSE block[b]]
    /\ UNCHANGED <<wave, slot, old, new, sensorLock, dacVars>>

\* loadSample; whether it could read the file is not looked at.
Load ==
    /\ Goto(Window, "load", Returned)
    /\ \E r \in {"sample", "noise"} : block' = [block EXCEPT ![new] = r]
    /\ UNCHANGED <<wave, slot, old, new, sensorLock, dacVars>>

-----------------------------------------------------------------------------
SensorStep == SensorLock \/ SensorUnlock \/ TestClick \/ CallClick

WindowStep ==
    \/ StartLock \/ StartClick \/ StartConfirm \/ StartUnlock
    \/ PlayConfirm \/ OpenWav
    \/ OpenFailed \/ (\E b \in Buffer : Allocate(b)) \/ Publish \/ FreeOld \/ Load

PlayStep(t) == Claim(t) \/ SetLock(t) \/ Stream(t) \/ Enable(t) \/ Release(t)

\* The window exchanges clickWave and does not own SENSOR_LOCK_ID.
Unguarded == pc[Window] \in Exchanging /\ sensorLock # Window

ClickOrSound == pc[Sensor] \in Playing \cup {"call"} \/ dma # NULL

Next ==
    /\ SensorStep \/ WindowStep \/ (\E t \in Thread : PlayStep(t)) \/ Played
    /\ overlapped' = (overlapped \/ (Unguarded' /\ ClickOrSound'))

Spec == Init /\ [][Next]_vars

-----------------------------------------------------------------------------
\* The buffers somebody reads, or is about to hand to the stream.
InUse == {cur[t] : t \in {u \in Thread : pc[u] \in Playing}}
            \cup (IF dma = NULL THEN {} ELSE {dma})

\* Whatever is played is a sample of the heap whose data updateAudio has
\* finished reading: never a null pointer, a freed block or one being filled.
\* The start-up exchange is kept from the sensor thread by its lock; the
\* exchange of file_app is not, and the guarantee ends when it meets a click
\* or a playing sample.
PlaysWhole ==
    overlapped \/ \A b \in InUse : b \in Buffer /\ block[b] \in {"sample", "noise"}

\* The DAC's flag is never left set, and the two threads do not both hang:
\* who is refused has met the other between its test and its unlock.
NeverBothHang ==
    /\ dacLock => \E t \in Thread : pc[t] \in {"stream", "enable", "release"}
    /\ \E t \in Thread : pc[t] # "hung"

=============================================================================
