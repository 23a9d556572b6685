------------------------------- MODULE Camera -------------------------------
(***************************************************************************)
(* Camera capture: the window cam_app, the driver camera.cpp and the DMA   *)
(* and DCMI interrupt handlers of the STM32 HAL that it is built on.  The  *)
(* thread starts one snapshot at a time, polls DCMIbusy with a time-out,   *)
(* copies the frame or aborts the transfer.  Interrupts come between any   *)
(* two steps of the thread; the DMA interrupt (priority 4) also comes      *)
(* inside the DCMI interrupt (priority 5), so HAL_DMA_Abort_IT, which both *)
(* the thread and the DCMI interrupt call, is two steps: the test of the   *)
(* state and the write.                                                    *)
(*                                                                         *)
(* Left out: DCMI_HandleTypeDef::State and the two callbacks that write    *)
(* nothing else (nothing reads it), and the FIFO and half-transfer flags,  *)
(* whose handling ends in those callbacks.                                 *)
(***************************************************************************)
EXTENDS Naturals

VARIABLES pc,        \* where the thread of cam_app is
          busy,      \* DCMIbusy
          state,     \* DMA_HandleTypeDef::State
          lock,      \* DMA_HandleTypeDef::Lock
          error,     \* DMA_HandleTypeDef::ErrorCode
          aborting,  \* the DCMI interrupt is between test and write
          errorIt,   \* DCMI_IT_ERR and DCMI_IT_OVR are enabled
          frameIt,   \* DCMI_IT_FRAME is enabled
          stream,    \* hardware: the DMA stream is transferring
          flags,     \* hardware: the flags of the stream, TC and TE
          frame,     \* history: what is in the video frame memory
          failed     \* history: an error or an abort hit a transfer since
                     \* the last DCMIinit, or that one failed

dmaVars == <<state, lock, error, stream, flags>>

vars == <<pc, busy, dmaVars, aborting, errorIt, frameIt, frame, failed>>

Pc == {"off", "loop", "start", "wait", "restart", "abort", "copy", "events", "reset"}

Init ==
    /\ pc = "off"
    /\ busy = FALSE
    /\ state = "RESET"
    /\ lock = FALSE
    /\ error = "NONE"
    /\ aborting = FALSE
    /\ errorIt = FALSE
    /\ frameIt = FALSE
    /\ stream = FALSE
    /\ flags = {}
    /\ frame = "none"
    /\ failed = FALSE

\* The thread runs when no interrupt does.
Goto(from, to) ==
    /\ ~aborting
    /\ pc = from
    /\ pc' = to

-----------------------------------------------------------------------------
\* HAL_DMA_Start_IT: the lock is taken first and released here only when the
\* stream is not ready; the result is not looked at.
HAL_DMA_Start_IT ==
    \/ /\ ~lock
       /\ state = "READY"
       /\ state' = "BUSY"
       /\ lock' = TRUE
       /\ error' = "NONE"
       /\ flags' = {}
       /\ stream' = TRUE
       /\ frame' = "partial"
    \/ /\ lock \/ state # "READY"
       /\ UNCHANGED <<dmaVars, frame>>

\* The second half of HAL_DMA_Abort_IT.  Disabling a running stream raises
\* its transfer-complete flag.
WriteAbort ==
    /\ state' = "ABORT"
    /\ stream' = FALSE
    /\ flags' = IF stream THEN flags \cup {"TC"} ELSE flags
    /\ UNCHANGED <<lock, error>>

-----------------------------------------------------------------------------
\* DCMIinit: DCMIbusy, HAL_DMA_Init, HAL_DCMI_Init.
DCMIinit ==
    /\ busy' = FALSE
    /\ state' = "READY"
    /\ lock' = FALSE
    /\ error' = "NONE"
    /\ stream' = FALSE
    /\ flags' = {}
    /\ errorIt' = TRUE
    /\ failed' = FALSE
    /\ UNCHANGED <<aborting, frameIt, frame>>

\* DCMIDeInit: HAL_DMA_DeInit, which does nothing while the stream is busy.
DCMIDeInit ==
    /\ IF state = "BUSY"
       THEN UNCHANGED dmaVars
       ELSE /\ state' = "RESET"
            /\ lock' = FALSE
            /\ error' = "NONE"
            /\ stream' = FALSE
            /\ flags' = {}
    /\ UNCHANGED <<busy, aborting, errorIt, frameIt, frame, failed>>

\* camera_init, at the start of cam_app and in the reset dialog.
CameraInit ==
    /\ Goto("off", "loop") \/ Goto("reset", "loop")
    /\ DCMIinit

\* HAL_DMA_Init gives up: the stream has not stopped in time.  camera_init
\* calls DCMIDeInit, which finds the state TIMEOUT and so does all of its
\* work.  At its start cam_app then returns, but the reset dialog goes on.
CameraInitFails ==
    /\ Goto("off", "off") \/ Goto("reset", "loop")
    /\ busy' = FALSE
    /\ state' = "RESET"
    /\ lock' = FALSE
    /\ error' = "NONE"
    /\ stream' = FALSE
    /\ flags' = {}
    /\ failed' = TRUE
    /\ UNCHANGED <<aborting, errorIt, frameIt, frame>>

\* adv7180.inLock() and DCMIsnapshotStart, as far as DCMIbusy = true.
SnapshotBusy_NotSet ==
    /\ Goto("loop", IF busy THEN "wait" ELSE "start")
    /\ UNCHANGED <<busy, dmaVars, aborting, errorIt, frameIt, frame, failed>>

SnapshotBusy ==
    /\ Goto("loop", IF busy THEN "wait" ELSE "start")
    /\ busy' = TRUE
    /\ UNCHANGED <<dmaVars, aborting, errorIt, frameIt, frame, failed>>

\* halDcmiStartDma.
SnapshotStart ==
    /\ Goto("start", "wait")
    /\ HAL_DMA_Start_IT
    /\ UNCHANGED <<busy, aborting, errorIt, frameIt, failed>>

\* The camera has no signal: "LOST LOCK".
NoSignal ==
    /\ Goto("loop", "events")
    /\ UNCHANGED <<busy, dmaVars, aborting, errorIt, frameIt, frame, failed>>

\* The polling loop ends because DCMIbusy is false and not by its counter.
WaitDone ==
    /\ Goto("wait", "copy")
    /\ ~busy
    /\ UNCHANGED <<busy, dmaVars, aborting, errorIt, frameIt, frame, failed>>

\* It ends by its counter, possibly just when DCMIbusy has become false.
WaitTimeout ==
    /\ Goto("wait", "restart")
    /\ UNCHANGED <<busy, dmaVars, aborting, errorIt, frameIt, frame, failed>>

\* DCMIrestart: the test of HAL_DMA_Abort_IT ...
RestartTest ==
    /\ Goto("restart", IF state = "BUSY" THEN "abort" ELSE "events")
    /\ error' = IF state = "BUSY" THEN error ELSE "NO_XFER"
    /\ failed' = (failed \/ state = "BUSY")
    /\ UNCHANGED <<busy, state, lock, stream, flags, aborting, errorIt, frameIt, frame>>

\* ... and its write.
RestartAbort ==
    /\ Goto("abort", "events")
    /\ WriteAbort
    /\ UNCHANGED <<busy, aborting, errorIt, frameIt, frame, failed>>

\* frame_count++, gpu_copy_2d.
Copy ==
    /\ Goto("copy", "events")
    /\ UNCHANGED <<busy, dmaVars, aborting, errorIt, frameIt, frame, failed>>

\* camAppTouchSensor.invokeEvent: nothing, the reset dialog or the exit.
Continue ==
    /\ Goto("events", "loop")
    /\ UNCHANGED <<busy, dmaVars, aborting, errorIt, frameIt, frame, failed>>

CameraDeinit ==
    /\ Goto("events", "reset") \/ Goto("events", "off")
    /\ DCMIDeInit

-----------------------------------------------------------------------------
\* The transfer ends, well or with a bus error; the hardware stops the stream.
Transferred ==
    /\ stream
    /\ stream' = FALSE
    /\ \E f \in {"TC", "TE"} : flags' = flags \cup {f}
    /\ frame' = IF "TC" \in flags' THEN "whole" ELSE frame
    /\ UNCHANGED <<pc, busy, state, lock, error, aborting, errorIt, frameIt, failed>>

\* HAL_DMA_IRQHandler, transfer complete after HAL_DMA_Abort_IT: DCMIbusy is
\* left alone: the driver has no abort callback, the HAL sets one (DCMI_DMAError)
\* that only writes State.
DmaIrqAborted ==
    /\ "TC" \in flags
    /\ state = "ABORT"
    /\ state' = "READY"
    /\ lock' = FALSE
    /\ flags' = {}
    /\ UNCHANGED <<pc, busy, error, stream, aborting, errorIt, frameIt, frame, failed>>

\* HAL_DMA_IRQHandler, transfer complete, and dcmiDmaXFerCplt, which aborts a
\* transfer that is over and so leaves an error code.
DmaIrqComplete_Locked ==
    /\ "TC" \in flags
    /\ state # "ABORT"
    /\ state' = "READY"
    /\ flags' = flags \ {"TC"}
    /\ error' = "NO_XFER"
    /\ busy' = FALSE
    /\ frameIt' = TRUE
    /\ UNCHANGED <<pc, lock, stream, aborting, errorIt, frame, failed>>

DmaIrqComplete_BusyLeft ==
    /\ "TC" \in flags
    /\ state # "ABORT"
    /\ state' = "READY"
    /\ lock' = FALSE
    /\ flags' = flags \ {"TC"}
    /\ error' = "NO_XFER"
    /\ frameIt' = TRUE
    /\ UNCHANGED <<pc, busy, stream, aborting, errorIt, frame, failed>>

DmaIrqComplete ==
    /\ "TC" \in flags
    /\ state # "ABORT"
    /\ state' = "READY"
    /\ lock' = FALSE
    /\ flags' = flags \ {"TC"}
    /\ error' = "NO_XFER"
    /\ busy' = FALSE
    /\ frameIt' = TRUE
    /\ UNCHANGED <<pc, stream, aborting, errorIt, frame, failed>>

\* HAL_DMA_IRQHandler, transfer error: the stream is ready again, and
\* dcmiDmaError leaves DCMIbusy alone.
DmaIrqError ==
    /\ "TE" \in flags
    /\ "TC" \notin flags
    /\ state' = "READY"
    /\ lock' = FALSE
    /\ flags' = {}
    /\ error' = "TE"
    /\ failed' = TRUE
    /\ UNCHANGED <<pc, busy, stream, aborting, errorIt, frameIt, frame>>

\* HAL_DCMI_IRQHandler, synchronisation error or overflow: the test of
\* HAL_DMA_Abort_IT ...
DcmiIrqError ==
    /\ errorIt
    /\ ~aborting
    /\ aborting' = (state = "BUSY")
    /\ error' = IF state = "BUSY" THEN error ELSE "NO_XFER"
    /\ failed' = (failed \/ state = "BUSY")
    /\ UNCHANGED <<pc, busy, state, lock, stream, flags, errorIt, frameIt, frame>>

\* ... and its write.
DcmiIrqAbort ==
    /\ aborting
    /\ aborting' = FALSE
    /\ WriteAbort
    /\ UNCHANGED <<pc, busy, errorIt, frameIt, frame, failed>>

\* HAL_DCMI_IRQHandler, end of frame: in snapshot mode the error interrupts
\* are disabled with it.
DcmiIrqFrame ==
    /\ frameIt
    /\ ~aborting
    /\ frameIt' = FALSE
    /\ errorIt' = FALSE
    /\ UNCHANGED <<pc, busy, dmaVars, aborting, frame, failed>>

-----------------------------------------------------------------------------
ThreadStep ==
    \/ CameraInit \/ CameraInitFails \/ SnapshotBusy \/ SnapshotStart \/ NoSignal
    \/ WaitDone \/ WaitTimeout \/ RestartTest \/ RestartAbort \/ Copy \/ Continue
    \/ CameraDeinit

Interrupt ==
    \/ Transferred \/ DmaIrqAborted \/ DmaIrqComplete \/ DmaIrqError
    \/ DcmiIrqError \/ DcmiIrqAbort \/ DcmiIrqFrame

Next == ThreadStep \/ Interrupt

Spec == Init /\ [][Next]_vars

-----------------------------------------------------------------------------
TypeOK ==
    /\ pc \in Pc
    /\ busy \in BOOLEAN
    /\ state \in {"RESET", "READY", "BUSY", "ABORT"}
    /\ lock \in BOOLEAN
    /\ error \in {"NONE", "TE", "NO_XFER"}
    /\ aborting \in BOOLEAN
    /\ errorIt \in BOOLEAN
    /\ frameIt \in BOOLEAN
    /\ stream \in BOOLEAN
    /\ flags \subseteq {"TC", "TE"}
    /\ frame \in {"none", "partial", "whole"}
    /\ failed \in BOOLEAN

\* A frame goes to the screen only when it is whole and the DMA no longer
\* writes it, whatever aborts, errors and late completions came before.
CopyWhole == pc = "copy" => frame = "whole" /\ ~stream

\* DCMIbusy means that a transfer will end it: the next interrupt of the
\* stream clears it.  Only after an abort, an error or a failed DCMIinit does
\* it stay set with nothing going on, and the camera then is refused every
\* snapshot until the reset dialog or the next start runs DCMIinit.
BusyEnds ==
    busy /\ pc \notin {"start", "off", "reset"} /\ ~failed =>
        state = "BUSY" /\ (stream \/ flags # {})

\* When DCMIsnapshotStart accepts a snapshot HAL_DMA_Start_IT will start it
\* (its result is ignored): the stream is ready and its lock is free.  An
\* abort that a completion overtakes between test and write breaks this too,
\* and so does a DCMIinit that fails in the reset dialog.
AcceptedStarts ==
    pc \in {"loop", "start"} /\ (busy => pc = "start") /\ ~failed => state = "READY" /\ ~lock

=============================================================================
