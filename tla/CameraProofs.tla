---------------------------- MODULE CameraProofs ----------------------------
(***************************************************************************)
(* The safety of the camera capture.  There is no constant and no bound,   *)
(* so what TLC finds in all reachable states is proved here to follow from *)
(* three facts: the stream and its flags agree with DMA_HandleTypeDef, an  *)
(* interrupt that clears DCMIbusy leaves a whole frame, and DCMIbusy, the  *)
(* state and the lock of the stream go together until an error or an abort *)
(* hits a transfer or DCMIinit fails.                                      *)
(***************************************************************************)
EXTENDS Camera, TLAPS

\* A running stream has raised no flag, and the flags of a finished one wait
\* for the interrupt that ends the transfer.  The flag that an abort raises
\* is told from the one of a whole frame by the state ABORT.
Stream ==
    /\ stream => state = "BUSY" /\ flags = {}
    /\ flags # {} => state \in {"BUSY", "ABORT"}
    /\ ~ {"TC", "TE"} \subseteq flags
    /\ "TC" \in flags /\ state # "ABORT" => frame = "whole"

\* The thread starts a transfer only after it has set DCMIbusy, and finds
\* DCMIbusy cleared only with a whole frame.
Snapshot ==
    /\ ~busy => state # "BUSY"
    /\ pc = "start" => busy /\ state # "BUSY"
    /\ pc = "copy" => ~busy
    /\ pc \in {"wait", "copy"} /\ ~busy => frame = "whole"

\* DCMIbusy, the state and the lock of the stream agree while nothing fails.
Agreement ==
    ~failed =>
        /\ ~aborting /\ pc # "abort"
        /\ state # "ABORT"
        /\ lock <=> state = "BUSY"
        /\ state = "BUSY" => stream \/ flags # {}
        /\ pc \notin {"off", "reset"} => state # "RESET"
        /\ pc \notin {"off", "reset", "start"} => (busy <=> state = "BUSY")

\* The inductive invariant.
Inv == TypeOK /\ Stream /\ Snapshot /\ Agreement

-----------------------------------------------------------------------------
LEMMA InitInv == Init => Inv
  BY DEF Init, Inv, TypeOK, Pc, Stream, Snapshot, Agreement

\* A step of the thread, between two interrupts.
LEMMA StepThread == Inv /\ ThreadStep => Inv'
  <1> SUFFICES ASSUME Inv, ThreadStep PROVE Inv'
    OBVIOUS
  <1> USE DEF Inv, TypeOK, Pc, Stream, Snapshot, Agreement, Goto, dmaVars
  <1>1. CASE CameraInit
    BY <1>1 DEF CameraInit, DCMIinit
  <1>2. CASE SnapshotBusy
    BY <1>2 DEF SnapshotBusy
  <1>3. CASE SnapshotStart
    <2>1. Goto("start", "wait") /\ HAL_DMA_Start_IT
          /\ UNCHANGED <<busy, aborting, errorIt, frameIt, failed>>
      BY <1>3 DEF SnapshotStart
    <2>2. CASE lock \/ state # "READY"
      <3>1. UNCHANGED <<state, lock, error, stream, flags, frame>>
        BY <2>1, <2>2 DEF HAL_DMA_Start_IT
      <3>2. failed
        BY <2>1, <2>2
      <3> QED
        BY <2>1, <3>1, <3>2
    <2>3. CASE ~lock /\ state = "READY"
      <3>1. /\ state' = "BUSY" /\ lock' = TRUE /\ error' = "NONE"
            /\ flags' = {} /\ stream' = TRUE /\ frame' = "partial"
        BY <2>1, <2>3 DEF HAL_DMA_Start_IT
      <3> QED
        BY <2>1, <3>1
    <2> QED
      BY <2>2, <2>3
  <1>4. CASE NoSignal
    BY <1>4 DEF NoSignal
  <1>5. CASE WaitDone
    BY <1>5 DEF WaitDone
  <1>6. CASE WaitTimeout
    BY <1>6 DEF WaitTimeout
  <1>7. CASE RestartTest
    BY <1>7 DEF RestartTest
  <1>8. CASE RestartAbort
    BY <1>8 DEF RestartAbort, WriteAbort
  <1>9. CASE Copy
    BY <1>9 DEF Copy
  <1>10. CASE Continue
    BY <1>10 DEF Continue
  <1>11. CASE CameraDeinit
    BY <1>11 DEF CameraDeinit, DCMIDeInit
  <1>12. CASE CameraInitFails
    BY <1>12 DEF CameraInitFails
  <1> QED
    BY <1>1, <1>2, <1>3, <1>4, <1>5, <1>6, <1>7, <1>8, <1>9, <1>10, <1>11, <1>12 DEF ThreadStep

\* The hardware and the interrupt handlers, wherever the thread is.
LEMMA StepInterrupt == Inv /\ Interrupt => Inv'
  <1> SUFFICES ASSUME Inv, Interrupt PROVE Inv'
    OBVIOUS
  <1> USE DEF Inv, TypeOK, Pc, Stream, Snapshot, Agreement, dmaVars
  <1>1. CASE Transferred
    <2>1. TypeOK'
      BY <1>1 DEF Transferred
    <2>2. Stream'
      BY <1>1 DEF Transferred
    <2>3. Snapshot'
      BY <1>1 DEF Transferred
    <2>4. Agreement'
      BY <1>1 DEF Transferred
    <2> QED
      BY <2>1, <2>2, <2>3, <2>4
  <1>2. CASE DmaIrqAborted
    <2>1. TypeOK'
      BY <1>2 DEF DmaIrqAborted
    <2>2. Stream'
      BY <1>2 DEF DmaIrqAborted
    <2>3. Snapshot'
      BY <1>2 DEF DmaIrqAborted
    <2>4. Agreement'
      BY <1>2 DEF DmaIrqAborted
    <2> QED
      BY <2>1, <2>2, <2>3, <2>4
  <1>3. CASE DmaIrqComplete
    <2>1. TypeOK'
      BY <1>3 DEF DmaIrqComplete
    <2>2. Stream'
      BY <1>3 DEF DmaIrqComplete
    <2>3. Snapshot'
      BY <1>3 DEF DmaIrqComplete
    <2>4. Agreement'
      BY <1>3 DEF DmaIrqComplete
    <2> QED
      BY <2>1, <2>2, <2>3, <2>4
  <1>4. CASE DmaIrqError
    <2>1. TypeOK'
      BY <1>4 DEF DmaIrqError
    <2>2. Stream'
      BY <1>4 DEF DmaIrqError
    <2>3. Snapshot'
      BY <1>4 DEF DmaIrqError
    <2>4. Agreement'
      BY <1>4 DEF DmaIrqError
    <2> QED
      BY <2>1, <2>2, <2>3, <2>4
  <1>5. CASE DcmiIrqError
    <2>1. TypeOK'
      BY <1>5 DEF DcmiIrqError
    <2>2. Stream'
      BY <1>5 DEF DcmiIrqError
    <2>3. Snapshot'
      BY <1>5 DEF DcmiIrqError
    <2>4. Agreement'
      BY <1>5 DEF DcmiIrqError
    <2> QED
      BY <2>1, <2>2, <2>3, <2>4
  <1>6. CASE DcmiIrqAbort
    <2>1. TypeOK'
      BY <1>6 DEF DcmiIrqAbort, WriteAbort
    <2>2. Stream'
      BY <1>6 DEF DcmiIrqAbort, WriteAbort
    <2>3. Snapshot'
      BY <1>6 DEF DcmiIrqAbort, WriteAbort
    <2>4. Agreement'
      BY <1>6 DEF DcmiIrqAbort, WriteAbort
    <2> QED
      BY <2>1, <2>2, <2>3, <2>4
  <1>7. CASE DcmiIrqFrame
    <2>1. TypeOK'
      BY <1>7 DEF DcmiIrqFrame
    <2>2. Stream'
      BY <1>7 DEF DcmiIrqFrame
    <2>3. Snapshot'
      BY <1>7 DEF DcmiIrqFrame
    <2>4. Agreement'
      BY <1>7 DEF DcmiIrqFrame
    <2> QED
      BY <2>1, <2>2, <2>3, <2>4
  <1> QED
    BY <1>1, <1>2, <1>3, <1>4, <1>5, <1>6, <1>7 DEF Interrupt

LEMMA StepInv == Inv /\ [Next]_vars => Inv'
  <1>1. Inv /\ UNCHANGED vars => Inv'
    BY DEF Inv, TypeOK, Stream, Snapshot, Agreement, vars, dmaVars
  <1> QED
    BY <1>1, StepThread, StepInterrupt DEF Next

-----------------------------------------------------------------------------
\* The inductive invariant holds in every reachable state.
THEOREM Invariance == Spec => []Inv
  BY InitInv, StepInv, PTL DEF Spec

\* A frame that goes to the screen is whole and no longer written, whatever
\* time-outs, aborts and errors came before.
THEOREM CopiedWhole == Spec => []CopyWhole
  <1>1. Inv => CopyWhole
    BY DEF Inv, Snapshot, Stream, CopyWhole
  <1> QED
    BY <1>1, Invariance, PTL

\* DCMIbusy is set only while an interrupt that clears it is to come, until
\* an error or an abort hits a transfer or DCMIinit fails.
THEOREM BusyUntilInterrupt == Spec => []BusyEnds
  <1>1. Inv => BusyEnds
    BY DEF Inv, Agreement, BusyEnds
  <1> QED
    BY <1>1, Invariance, PTL

\* A snapshot that DCMIsnapshotStart accepts is one that HAL_DMA_Start_IT
\* starts, until an error or an abort hits a transfer or DCMIinit fails.
THEOREM AcceptedIsStarted == Spec => []AcceptedStarts
  <1>1. Inv => AcceptedStarts
    BY DEF Inv, TypeOK, Snapshot, Agreement, AcceptedStarts
  <1> QED
    BY <1>1, Invariance, PTL

=============================================================================
