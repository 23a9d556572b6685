----------------------------- MODULE AudioProofs -----------------------------
(***************************************************************************)
(* The sounds for a heap of any size.  While updateAudio is at work the    *)
(* window plays nothing, so what matters is the sensor thread: the lock    *)
(* keeps it out at start-up, and history overlapped records that it was    *)
(* not kept out later.  The DAC's flag is set by whoever is about to clear *)
(* it, so somebody is left to do so.                                       *)
(***************************************************************************)
EXTENDS Audio, TLAPS

Whole(b) == b \in Buffer /\ block[b] \in {"sample", "noise"}

\* The threads and what they hold.
Types ==
    /\ pc \in [Thread -> {"idle", "invoke", "call", "start", "click", "confirm", "unlock", "hung"}
                            \cup Playing \cup Exchanging]
    /\ pc[Sensor] \in {"idle", "invoke", "call", "hung"} \cup Playing
    /\ pc[Window] \notin {"invoke", "call"}
    /\ slot \in {"click", "confirm"}
    /\ wave \in [{"click", "confirm"} -> Buffer \cup {NULL}]
    /\ old \in Buffer \cup {NULL}
    /\ new \in Buffer \cup {NULL}
    /\ cur \in [Thread -> Buffer \cup {NULL}]
    /\ block \in [Buffer -> {"free", "empty", "sample", "noise"}]
    /\ dma \in Buffer \cup {NULL}
    /\ dacLock \in BOOLEAN
    /\ overlapped \in BOOLEAN

\* SENSOR_LOCK_ID: the sensor thread has it in its listener, the window at
\* start-up, before any sound was made.
Locking ==
    /\ sensorLock \in {NULL, Sensor, Window}
    /\ sensorLock = Sensor <=> pc[Sensor] # "idle"
    /\ pc[Window] \in {"click", "confirm", "unlock"} => sensorLock = Window
    /\ sensorLock = Window => pc[Window] \in {"click", "confirm", "unlock"} \cup Exchanging
    /\ sensorLock = Window \/ pc[Window] = "start" => dma = NULL
    /\ pc[Window] = "start" =>
          wave["click"] = NULL /\ wave["confirm"] = NULL /\ pc[Sensor] \in {"idle", "invoke"}

\* The two samples, and the one updateAudio takes away or makes.
Samples ==
    /\ \A s \in {"click", "confirm"} :
          \/ wave[s] = NULL
          \/ Whole(wave[s])
          \/ slot = s /\ pc[Window] \in {"free", "load"}
    /\ wave["click"] = wave["confirm"] => wave["click"] = NULL
    /\ pc[Window] \in {"open", "publish"} =>
          /\ wave[slot] = NULL
          /\ old = NULL \/ (Whole(old) /\ old \notin {wave["click"], wave["confirm"]})
    /\ pc[Window] \in {"publish", "free", "load"} => new \in Buffer /\ block[new] = "empty"
    /\ pc[Window] \in {"free", "load"} => wave[slot] = new
    /\ pc[Window] = "free" =>
          old = NULL \/ (Whole(old) /\ old \notin {wave["click"], wave["confirm"]})

\* Until they meet, who plays has a sample and none is exchanged meanwhile.
Apart ==
    ~ overlapped =>
        /\ Unguarded => ~ ClickOrSound
        /\ pc[Sensor] = "call" => wave["click"] # NULL
        /\ \A t \in Thread : pc[t] \in Playing => Whole(cur[t])
        /\ dma # NULL => Whole(dma)

\* The inductive invariant.
Inv == Types /\ Locking /\ Samples /\ Apart /\ NeverBothHang

-----------------------------------------------------------------------------
LEMMA Constants ==
    /\ Thread = {Sensor, Window} /\ Sensor # Window
    /\ NULL # Sensor /\ NULL # Window
    /\ \A b \in Buffer : b # NULL
    /\ \A b : Whole(b) => b \in Buffer
    /\ \A t \in Thread : t = Sensor \/ t = Window
  BY AudioAssumption DEF Thread, Whole

LEMMA InitInv == Init => Inv
  <1> SUFFICES ASSUME Init PROVE Inv
    OBVIOUS
  <1> USE Constants DEF Init
  <1>1. Types
    <2>1. pc = [t \in Thread |-> IF t = Sensor THEN "idle" ELSE "start"]
      OBVIOUS
    <2>2. /\ wave \in [{"click", "confirm"} -> Buffer \cup {NULL}]
          /\ slot = "click" /\ old = NULL /\ new = NULL /\ dma = NULL
          /\ cur \in [Thread -> Buffer \cup {NULL}]
          /\ block \in [Buffer -> {"free", "empty", "sample", "noise"}]
          /\ dacLock = FALSE /\ overlapped = FALSE
      OBVIOUS
    <2> HIDE DEF Init
    <2> QED
      BY <2>1, <2>2 DEF Types, Playing, Exchanging
  <1>2. Locking
    BY DEF Locking
  <1>3. Samples
    BY DEF Samples
  <1>4. Apart
    BY DEF Apart, Unguarded, Exchanging, Playing
  <1>5. NeverBothHang
    BY DEF NeverBothHang
  <1> QED
    BY <1>1, <1>2, <1>3, <1>4, <1>5 DEF Inv

-----------------------------------------------------------------------------
(***************************************************************************)
(* The DAC's flag.                                                         *)
(***************************************************************************)

\* Whoever is past the set of the flag, and has not cleared it.
Claimed(t) == pc[t] \in {"stream", "enable", "release"}

\* A step of a thread that is refused by nobody.
LEMMA FlagKept ==
    ASSUME Types, NeverBothHang, NEW t \in Thread, NEW to, to # "hung",
           pc' = [pc EXCEPT ![t] = to],
           \/ dacLock' = FALSE
           \/ dacLock' = dacLock /\ (Claimed(t) => to \in {"stream", "enable", "release"})
           \/ to \in {"stream", "enable", "release"}
    PROVE  NeverBothHang'
  <1>1. /\ pc'[t] = to
        /\ \A u \in Thread \ {t} : pc'[u] = pc[u]
    BY DEF Types
  <1>2. dacLock' => \E u \in Thread : pc'[u] \in {"stream", "enable", "release"}
    BY <1>1 DEF NeverBothHang, Claimed
  <1> QED
    BY <1>1, <1>2 DEF NeverBothHang

\* The one that is refused has met another.
LEMMA FlagRefuses ==
    ASSUME Types, NeverBothHang, NEW t \in Thread, pc[t] = "claim", dacLock,
           pc' = [pc EXCEPT ![t] = "hung"], dacLock' = dacLock
    PROVE  NeverBothHang'
  <1>1. PICK u \in Thread : pc[u] \in {"stream", "enable", "release"}
    BY DEF NeverBothHang
  <1>2. u # t /\ pc'[u] = pc[u]
    BY <1>1 DEF Types
  <1> QED
    BY <1>1, <1>2 DEF NeverBothHang

-----------------------------------------------------------------------------
(***************************************************************************)
(* The sensor thread.                                                      *)
(***************************************************************************)

\* What Next adds to each step.
Overlaps == overlapped' = (overlapped \/ (Unguarded' /\ ClickOrSound'))

LEMMA OverlapType ==
    ASSUME Overlaps, Types
    PROVE  /\ overlapped' \in BOOLEAN
           /\ ~ overlapped' => ~ overlapped /\ (Unguarded' => ~ ClickOrSound')
  BY DEF Overlaps, Types

LEMMA StepSensorLock == ASSUME Inv, SensorLock, Overlaps PROVE Inv'
  <1> USE Constants DEF Inv
  <1>1. /\ pc[Sensor] = "idle" /\ pc' = [pc EXCEPT ![Sensor] = "invoke"]
        /\ sensorLock = NULL /\ sensorLock' = Sensor
        /\ UNCHANGED <<wave, slot, old, new, block, cur, dacLock, dma>>
    BY DEF SensorLock, Goto, heapVars, dacVars
  <1>2. pc'[Sensor] = "invoke" /\ pc'[Window] = pc[Window]
    BY <1>1 DEF Types
  <1>3. overlapped' \in BOOLEAN /\ (~ overlapped' => ~ overlapped /\ (Unguarded' => ~ ClickOrSound'))
    BY OverlapType
  <1>4. Types'
    BY <1>1, <1>2, <1>3 DEF Types
  <1>5. Locking'
    BY <1>1, <1>2 DEF Locking, Types
  <1>6. Samples'
    BY <1>1, <1>2 DEF Samples, Whole
  <1>7. Apart'
    BY <1>1, <1>2, <1>3 DEF Apart, Whole, Playing
  <1>8. NeverBothHang'
    BY <1>1, FlagKept DEF Claimed
  <1> QED
    BY <1>4, <1>5, <1>6, <1>7, <1>8

\* Samples is about the window's thread.
LEMMA SamplesKept ==
    ASSUME Samples, UNCHANGED <<wave, slot, old, new, block>>,
           \/ pc'[Window] = pc[Window]
           \/ pc'[Window] \notin Exchanging
              /\ (\A s \in {"click", "confirm"} : wave[s] = NULL \/ Whole(wave[s]))
    PROVE  Samples'
  BY DEF Samples, Whole, Exchanging

LEMMA StepSensorUnlock == ASSUME Inv, SensorUnlock, Overlaps PROVE Inv'
  <1> USE Constants DEF Inv
  <1>1. /\ pc[Sensor] = "invoke" /\ pc' = [pc EXCEPT ![Sensor] = "idle"]
        /\ sensorLock' = NULL
        /\ UNCHANGED <<wave, slot, old, new, block, cur, dacLock, dma>>
    BY DEF SensorUnlock, Goto, heapVars, dacVars
  <1>2. pc'[Sensor] = "idle" /\ pc'[Window] = pc[Window]
    BY <1>1 DEF Types
  <1>3. overlapped' \in BOOLEAN /\ (~ overlapped' => ~ overlapped /\ (Unguarded' => ~ ClickOrSound'))
    BY OverlapType
  <1>4. Types'
    BY <1>1, <1>2, <1>3 DEF Types
  <1>5. Locking'
    BY <1>1, <1>2 DEF Locking, Types
  <1>6. Samples'
    BY <1>1, <1>2, SamplesKept
  <1>7. Apart'
    BY <1>1, <1>2, <1>3 DEF Apart, Whole, Playing
  <1>8. NeverBothHang'
    BY <1>1, FlagKept DEF Claimed
  <1> QED
    BY <1>4, <1>5, <1>6, <1>7, <1>8

LEMMA StepTestClick == ASSUME Inv, TestClick, Overlaps PROVE Inv'
  <1> USE Constants DEF Inv
  <1>1. /\ pc[Sensor] = "invoke" /\ pc' = [pc EXCEPT ![Sensor] = "call"]
        /\ wave["click"] # NULL
        /\ UNCHANGED <<sensorLock, wave, slot, old, new, block, cur, dacLock, dma>>
    BY DEF TestClick, Goto, heapVars, dacVars
  <1>2. pc'[Sensor] = "call" /\ pc'[Window] = pc[Window]
    BY <1>1 DEF Types
  <1>3. overlapped' \in BOOLEAN /\ (~ overlapped' => ~ overlapped /\ (Unguarded' => ~ ClickOrSound'))
    BY OverlapType
  <1>4. Types'
    BY <1>1, <1>2, <1>3 DEF Types
  <1>5. Locking'
    BY <1>1, <1>2 DEF Locking, Types
  <1>6. Samples'
    BY <1>1, <1>2, SamplesKept
  <1>7. Apart'
    BY <1>1, <1>2, <1>3 DEF Apart, Whole, Playing
  <1>8. NeverBothHang'
    BY <1>1, FlagKept DEF Claimed
  <1> QED
    BY <1>4, <1>5, <1>6, <1>7, <1>8

\* While updateAudio is at work nothing is played, unless they have met.
LEMMA Silence ==
    ASSUME Inv, pc[Window] \in Exchanging, ~ overlapped
    PROVE  pc[Sensor] \notin Playing \cup {"call"} /\ dma = NULL
  BY Constants DEF Inv, Apart, Locking, Unguarded, ClickOrSound, Playing

\* The pointer is read again, and it is still the one that was tested.
LEMMA StepCallClick == ASSUME Inv, CallClick, Overlaps PROVE Inv'
  <1> USE Constants DEF Inv
  <1>1. /\ pc[Sensor] = "call" /\ pc' = [pc EXCEPT ![Sensor] = "claim"]
        /\ cur' = [cur EXCEPT ![Sensor] = wave["click"]]
        /\ UNCHANGED <<sensorLock, wave, slot, old, new, block, dacLock, dma>>
    BY DEF CallClick, Goto, heapVars
  <1>2. /\ pc'[Sensor] = "claim" /\ pc'[Window] = pc[Window]
        /\ cur'[Sensor] = wave["click"] /\ cur'[Window] = cur[Window]
    BY <1>1 DEF Types
  <1>3. overlapped' \in BOOLEAN /\ (~ overlapped' => ~ overlapped /\ (Unguarded' => ~ ClickOrSound'))
    BY OverlapType
  <1>4. Types'
    <2>1. cur' \in [Thread -> Buffer \cup {NULL}]
      BY <1>1 DEF Types
    <2>2. pc' \in [Thread -> {"idle", "invoke", "call", "start", "click", "confirm", "unlock",
                              "hung"} \cup Playing \cup Exchanging]
      BY <1>1 DEF Types, Playing
    <2> HIDE DEF Inv
    <2>3. Types
      BY DEF Inv
    <2> QED
      BY <1>1, <1>2, <1>3, <2>1, <2>2, <2>3 DEF Types, Playing
  <1>5. Locking'
    BY <1>1, <1>2 DEF Locking, Types
  <1>6. Samples'
    BY <1>1, <1>2, SamplesKept
  <1>7. Apart'
    <2>1. ASSUME ~ overlapped PROVE Whole(wave["click"])
      <3>1. pc[Window] \notin Exchanging /\ wave["click"] # NULL
        BY <1>1, <2>1, Silence DEF Apart
      <3> QED
        BY <3>1 DEF Samples, Exchanging
    <2> QED
      BY <1>1, <1>2, <1>3, <2>1 DEF Apart, Whole
  <1>8. NeverBothHang'
    BY <1>1, FlagKept DEF Claimed
  <1> QED
    BY <1>4, <1>5, <1>6, <1>7, <1>8

-----------------------------------------------------------------------------
(***************************************************************************)
(* ll_play, by either thread.                                              *)
(***************************************************************************)

\* Where a thread is after a step of WaveSample::play, and what this leaves of
\* the rest of the invariant.
PlayGoesOn(t, to) ==
    /\ pc[t] \in Playing
    /\ to \in Playing \cup {"hung", IF t = Sensor THEN "invoke" ELSE "idle"}
    /\ pc' = [pc EXCEPT ![t] = to]
    /\ UNCHANGED <<sensorLock, wave, slot, old, new, block>>

LEMMA StepPlaying ==
    ASSUME Inv, Overlaps, NEW t \in Thread, NEW to, PlayGoesOn(t, to),
           cur' \in [Thread -> Buffer \cup {NULL}],
           \A u \in Thread : pc'[u] \in Playing => cur'[u] = cur[u],
           dacLock' \in BOOLEAN,
           dma' = dma \/ dma' = cur[t],
           NeverBothHang'
    PROVE  Inv'
  <1> USE Constants DEF Inv, PlayGoesOn
  <1>1. /\ pc'[t] = to
        /\ \A u \in Thread \ {t} : pc'[u] = pc[u]
    BY DEF Types
  <1>2. overlapped' \in BOOLEAN /\ (~ overlapped' => ~ overlapped /\ (Unguarded' => ~ ClickOrSound'))
    BY OverlapType
  <1>3. cur[t] \in Buffer \cup {NULL}
    BY DEF Types
  <1>4. Types'
    <2>1. pc' \in [Thread -> {"idle", "invoke", "call", "start", "click", "confirm", "unlock",
                              "hung"} \cup Playing \cup Exchanging]
      BY DEF Types
    <2>2. dma' \in Buffer \cup {NULL}
      BY <1>3 DEF Types
    <2>3. pc'[Sensor] \in {"idle", "invoke", "call", "hung"} \cup Playing
      BY <1>1 DEF Types
    <2>4. pc'[Window] \notin {"invoke", "call"}
      BY <1>1 DEF Types, Playing
    <2> HIDE DEF Inv
    <2>5. Types
      BY DEF Inv
    <2> QED
      BY <1>2, <2>1, <2>2, <2>3, <2>4, <2>5 DEF Types
  <1>5. /\ sensorLock # Window /\ pc[Window] # "start"
        /\ pc'[Sensor] = "idle" <=> pc[Sensor] = "idle"
        /\ pc'[Window] \notin {"start", "click", "confirm", "unlock"}
           \/ pc'[Window] = pc[Window]
    BY <1>1 DEF Locking, Types, Playing, Exchanging
  <1>6. Locking'
    BY <1>1, <1>5 DEF Locking, Playing
  <1>7. Samples'
    <2>1. CASE t = Sensor
      BY <1>1, <2>1, SamplesKept
    <2>2. CASE t = Window
      <3>1. pc[Window] \notin Exchanging /\ pc'[Window] \notin Exchanging
        BY <1>1, <2>2 DEF Playing, Exchanging
      <3> QED
        BY <3>1, SamplesKept DEF Samples, Exchanging
    <2> QED
      BY <2>1, <2>2
  <1>8. Apart'
    <2>1. pc'[Sensor] = "call" => pc[Sensor] = "call"
      BY <1>1 DEF Playing
    <2>2. \A u \in Thread : pc'[u] \in Playing => pc[u] \in Playing
      BY <1>1
    <2>3. ~ overlapped => Whole(cur[t])
      BY DEF Apart
    <2> QED
      BY <1>2, <2>1, <2>2, <2>3 DEF Apart, Whole
  <1> QED
    BY <1>4, <1>6, <1>7, <1>8

LEMMA StepPlay == ASSUME Inv, NEW t \in Thread, PlayStep(t), Overlaps PROVE Inv'
  <1> USE Constants
  <1>1. /\ Types /\ NeverBothHang /\ dacLock \in BOOLEAN
        /\ cur \in [Thread -> Buffer \cup {NULL}]
    BY DEF Inv, Types
  <1>2. CASE Claim(t)
    <2>1. /\ pc[t] = "claim" /\ pc' = [pc EXCEPT ![t] = IF dacLock THEN "hung" ELSE "set"]
          /\ UNCHANGED <<sensorLock, wave, slot, old, new, block, cur, dacLock, dma>>
      BY <1>2 DEF Claim, Goto, heapVars, dacVars
    <2>2. NeverBothHang'
      <3>1. CASE dacLock = TRUE
        BY <1>1, <2>1, <3>1, FlagRefuses
      <3>2. CASE dacLock = FALSE
        BY <1>1, <2>1, <3>2, FlagKept
      <3> QED
        BY <1>1, <3>1, <3>2
    <2>3. PlayGoesOn(t, IF dacLock THEN "hung" ELSE "set")
      BY <2>1 DEF PlayGoesOn, Playing
    <2> QED
      BY <1>1, <2>1, <2>2, <2>3, StepPlaying
  <1>3. CASE SetLock(t)
    <2>1. /\ pc[t] = "set" /\ pc' = [pc EXCEPT ![t] = "stream"] /\ dacLock' = TRUE
          /\ UNCHANGED <<sensorLock, wave, slot, old, new, block, cur, dma>>
      BY <1>3 DEF SetLock, Goto, heapVars
    <2>2. NeverBothHang'
      BY <1>1, <2>1, FlagKept
    <2>3. PlayGoesOn(t, "stream")
      BY <2>1 DEF PlayGoesOn, Playing
    <2> QED
      BY <1>1, <2>1, <2>2, <2>3, StepPlaying
  <1>4. CASE Stream(t)
    <2> DEFINE to == IF dma = NULL THEN "enable" ELSE "release"
    <2>1. /\ pc[t] = "stream" /\ pc' = [pc EXCEPT ![t] = to]
          /\ to \in {"enable", "release"}
          /\ UNCHANGED <<sensorLock, wave, slot, old, new, block, cur, dacLock, dma>>
      BY <1>4 DEF Stream, Goto, heapVars, dacVars
    <2> HIDE DEF to
    <2>2. NeverBothHang'
      BY <1>1, <2>1, FlagKept
    <2>3. PlayGoesOn(t, to)
      BY <2>1 DEF PlayGoesOn, Playing
    <2> QED
      BY <1>1, <2>1, <2>2, <2>3, StepPlaying
  <1>5. CASE Enable(t)
    <2>1. /\ pc[t] = "enable" /\ pc' = [pc EXCEPT ![t] = "release"] /\ dma' = cur[t]
          /\ UNCHANGED <<sensorLock, wave, slot, old, new, block, cur, dacLock>>
      BY <1>5 DEF Enable, Goto, heapVars
    <2>2. NeverBothHang'
      BY <1>1, <2>1, FlagKept
    <2>3. PlayGoesOn(t, "release")
      BY <2>1 DEF PlayGoesOn, Playing
    <2> QED
      BY <1>1, <2>1, <2>2, <2>3, StepPlaying
  <1>6. CASE Release(t)
    <2> DEFINE to == IF t = Sensor THEN "invoke" ELSE "idle"
    <2>1. /\ pc[t] = "release" /\ pc' = [pc EXCEPT ![t] = to]
          /\ to # "hung" /\ to \notin Playing
          /\ dacLock' = FALSE /\ cur' = [cur EXCEPT ![t] = NULL]
          /\ UNCHANGED <<sensorLock, wave, slot, old, new, block, dma>>
      BY <1>6 DEF Release, Goto, heapVars, Playing
    <2>2. NeverBothHang'
      BY <1>1, <2>1, FlagKept
    <2>3. PlayGoesOn(t, to)
      BY <2>1 DEF PlayGoesOn, Playing
    <2>4. /\ cur' \in [Thread -> Buffer \cup {NULL}]
          /\ \A u \in Thread : pc'[u] \in Playing => cur'[u] = cur[u]
      BY <1>1, <2>1 DEF Types
    <2> HIDE DEF to
    <2> QED
      BY <2>1, <2>2, <2>3, <2>4, StepPlaying
  <1> QED
    BY <1>2, <1>3, <1>4, <1>5, <1>6 DEF PlayStep

LEMMA StepPlayed == ASSUME Inv, Played, Overlaps PROVE Inv'
  <1> USE Constants DEF Inv
  <1>1. /\ dma' = NULL
        /\ UNCHANGED <<pc, sensorLock, wave, slot, old, new, block, cur, dacLock>>
    BY DEF Played, heapVars
  <1>2. overlapped' \in BOOLEAN /\ (~ overlapped' => ~ overlapped /\ (Unguarded' => ~ ClickOrSound'))
    BY OverlapType
  <1>3. Types'
    BY <1>1, <1>2 DEF Types
  <1>4. Locking'
    BY <1>1 DEF Locking
  <1>5. Samples'
    BY <1>1, SamplesKept
  <1>6. Apart'
    BY <1>1, <1>2 DEF Apart, Whole
  <1>7. NeverBothHang'
    BY <1>1 DEF NeverBothHang
  <1> QED
    BY <1>3, <1>4, <1>5, <1>6, <1>7

-----------------------------------------------------------------------------
(***************************************************************************)
(* The window.                                                             *)
(***************************************************************************)

\* The window goes to a place outside updateAudio and touches no sample.
LEMMA WindowGoesOn ==
    ASSUME Inv, Overlaps, NEW to,
           to \in {"idle", "click", "confirm", "unlock", "claim"},
           pc[Window] \notin Exchanging,
           pc' = [pc EXCEPT ![Window] = to],
           UNCHANGED <<wave, slot, old, new, block, dacLock, dma>>,
           cur' \in [Thread -> Buffer \cup {NULL}],
           cur'[Sensor] = cur[Sensor],
           to = "claim" => Whole(cur'[Window]),
           pc[Window] \notin {"stream", "enable", "release"},
           Locking'
    PROVE  Inv'
  <1> USE Constants DEF Inv
  <1>1. pc'[Window] = to /\ pc'[Sensor] = pc[Sensor]
    BY DEF Types
  <1>2. overlapped' \in BOOLEAN /\ (~ overlapped' => ~ overlapped /\ (Unguarded' => ~ ClickOrSound'))
    BY OverlapType
  <1>3. Types'
    <2>1. pc' \in [Thread -> {"idle", "invoke", "call", "start", "click", "confirm", "unlock",
                              "hung"} \cup Playing \cup Exchanging]
      BY DEF Types, Playing
    <2>2. pc'[Window] \notin {"invoke", "call"}
      BY <1>1
    <2> HIDE DEF Inv
    <2>3. Types
      BY DEF Inv
    <2> QED
      BY <1>1, <1>2, <2>1, <2>2, <2>3 DEF Types
  <1>4. Samples'
    <2>1. to \notin Exchanging
      BY DEF Exchanging
    <2>2. \A s \in {"click", "confirm"} : wave[s] = NULL \/ Whole(wave[s])
      BY DEF Samples, Exchanging
    <2> QED
      BY <1>1, <2>1, <2>2, SamplesKept
  <1>5. Apart'
    <2>1. to \in Playing => to = "claim"
      BY DEF Playing
    <2>2. Whole(cur'[Window]) => Whole(cur[Window])'
      BY DEF Whole
    <2> QED
      BY <1>1, <1>2, <2>1, <2>2 DEF Apart, Whole
  <1>6. NeverBothHang'
    BY FlagKept DEF Claimed
  <1> QED
    BY <1>3, <1>4, <1>5, <1>6

LEMMA StepStartLock == ASSUME Inv, StartLock, Overlaps PROVE Inv'
  <1> USE Constants
  <1>1. /\ pc[Window] = "start" /\ pc' = [pc EXCEPT ![Window] = "click"]
        /\ sensorLock = NULL /\ sensorLock' = Window
        /\ UNCHANGED <<wave, slot, old, new, block, cur, dacLock, dma>>
    BY DEF StartLock, Goto, heapVars, dacVars
  <1>2. pc'[Window] = "click" /\ pc'[Sensor] = pc[Sensor]
    BY <1>1 DEF Inv, Types
  <1>3. Locking'
    BY <1>1, <1>2 DEF Inv, Locking
  <1>4. cur \in [Thread -> Buffer \cup {NULL}] /\ pc[Window] \notin Exchanging
    BY <1>1 DEF Inv, Types, Exchanging
  <1> QED
    BY <1>1, <1>3, <1>4, WindowGoesOn

LEMMA StepStartUnlock == ASSUME Inv, StartUnlock, Overlaps PROVE Inv'
  <1> USE Constants
  <1>1. /\ pc[Window] = "unlock" /\ pc' = [pc EXCEPT ![Window] = "idle"]
        /\ sensorLock' = NULL
        /\ UNCHANGED <<wave, slot, old, new, block, cur, dacLock, dma>>
    BY DEF StartUnlock, Goto, heapVars, dacVars
  <1>2. pc'[Window] = "idle" /\ pc'[Sensor] = pc[Sensor]
    BY <1>1 DEF Inv, Types
  <1>3. Locking'
    BY <1>1, <1>2 DEF Inv, Locking
  <1>4. cur \in [Thread -> Buffer \cup {NULL}] /\ pc[Window] \notin Exchanging
    BY <1>1 DEF Inv, Types, Exchanging
  <1> QED
    BY <1>1, <1>3, <1>4, WindowGoesOn

LEMMA StepPlayConfirm == ASSUME Inv, PlayConfirm, Overlaps PROVE Inv'
  <1> USE Constants
  <1>1. /\ pc[Window] = "idle" /\ pc' = [pc EXCEPT ![Window] = "claim"]
        /\ wave["confirm"] # NULL
        /\ cur' = [cur EXCEPT ![Window] = wave["confirm"]]
        /\ UNCHANGED <<wave, slot, old, new, block, sensorLock, dacLock, dma>>
    BY DEF PlayConfirm, Goto, heapVars
  <1>2. pc'[Window] = "claim" /\ pc'[Sensor] = pc[Sensor]
    BY <1>1 DEF Inv, Types
  <1>3. Locking'
    BY <1>1, <1>2 DEF Inv, Locking, Exchanging
  <1>4. pc[Window] \notin Exchanging
    BY <1>1 DEF Exchanging
  <1>5. /\ cur' \in [Thread -> Buffer \cup {NULL}]
        /\ cur'[Sensor] = cur[Sensor] /\ cur'[Window] = wave["confirm"]
    BY <1>1 DEF Inv, Types
  <1>6. Whole(wave["confirm"])
    BY <1>1 DEF Inv, Samples
  <1> QED
    BY <1>1, <1>3, <1>4, <1>5, <1>6, WindowGoesOn

-----------------------------------------------------------------------------
(***************************************************************************)
(* updateAudio.                                                            *)
(***************************************************************************)

\* The step leaves the window in updateAudio: what is not about the samples.
LEMMA StaysExchanging ==
    ASSUME Inv, Overlaps, NEW to \in Exchanging,
           pc' = [pc EXCEPT ![Window] = to],
           pc[Window] \in Exchanging \cup {"click", "confirm", "idle"},
           UNCHANGED <<sensorLock, cur, dacLock, dma>>
    PROVE  /\ overlapped' \in BOOLEAN /\ pc'[Window] = to /\ pc'[Sensor] = pc[Sensor]
           /\ pc' \in [Thread -> {"idle", "invoke", "call", "start", "click", "confirm",
                                  "unlock", "hung"} \cup Playing \cup Exchanging]
           /\ pc'[Window] \notin {"invoke", "call"}
           /\ Locking'
           /\ Apart'
           /\ NeverBothHang'
  <1> USE Constants DEF Inv
  <1>1. pc'[Window] = to /\ pc'[Sensor] = pc[Sensor]
    BY DEF Types
  <1>2. overlapped' \in BOOLEAN /\ (~ overlapped' => ~ overlapped /\ (Unguarded' => ~ ClickOrSound'))
    BY OverlapType
  <1>3. /\ pc' \in [Thread -> {"idle", "invoke", "call", "start", "click", "confirm",
                               "unlock", "hung"} \cup Playing \cup Exchanging]
        /\ pc'[Window] \notin {"invoke", "call", "start", "click", "confirm", "unlock", "hung"}
        /\ pc'[Window] \notin Playing
    BY <1>1 DEF Types, Exchanging, Playing
  <1>4. Locking'
    BY <1>1, <1>3 DEF Locking, Exchanging
  <1>5. Apart'
    <2>1. SUFFICES ASSUME ~ overlapped' PROVE Apart'
      BY DEF Apart
    <2>2. pc'[Sensor] \notin Playing \cup {"call"} /\ dma' = NULL
      <3>1. CASE sensorLock = Window
        BY <1>1, <3>1 DEF Locking, Playing
      <3>2. CASE sensorLock # Window
        BY <1>1, <1>2, <2>1, <3>2 DEF Unguarded, ClickOrSound
      <3> QED
        BY <3>1, <3>2
    <2> QED
      BY <1>2, <1>3, <2>1, <2>2 DEF Apart, Types
  <1>6. NeverBothHang'
    <2>1. to # "hung" /\ ~ Claimed(Window)
      BY DEF Exchanging, Claimed
    <2> QED
      BY <2>1, FlagKept
  <1> QED
    BY <1>1, <1>2, <1>3, <1>4, <1>5, <1>6

LEMMA StepExchange ==
    ASSUME Inv, Overlaps, NEW from \in {"click", "confirm", "idle"},
           NEW s \in {"click", "confirm"}, Exchange(from, s)
    PROVE  Inv'
  <1> USE Constants
  <1>1. /\ pc[Window] = from /\ pc' = [pc EXCEPT ![Window] = "open"]
        /\ slot' = s /\ old' = wave[s] /\ wave' = [wave EXCEPT ![s] = NULL]
        /\ UNCHANGED <<new, block, sensorLock, cur, dacLock, dma>>
    BY DEF Exchange, Goto, dacVars
  <1>2. "open" \in Exchanging
    BY DEF Exchanging
  <1>3. /\ overlapped' \in BOOLEAN /\ pc'[Window] = "open" /\ pc'[Sensor] = pc[Sensor]
        /\ pc' \in [Thread -> {"idle", "invoke", "call", "start", "click", "confirm",
                               "unlock", "hung"} \cup Playing \cup Exchanging]
        /\ pc'[Window] \notin {"invoke", "call"}
        /\ Locking' /\ Apart' /\ NeverBothHang'
    BY <1>1, <1>2, StaysExchanging
  <1>4. /\ wave \in [{"click", "confirm"} -> Buffer \cup {NULL}]
        /\ wave' \in [{"click", "confirm"} -> Buffer \cup {NULL}]
        /\ old' \in Buffer \cup {NULL}
        /\ wave'[s] = NULL
        /\ \A r \in {"click", "confirm"} \ {s} : wave'[r] = wave[r]
    BY <1>1 DEF Inv, Types
  <1>5. Types'
    BY <1>1, <1>3, <1>4 DEF Inv, Types
  <1>6. Samples'
    <2>1. /\ \A r \in {"click", "confirm"} : wave[r] = NULL \/ Whole(wave[r])
          /\ wave["click"] = wave["confirm"] => wave["click"] = NULL
      BY <1>1 DEF Inv, Samples
    <2>2. old' = NULL \/ (Whole(old') /\ old' \notin {wave'["click"], wave'["confirm"]})
      BY <1>1, <1>4, <2>1
    <2> QED
      BY <1>1, <1>3, <1>4, <2>1, <2>2 DEF Samples, Whole
  <1> QED
    BY <1>3, <1>5, <1>6 DEF Inv

\* The early returns and the end of updateAudio.
LEMMA StepReturned ==
    ASSUME Inv, Overlaps, pc[Window] \in Exchanging,
           pc' = [pc EXCEPT ![Window] = Returned],
           UNCHANGED <<slot, old, new, sensorLock, cur, dacLock, dma>>,
           wave' \in [{"click", "confirm"} -> Buffer \cup {NULL}],
           block' \in [Buffer -> {"free", "empty", "sample", "noise"}],
           \A s \in {"click", "confirm"} : (wave[s] = NULL \/ Whole(wave[s]))',
           wave'["click"] = wave'["confirm"] => wave'["click"] = NULL
    PROVE  Inv'
  <1> USE Constants DEF Inv
  <1>1. /\ Returned \in {"confirm", "unlock", "idle"}
        /\ Returned = "idle" <=> sensorLock # Window
    BY DEF Returned, Types
  <1>2. pc'[Window] = Returned /\ pc'[Sensor] = pc[Sensor]
    BY DEF Types
  <1>3. overlapped' \in BOOLEAN /\ (~ overlapped' => ~ overlapped /\ (Unguarded' => ~ ClickOrSound'))
    BY OverlapType
  <1>4. Types'
    <2>1. pc' \in [Thread -> {"idle", "invoke", "call", "start", "click", "confirm", "unlock",
                              "hung"} \cup Playing \cup Exchanging]
      BY <1>1 DEF Types
    <2>2. pc'[Window] \notin {"invoke", "call"}
      BY <1>1, <1>2
    <2> HIDE DEF Inv
    <2>3. Types
      BY DEF Inv
    <2> QED
      BY <1>2, <1>3, <2>1, <2>2, <2>3 DEF Types
  <1>5. Locking'
    BY <1>1, <1>2 DEF Locking, Exchanging
  <1>6. Samples'
    BY <1>1, <1>2 DEF Samples
  <1>7. Apart'
    <2>1. pc'[Window] \notin Exchanging \cup Playing
      BY <1>1, <1>2 DEF Exchanging, Playing
    <2>2. ~ overlapped => pc[Sensor] \notin Playing \cup {"call"} /\ dma = NULL
      BY Silence
    <2> QED
      BY <1>2, <1>3, <2>1, <2>2 DEF Apart, Unguarded
  <1>8. NeverBothHang'
    <2>1. Returned # "hung" /\ ~ Claimed(Window)
      BY <1>1 DEF Exchanging, Claimed
    <2> QED
      BY <2>1, FlagKept
  <1> QED
    BY <1>4, <1>5, <1>6, <1>7, <1>8

LEMMA StepOpenFailed == ASSUME Inv, OpenFailed, Overlaps PROVE Inv'
  <1> USE Constants
  <1>1. /\ pc[Window] = "open" /\ pc' = [pc EXCEPT ![Window] = Returned]
        /\ wave' = [wave EXCEPT ![slot] = old]
        /\ UNCHANGED <<slot, old, new, block, sensorLock, cur, dacLock, dma>>
    BY DEF OpenFailed, Goto, dacVars
  <1>2. /\ slot \in {"click", "confirm"} /\ old \in Buffer \cup {NULL}
        /\ wave \in [{"click", "confirm"} -> Buffer \cup {NULL}]
        /\ block \in [Buffer -> {"free", "empty", "sample", "noise"}]
    BY DEF Inv, Types
  <1>3. /\ wave' \in [{"click", "confirm"} -> Buffer \cup {NULL}]
        /\ wave'[slot] = old
        /\ \A r \in {"click", "confirm"} \ {slot} : wave'[r] = wave[r]
    BY <1>1, <1>2
  <1>4. /\ \A r \in {"click", "confirm"} : wave[r] = NULL \/ Whole(wave[r])
        /\ wave[slot] = NULL
        /\ old = NULL \/ (Whole(old) /\ old \notin {wave["click"], wave["confirm"]})
    BY <1>1 DEF Inv, Samples
  <1>5. /\ \A r \in {"click", "confirm"} : (wave[r] = NULL \/ Whole(wave[r]))'
        /\ wave'["click"] = wave'["confirm"] => wave'["click"] = NULL
    BY <1>1, <1>2, <1>3, <1>4 DEF Whole
  <1>6. pc[Window] \in Exchanging
    BY <1>1 DEF Exchanging
  <1> QED
    BY <1>1, <1>2, <1>3, <1>5, <1>6, StepReturned

LEMMA StepLoad == ASSUME Inv, Load, Overlaps PROVE Inv'
  <1> USE Constants
  <1>1. /\ pc[Window] = "load" /\ pc' = [pc EXCEPT ![Window] = Returned]
        /\ UNCHANGED <<wave, slot, old, new, sensorLock, cur, dacLock, dma>>
    BY DEF Load, Goto, dacVars
  <1>2. PICK r \in {"sample", "noise"} : block' = [block EXCEPT ![new] = r]
    BY DEF Load
  <1>3. /\ slot \in {"click", "confirm"}
        /\ wave \in [{"click", "confirm"} -> Buffer \cup {NULL}]
        /\ block \in [Buffer -> {"free", "empty", "sample", "noise"}]
    BY DEF Inv, Types
  <1>4. /\ new \in Buffer /\ wave[slot] = new
        /\ \A s \in {"click", "confirm"} \ {slot} : wave[s] = NULL \/ Whole(wave[s])
        /\ wave["click"] = wave["confirm"] => wave["click"] = NULL
    BY <1>1, <1>3 DEF Inv, Samples
  <1>5. /\ block' \in [Buffer -> {"free", "empty", "sample", "noise"}]
        /\ block'[new] = r
        /\ \A b \in Buffer \ {new} : block'[b] = block[b]
    BY <1>2, <1>3, <1>4
  <1>6. \A s \in {"click", "confirm"} : (wave[s] = NULL \/ Whole(wave[s]))'
    BY <1>1, <1>2, <1>3, <1>4, <1>5 DEF Whole
  <1>7. pc[Window] \in Exchanging
    BY <1>1 DEF Exchanging
  <1> QED
    BY <1>1, <1>3, <1>4, <1>5, <1>6, <1>7, StepReturned

\* A new block is none of those in use.
LEMMA StepAllocate == ASSUME Inv, NEW b \in Buffer, Allocate(b), Overlaps PROVE Inv'
  <1> USE Constants
  <1>1. /\ pc[Window] = "open" /\ pc' = [pc EXCEPT ![Window] = "publish"]
        /\ block[b] = "free" /\ new' = b /\ block' = [block EXCEPT ![b] = "empty"]
        /\ UNCHANGED <<wave, slot, old, sensorLock, cur, dacLock, dma>>
    BY DEF Allocate, Goto, dacVars
  <1>2. "publish" \in Exchanging /\ pc[Window] \in Exchanging
    BY <1>1 DEF Exchanging
  <1>3. /\ overlapped' \in BOOLEAN /\ pc'[Window] = "publish" /\ pc'[Sensor] = pc[Sensor]
        /\ pc' \in [Thread -> {"idle", "invoke", "call", "start", "click", "confirm",
                               "unlock", "hung"} \cup Playing \cup Exchanging]
        /\ pc'[Window] \notin {"invoke", "call"}
        /\ Locking' /\ Apart' /\ NeverBothHang'
    BY <1>1, <1>2, StaysExchanging
  <1>4. /\ block' \in [Buffer -> {"free", "empty", "sample", "noise"}]
        /\ block'[b] = "empty"
        /\ \A c \in Buffer \ {b} : block'[c] = block[c]
    BY <1>1 DEF Inv, Types
  <1>5. Types'
    BY <1>1, <1>3, <1>4 DEF Inv, Types
  <1>6. Samples'
    <2>1. \A c : Whole(c) => Whole(c)'
      BY <1>1, <1>4 DEF Whole
    <2> QED
      BY <1>1, <1>3, <1>4, <2>1 DEF Inv, Samples
  <1> QED
    BY <1>3, <1>5, <1>6 DEF Inv

LEMMA StepPublish == ASSUME Inv, Publish, Overlaps PROVE Inv'
  <1> USE Constants
  <1>1. /\ pc[Window] = "publish" /\ pc' = [pc EXCEPT ![Window] = "free"]
        /\ wave' = [wave EXCEPT ![slot] = new]
        /\ UNCHANGED <<slot, old, new, block, sensorLock, cur, dacLock, dma>>
    BY DEF Publish, Goto, dacVars
  <1>2. "free" \in Exchanging /\ pc[Window] \in Exchanging
    BY <1>1 DEF Exchanging
  <1>3. /\ overlapped' \in BOOLEAN /\ pc'[Window] = "free" /\ pc'[Sensor] = pc[Sensor]
        /\ pc' \in [Thread -> {"idle", "invoke", "call", "start", "click", "confirm",
                               "unlock", "hung"} \cup Playing \cup Exchanging]
        /\ pc'[Window] \notin {"invoke", "call"}
        /\ Locking' /\ Apart' /\ NeverBothHang'
    BY <1>1, <1>2, StaysExchanging
  <1>4. /\ slot \in {"click", "confirm"} /\ new \in Buffer /\ block[new] = "empty"
        /\ \A s \in {"click", "confirm"} : wave[s] = NULL \/ Whole(wave[s])
        /\ old = NULL \/ (Whole(old) /\ old \notin {wave["click"], wave["confirm"]})
    BY <1>1 DEF Inv, Types, Samples
  <1>5. /\ wave' \in [{"click", "confirm"} -> Buffer \cup {NULL}]
        /\ wave'[slot] = new
        /\ \A r \in {"click", "confirm"} \ {slot} : wave'[r] = wave[r]
    BY <1>1, <1>4 DEF Inv, Types
  <1>6. Types'
    BY <1>1, <1>3, <1>5 DEF Inv, Types
  <1>7. Samples'
    <2>1. \A c : Whole(c) => c # new /\ Whole(c)'
      BY <1>1, <1>4 DEF Whole
    <2> QED
      BY <1>1, <1>3, <1>4, <1>5, <2>1 DEF Samples
  <1> QED
    BY <1>3, <1>6, <1>7 DEF Inv

\* The old sample goes while no pointer leads to it.
LEMMA StepFreeOld == ASSUME Inv, FreeOld, Overlaps PROVE Inv'
  <1> USE Constants
  <1>1. /\ pc[Window] = "free" /\ pc' = [pc EXCEPT ![Window] = "load"]
        /\ block' = [b \in Buffer |-> IF b = old THEN "free" ELSE block[b]]
        /\ UNCHANGED <<wave, slot, old, new, sensorLock, cur, dacLock, dma>>
    BY DEF FreeOld, Goto, dacVars
  <1>2. "load" \in Exchanging /\ pc[Window] \in Exchanging
    BY <1>1 DEF Exchanging
  <1>3. /\ overlapped' \in BOOLEAN /\ pc'[Window] = "load" /\ pc'[Sensor] = pc[Sensor]
        /\ pc' \in [Thread -> {"idle", "invoke", "call", "start", "click", "confirm",
                               "unlock", "hung"} \cup Playing \cup Exchanging]
        /\ pc'[Window] \notin {"invoke", "call"}
        /\ Locking' /\ Apart' /\ NeverBothHang'
    BY <1>1, <1>2, StaysExchanging
  <1>4. block' \in [Buffer -> {"free", "empty", "sample", "noise"}]
    BY <1>1 DEF Inv, Types
  <1>5. Types'
    BY <1>1, <1>3, <1>4 DEF Inv, Types
  <1>6. Samples'
    <2>1. /\ slot \in {"click", "confirm"} /\ new \in Buffer /\ block[new] = "empty"
          /\ wave[slot] = new
          /\ \A s \in {"click", "confirm"} \ {slot} : wave[s] = NULL \/ Whole(wave[s])
          /\ wave["click"] = wave["confirm"] => wave["click"] = NULL
          /\ old = NULL \/ old \notin {wave["click"], wave["confirm"]}
      BY <1>1 DEF Inv, Types, Samples
    <2>2. \A b \in Buffer : b \in {wave["click"], wave["confirm"]} => block'[b] = block[b]
      BY <1>1, <2>1
    <2>3. \A s \in {"click", "confirm"} \ {slot} : wave[s] = NULL \/ Whole(wave[s])'
      BY <1>1, <2>1, <2>2 DEF Whole
    <2> QED
      BY <1>1, <1>3, <2>1, <2>2, <2>3 DEF Samples
  <1> QED
    BY <1>3, <1>5, <1>6 DEF Inv

-----------------------------------------------------------------------------
LEMMA StepInv == Inv /\ [Next]_vars => Inv'
  <1> SUFFICES ASSUME Inv, [Next]_vars PROVE Inv'
    OBVIOUS
  <1>1. CASE Next
    <2>1. Overlaps
      BY <1>1 DEF Next, Overlaps
    <2>2. CASE SensorStep
      BY <2>1, <2>2, StepSensorLock, StepSensorUnlock, StepTestClick, StepCallClick
         DEF SensorStep
    <2>3. CASE WindowStep
      <3>1. StartClick \/ StartConfirm \/ OpenWav => Inv'
        BY <2>1, StepExchange DEF StartClick, StartConfirm, OpenWav
      <3> QED
        BY <2>1, <2>3, <3>1, StepStartLock, StepStartUnlock, StepPlayConfirm, StepOpenFailed,
           StepAllocate, StepPublish, StepFreeOld, StepLoad DEF WindowStep
    <2>4. CASE \E t \in Thread : PlayStep(t)
      BY <2>1, <2>4, StepPlay
    <2>5. CASE Played
      BY <2>1, <2>5, StepPlayed
    <2> QED
      BY <1>1, <2>2, <2>3, <2>4, <2>5 DEF Next
  <1>2. CASE UNCHANGED vars
    <2>1. UNCHANGED <<pc, wave, slot, old, new, block, sensorLock, cur, dacLock, dma, overlapped>>
      BY <1>2 DEF vars, heapVars, dacVars
    <2>2. Types' /\ Locking' /\ Samples' /\ NeverBothHang'
      BY <2>1 DEF Inv, Types, Locking, Samples, NeverBothHang, Whole
    <2>3. Apart'
      BY <2>1 DEF Inv, Apart, Whole, Unguarded, ClickOrSound
    <2> QED
      BY <2>2, <2>3 DEF Inv
  <1> QED
    BY <1>1, <1>2

\* Every reachable state satisfies the inductive invariant: updateAudio against
\* the sensor thread's listener (entry/src) and ll_play of both threads.
THEOREM Invariance == Spec => []Inv
  <1> QED
    BY InitInv, StepInv, PTL DEF Spec

\* What is played is a whole sample until an exchange without the lock meets a
\* click or a playing buffer.
THEOREM WholeSamples == Spec => []PlaysWhole
  <1>1. Inv => PlaysWhole
    BY DEF Inv, Apart, PlaysWhole, InUse, Whole
  <1> QED
    BY <1>1, Invariance, PTL

\* The DAC's flag is never left set, so at most one thread hangs.
THEOREM OneGoesOn == Spec => []NeverBothHang
  <1>1. Inv => NeverBothHang
    BY DEF Inv
  <1> QED
    BY <1>1, Invariance, PTL

==============================================================================
