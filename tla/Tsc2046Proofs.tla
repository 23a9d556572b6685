--------------------------- MODULE Tsc2046Proofs ---------------------------
(***************************************************************************)
(* What TLC checks of Tsc2046 for small time-outs, for all of them.  The   *)
(* argument: the state of the table and the last event agree, and between  *)
(* two gestures the time-out counts the samples since the RELEASE.         *)
(***************************************************************************)
EXTENDS Tsc2046, TLAPS

Pressed == {"CLICK", "TOUCH"}

\* The table and the last event agree.
Gesture ==
    /\ state \in Pressed <=> event \in {"CLICK", "TOUCH", "HOLD"}
    /\ state \notin Pressed => touchTime = 0

\* The hits are those the listeners have seen until the time-out is over.
Countdown ==
    /\ state = "IDLE" => hits = 0 /\ gap = TSC_CD_TIMEOUT + 1
    /\ state # "IDLE" => hits = reported
    /\ state = "CD" => gap <= TSC_CD_TIMEOUT /\ state_cd = TSC_CD_TIMEOUT - gap
    /\ state = "RELEASE" => gap = 0
    /\ state \in Pressed \cup {"RELEASE"} => state_cd = TSC_CD_TIMEOUT

\* A finger that is down has left RELEASE behind after one sample.
Seen ==
    /\ held = 0 => state \notin Pressed
    /\ held = 1 => state # "RELEASE"
    /\ held = 2 => state \in Pressed

\* The inductive invariant.
Inv == TypeOK /\ Gesture /\ Countdown /\ Seen

\* The table, read backwards: the states that lead to each one.
LEMMA Table ==
    ASSUME NEW input \in {"ON", "OFF"}, state \in TscState
    PROVE  /\ tsc_state[input][state] = "CLICK" => input = "ON" /\ state \in {"IDLE", "CD"}
           /\ tsc_state[input][state] = "TOUCH" => input = "ON" /\ state \in Pressed
           /\ tsc_state[input][state] = "RELEASE" => input = "OFF" /\ state \in Pressed
           /\ tsc_state[input][state] = "IDLE" => input = "OFF" /\ state = "IDLE"
           /\ tsc_state[input][state] = "CD" =>
                 state = "RELEASE" \/ (input = "OFF" /\ state = "CD")
  <1>1. CASE input = "ON"
    BY <1>1 DEF TscState, tsc_state, Pressed
  <1>2. CASE input = "OFF"
    BY <1>2 DEF TscState, tsc_state, Pressed
  <1> QED BY <1>1, <1>2

\* One more hit, in a word of 16 bits.
LEMMA OneMore ==
    /\ \A n \in 0 .. Word - 1 : (n + 1) % Word \in 0 .. Word - 1
    /\ 1 % Word = 1
  BY Tsc2046Assumption

LEMMA InitInv == Init => Inv
  BY Tsc2046Assumption
  DEF Init, Inv, TypeOK, Gesture, Countdown, Seen, TscState, Pressed

LEMMA StepInv == Inv /\ [Next]_vars => Inv'
  <1> SUFFICES ASSUME Inv, [Next]_vars PROVE Inv'
    OBVIOUS
  <1> USE Tsc2046Assumption
  <1>1. CASE tim_it_handle
    BY <1>1 DEF Inv, TypeOK, Gesture, Countdown, Seen, tim_it_handle, sampleVars
  <1>2. CASE Idle
    <2>1. state = "IDLE"
      BY <1>2, Table DEF Idle, Sample, Inv, TypeOK
    <2>2. TypeOK'
      <3>1. invoke_flag' \in BOOLEAN
        BY <1>2, <2>1 DEF Idle, Sample
      <3>2. held' \in 0 .. 2 /\ gap' \in 0 .. TSC_CD_TIMEOUT + 1
        BY <1>2, <2>1 DEF Inv, TypeOK, Idle, Sample
      <3>3. state' \in TscState
        BY <1>2, <2>1 DEF Idle, TscState
      <3>4. event' \in {"NONE", "CLICK", "TOUCH", "HOLD", "RELEASE"}
        BY <1>2, <2>1 DEF Inv, TypeOK, Idle
      <3>5. state_cd' \in 0 .. TSC_CD_TIMEOUT
        BY <1>2, <2>1 DEF Inv, TypeOK, Idle
      <3>6. touchTime' \in 0 .. TSC_HOLD_TIMEOUT + 1
        BY <1>2, <2>1 DEF Inv, TypeOK, Idle
      <3>7. hits' \in 0 .. Word - 1
        BY <1>2, <2>1 DEF Inv, TypeOK, Idle
      <3>8. reported' \in 0 .. Word - 1
        BY <1>2, <2>1 DEF Inv, TypeOK, Idle
      <3> QED
        BY <3>1, <3>2, <3>3, <3>4, <3>5, <3>6, <3>7, <3>8 DEF TypeOK
    <2>3. Gesture'
      BY <1>2, <2>1 DEF Inv, TypeOK, Gesture, Pressed, Idle, Sample
    <2>4. Countdown'
      BY <1>2, <2>1 DEF Inv, TypeOK, Countdown, Pressed, Idle, Sample
    <2>5. Seen'
      BY <1>2, <2>1 DEF Inv, TypeOK, Seen, Pressed, Idle, Sample
    <2> QED
      BY <2>2, <2>3, <2>4, <2>5 DEF Inv
  <1>3. ASSUME NEW input \in {"ON", "OFF"}, CountDown(input) PROVE Inv'
    <2>1. state = "RELEASE" \/ (state = "CD" /\ input = "OFF")
      BY <1>3, Table DEF CountDown, Sample, Inv, TypeOK
    <2>2. TypeOK'
      <3>1. invoke_flag' \in BOOLEAN
        BY <1>3, <2>1 DEF CountDown, Sample
      <3>2. held' \in 0 .. 2 /\ gap' \in 0 .. TSC_CD_TIMEOUT + 1
        BY <1>3, <2>1 DEF Inv, TypeOK, CountDown, Sample
      <3>3. state' \in TscState
        BY <1>3, <2>1 DEF CountDown, TscState
      <3>4. event' \in {"NONE", "CLICK", "TOUCH", "HOLD", "RELEASE"}
        BY <1>3, <2>1 DEF Inv, TypeOK, CountDown
      <3>5. state_cd' \in 0 .. TSC_CD_TIMEOUT
        BY <1>3, <2>1 DEF Inv, TypeOK, CountDown
      <3>6. touchTime' \in 0 .. TSC_HOLD_TIMEOUT + 1
        BY <1>3, <2>1 DEF Inv, TypeOK, CountDown
      <3>7. hits' \in 0 .. Word - 1
        BY <1>3, <2>1 DEF Inv, TypeOK, CountDown
      <3>8. reported' \in 0 .. Word - 1
        BY <1>3, <2>1 DEF Inv, TypeOK, CountDown
      <3> QED
        BY <3>1, <3>2, <3>3, <3>4, <3>5, <3>6, <3>7, <3>8 DEF TypeOK
    <2>3. Gesture'
      BY <1>3, <2>1 DEF Inv, TypeOK, Gesture, Pressed, CountDown, Sample
    <2>4. Countdown'
      BY <1>3, <2>1 DEF Inv, TypeOK, Countdown, Pressed, CountDown, Sample
    <2>5. Seen'
      BY <1>3, <2>1 DEF Inv, TypeOK, Seen, Pressed, CountDown, Sample
    <2> QED
      BY <2>2, <2>3, <2>4, <2>5 DEF Inv
  <1>4. ASSUME NEW input \in {"ON", "OFF"}, Expire(input) PROVE Inv'
    <2>1. state = "RELEASE" \/ (state = "CD" /\ input = "OFF")
      BY <1>4, Table DEF Expire, Sample, Inv, TypeOK
    <2>2. TypeOK'
      <3>1. invoke_flag' \in BOOLEAN
        BY <1>4, <2>1 DEF Expire, Sample
      <3>2. held' \in 0 .. 2 /\ gap' \in 0 .. TSC_CD_TIMEOUT + 1
        BY <1>4, <2>1 DEF Inv, TypeOK, Expire, Sample
      <3>3. state' \in TscState
        BY <1>4, <2>1 DEF Expire, TscState
      <3>4. event' \in {"NONE", "CLICK", "TOUCH", "HOLD", "RELEASE"}
        BY <1>4, <2>1 DEF Inv, TypeOK, Expire
      <3>5. state_cd' \in 0 .. TSC_CD_TIMEOUT
        BY <1>4, <2>1 DEF Inv, TypeOK, Expire
      <3>6. touchTime' \in 0 .. TSC_HOLD_TIMEOUT + 1
        BY <1>4, <2>1 DEF Inv, TypeOK, Expire
      <3>7. hits' \in 0 .. Word - 1
        BY <1>4, <2>1 DEF Inv, TypeOK, Expire
      <3>8. reported' \in 0 .. Word - 1
        BY <1>4, <2>1 DEF Inv, TypeOK, Expire
      <3> QED
        BY <3>1, <3>2, <3>3, <3>4, <3>5, <3>6, <3>7, <3>8 DEF TypeOK
    <2>3. Gesture'
      BY <1>4, <2>1 DEF Inv, TypeOK, Gesture, Pressed, Expire, Sample
    <2>4. Countdown'
      BY <1>4, <2>1 DEF Inv, TypeOK, Countdown, Pressed, Expire, Sample
    <2>5. Seen'
      BY <1>4, <2>1 DEF Inv, TypeOK, Seen, Pressed, Expire, Sample
    <2> QED
      BY <2>2, <2>3, <2>4, <2>5 DEF Inv
  <1>5. CASE Click
    <2>1. state \in {"IDLE", "CD"}
      BY <1>5, Table DEF Click, Sample, Inv, TypeOK
    <2>2. TypeOK'
      <3>1. invoke_flag' \in BOOLEAN
        BY <1>5, <2>1 DEF Click, Sample
      <3>2. held' \in 0 .. 2 /\ gap' \in 0 .. TSC_CD_TIMEOUT + 1
        BY <1>5, <2>1 DEF Inv, TypeOK, Click, Sample
      <3>3. state' \in TscState
        BY <1>5, <2>1 DEF Click, TscState
      <3>4. event' \in {"NONE", "CLICK", "TOUCH", "HOLD", "RELEASE"}
        BY <1>5, <2>1 DEF Inv, TypeOK, Click
      <3>5. state_cd' \in 0 .. TSC_CD_TIMEOUT
        BY <1>5, <2>1 DEF Inv, TypeOK, Click
      <3>6. touchTime' \in 0 .. TSC_HOLD_TIMEOUT + 1
        BY <1>5, <2>1 DEF Inv, TypeOK, Click
      <3>7. hits' \in 0 .. Word - 1
        BY <1>5, <2>1, OneMore DEF Inv, TypeOK, Click
      <3>8. reported' \in 0 .. Word - 1
        BY <1>5, <2>1, OneMore DEF Inv, TypeOK, Click
      <3> QED
        BY <3>1, <3>2, <3>3, <3>4, <3>5, <3>6, <3>7, <3>8 DEF TypeOK
    <2>3. Gesture'
      BY <1>5, <2>1, OneMore DEF Inv, TypeOK, Gesture, Pressed, Click, Sample
    <2>4. Countdown'
      BY <1>5, <2>1, OneMore DEF Inv, TypeOK, Countdown, Pressed, Click, Sample
    <2>5. Seen'
      BY <1>5, <2>1, OneMore DEF Inv, TypeOK, Seen, Pressed, Click, Sample
    <2> QED
      BY <2>2, <2>3, <2>4, <2>5 DEF Inv
  <1>6. CASE Touch
    <2>1. state \in Pressed
      BY <1>6, Table DEF Touch, Sample, Inv, TypeOK
    <2>2. TypeOK'
      <3>1. invoke_flag' \in BOOLEAN
        BY <1>6, <2>1 DEF Touch, Sample
      <3>2. held' \in 0 .. 2 /\ gap' \in 0 .. TSC_CD_TIMEOUT + 1
        BY <1>6, <2>1 DEF Inv, TypeOK, Touch, Sample
      <3>3. state' \in TscState
        BY <1>6, <2>1 DEF Touch, TscState
      <3>4. event' \in {"NONE", "CLICK", "TOUCH", "HOLD", "RELEASE"}
        BY <1>6, <2>1 DEF Inv, TypeOK, Touch
      <3>5. state_cd' \in 0 .. TSC_CD_TIMEOUT
        BY <1>6, <2>1 DEF Inv, TypeOK, Touch
      <3>6. touchTime' \in 0 .. TSC_HOLD_TIMEOUT + 1
        BY <1>6, <2>1 DEF Inv, TypeOK, Touch
      <3>7. hits' \in 0 .. Word - 1
        BY <1>6, <2>1 DEF Inv, TypeOK, Touch
      <3>8. reported' \in 0 .. Word - 1
        BY <1>6, <2>1 DEF Inv, TypeOK, Touch
      <3> QED
        BY <3>1, <3>2, <3>3, <3>4, <3>5, <3>6, <3>7, <3>8 DEF TypeOK
    <2>3. Gesture'
      BY <1>6, <2>1 DEF Inv, TypeOK, Gesture, Pressed, Touch, Sample
    <2>4. Countdown'
      BY <1>6, <2>1 DEF Inv, TypeOK, Countdown, Pressed, Touch, Sample
    <2>5. Seen'
      BY <1>6, <2>1 DEF Inv, TypeOK, Seen, Pressed, Touch, Sample
    <2> QED
      BY <2>2, <2>3, <2>4, <2>5 DEF Inv
  <1>7. CASE Hold
    <2>1. state \in Pressed
      BY <1>7, Table DEF Hold, Sample, Inv, TypeOK
    <2>2. TypeOK'
      <3>1. invoke_flag' \in BOOLEAN
        BY <1>7, <2>1 DEF Hold, Sample
      <3>2. held' \in 0 .. 2 /\ gap' \in 0 .. TSC_CD_TIMEOUT + 1
        BY <1>7, <2>1 DEF Inv, TypeOK, Hold, Sample
      <3>3. state' \in TscState
        BY <1>7, <2>1 DEF Hold, TscState
      <3>4. event' \in {"NONE", "CLICK", "TOUCH", "HOLD", "RELEASE"}
        BY <1>7, <2>1 DEF Inv, TypeOK, Hold
      <3>5. state_cd' \in 0 .. TSC_CD_TIMEOUT
        BY <1>7, <2>1 DEF Inv, TypeOK, Hold
      <3>6. touchTime' \in 0 .. TSC_HOLD_TIMEOUT + 1
        BY <1>7, <2>1 DEF Inv, TypeOK, Hold
      <3>7. hits' \in 0 .. Word - 1
        BY <1>7, <2>1 DEF Inv, TypeOK, Hold
      <3>8. reported' \in 0 .. Word - 1
        BY <1>7, <2>1 DEF Inv, TypeOK, Hold
      <3> QED
        BY <3>1, <3>2, <3>3, <3>4, <3>5, <3>6, <3>7, <3>8 DEF TypeOK
    <2>3. Gesture'
      BY <1>7, <2>1 DEF Inv, TypeOK, Gesture, Pressed, Hold, Sample
    <2>4. Countdown'
      BY <1>7, <2>1 DEF Inv, TypeOK, Countdown, Pressed, Hold, Sample
    <2>5. Seen'
      BY <1>7, <2>1 DEF Inv, TypeOK, Seen, Pressed, Hold, Sample
    <2> QED
      BY <2>2, <2>3, <2>4, <2>5 DEF Inv
  <1>8. CASE Release
    <2>1. state \in Pressed
      BY <1>8, Table DEF Release, Sample, Inv, TypeOK
    <2>2. TypeOK'
      <3>1. invoke_flag' \in BOOLEAN
        BY <1>8, <2>1 DEF Release, Sample
      <3>2. held' \in 0 .. 2 /\ gap' \in 0 .. TSC_CD_TIMEOUT + 1
        BY <1>8, <2>1 DEF Inv, TypeOK, Release, Sample
      <3>3. state' \in TscState
        BY <1>8, <2>1 DEF Release, TscState
      <3>4. event' \in {"NONE", "CLICK", "TOUCH", "HOLD", "RELEASE"}
        BY <1>8, <2>1 DEF Inv, TypeOK, Release
      <3>5. state_cd' \in 0 .. TSC_CD_TIMEOUT
        BY <1>8, <2>1 DEF Inv, TypeOK, Release
      <3>6. touchTime' \in 0 .. TSC_HOLD_TIMEOUT + 1
        BY <1>8, <2>1 DEF Inv, TypeOK, Release
      <3>7. hits' \in 0 .. Word - 1
        BY <1>8, <2>1 DEF Inv, TypeOK, Release
      <3>8. reported' \in 0 .. Word - 1
        BY <1>8, <2>1 DEF Inv, TypeOK, Release
      <3> QED
        BY <3>1, <3>2, <3>3, <3>4, <3>5, <3>6, <3>7, <3>8 DEF TypeOK
    <2>3. Gesture'
      BY <1>8, <2>1 DEF Inv, TypeOK, Gesture, Pressed, Release, Sample
    <2>4. Countdown'
      BY <1>8, <2>1 DEF Inv, TypeOK, Countdown, Pressed, Release, Sample
    <2>5. Seen'
      BY <1>8, <2>1 DEF Inv, TypeOK, Seen, Pressed, Release, Sample
    <2> QED
      BY <2>2, <2>3, <2>4, <2>5 DEF Inv
  <1>9. CASE UNCHANGED vars
    BY <1>9 DEF Inv, TypeOK, Gesture, Countdown, Seen, vars, sampleVars
  <1> QED
    BY <1>1, <1>2, <1>3, <1>4, <1>5, <1>6, <1>7, <1>8, <1>9 DEF Next, invoke

\* The driver keeps its inductive invariant, for all time-outs.
THEOREM Invariance == Spec => []Inv
  BY InitInv, StepInv, PTL DEF Spec

\* Every field of the driver has its type; in particular touchTime never
\* wraps and state_cd is never negative.
THEOREM TypeCorrectness == Spec => []TypeOK
  <1>1. Inv => TypeOK
    BY DEF Inv
  <1> QED BY <1>1, Invariance, PTL

\* A finger that is down for two samples is reported, whatever the table was
\* doing when it came down.
THEOREM NoPressMissed == Spec => []PressSeen
  <1>1. Inv => PressSeen
    BY DEF Inv, PressSeen, Finger!Down, Gesture, Seen, TypeOK, Pressed
  <1> QED BY <1>1, Invariance, PTL

\* A CLICK counts as a further hit exactly within the time-out.
THEOREM HitsCounted == Spec => DoubleClick
  <1>1. Inv /\ [Next]_vars =>
           [state # "CLICK" /\ state' = "CLICK" =>
               reported' = IF gap <= TSC_CD_TIMEOUT THEN (reported + 1) % Word ELSE 1]_vars
    <2> SUFFICES ASSUME Inv, Next, state # "CLICK", state' = "CLICK"
                 PROVE reported' = IF gap <= TSC_CD_TIMEOUT THEN (reported + 1) % Word ELSE 1
      OBVIOUS
    <2>1. Click
      BY DEF Next, invoke, tim_it_handle, sampleVars, Idle, CountDown, Expire, Touch, Hold, Release
    <2>2. state \in {"IDLE", "CD"}
      BY <2>1, Table DEF Click, Sample, Inv, TypeOK
    <2> QED
      BY <2>1, <2>2, OneMore, Tsc2046Assumption DEF Click, Inv, TypeOK, Countdown
  <1> QED BY <1>1, Invariance, PTL DEF Spec, DoubleClick

\* The driver implements Clicks, for all time-outs: each sample is an event
\* of the gesture or changes nothing the listeners see.
THEOREM Refinement == Spec => KeepsPromise
  <1> USE Tsc2046Assumption DEF Finger!Down
  <1>1. Init => Finger!Init
    BY DEF Init, Finger!Init
  <1>2. Inv /\ [Next]_vars =>
           [Finger!Next]_<<event, reported, TSC_HOLD_TIMEOUT + 1 - touchTime>>
    <2> SUFFICES ASSUME Inv, [Next]_vars
                 PROVE [Finger!Next]_<<event, reported, TSC_HOLD_TIMEOUT + 1 - touchTime>>
      OBVIOUS
    <2>1. CASE Click
      <3>1. state \in {"IDLE", "CD"}
        BY <2>1, Table DEF Click, Sample, Inv, TypeOK
      <3>2. Finger!Click
        BY <2>1, <3>1, OneMore DEF Click, Finger!Click, Inv, TypeOK, Gesture,
             Countdown, Pressed
      <3> QED BY <3>2 DEF Finger!Next
    <2>2. CASE Touch
      <3>1. Finger!Touch
        BY <2>2, Table DEF Touch, Sample, Finger!Touch, Inv, TypeOK, Gesture,
             Countdown, Pressed
      <3> QED BY <3>1 DEF Finger!Next
    <2>3. CASE Hold
      <3>1. Finger!Hold
        BY <2>3, Table DEF Hold, Sample, Finger!Hold, Inv, TypeOK, Gesture,
             Countdown, Pressed
      <3> QED BY <3>1 DEF Finger!Next
    <2>4. CASE Release
      <3>1. Finger!Release
        BY <2>4, Table DEF Release, Sample, Finger!Release, Inv, TypeOK, Gesture,
             Countdown, Pressed
      <3> QED BY <3>1 DEF Finger!Next
    <2>5. CASE UNCHANGED <<event, reported, touchTime>>
      BY <2>5
    <2> QED
      BY <2>1, <2>2, <2>3, <2>4, <2>5
      DEF Next, invoke, tim_it_handle, sampleVars, vars, Idle, CountDown, Expire
  <1> QED BY <1>1, <1>2, Invariance, PTL DEF Spec, KeepsPromise, Finger!Spec

=============================================================================
