------------------------------ MODULE Tsc2046 ------------------------------
(***************************************************************************)
(* The state machine of the touch driver, tsc2046Drv::invoke of            *)
(* device/src/tsc2046.cpp: one sample of the sensor per interrupt of       *)
(* TIM3, a table of states, and the events fired to the listeners.  The    *)
(* position is left out: it is read in CLICK and TOUCH and only passed on. *)
(***************************************************************************)
EXTENDS Integers

CONSTANTS TSC_CD_TIMEOUT,     \* 1: samples that may separate two hits
          TSC_HOLD_TIMEOUT,   \* 20: samples before the first HOLD
          Word                \* 2^16, the width of uint16_t

ASSUME Tsc2046Assumption ==
    /\ TSC_CD_TIMEOUT \in Nat
    /\ TSC_HOLD_TIMEOUT \in Nat
    /\ Word \in Nat
    /\ Word > TSC_HOLD_TIMEOUT + 1
    /\ Word > 1

VARIABLES invoke_flag,   \* a sample is due
          state,
          state_cd,
          hits,          \* point->hits
          touchTime,
          event,         \* the last event fired
          reported,      \* __point.hits, the hits the listeners see
          gap,           \* history: samples since the last RELEASE, as far
                         \* as TSC_CD_TIMEOUT + 1
          held           \* history: consecutive samples with the finger
                         \* down, as far as 2

sampleVars == <<state, state_cd, hits, touchTime, event, reported, gap, held>>

vars == <<invoke_flag, sampleVars>>

TscState == {"IDLE", "CD", "CLICK", "TOUCH", "RELEASE"}

tsc_state_CdDeaf ==
    [ON  |-> [IDLE |-> "CLICK", CD |-> "CD", CLICK |-> "TOUCH",
              TOUCH |-> "TOUCH", RELEASE |-> "CD"],
     OFF |-> [IDLE |-> "IDLE", CD |-> "CD", CLICK |-> "RELEASE",
              TOUCH |-> "RELEASE", RELEASE |-> "CD"]]

tsc_state ==
    [ON  |-> [IDLE |-> "CLICK", CD |-> "CLICK", CLICK |-> "TOUCH",
              TOUCH |-> "TOUCH", RELEASE |-> "CD"],
     OFF |-> [IDLE |-> "IDLE", CD |-> "CD", CLICK |-> "RELEASE",
              TOUCH |-> "RELEASE", RELEASE |-> "CD"]]

Init ==
    /\ invoke_flag = TRUE
    /\ state = "IDLE"
    /\ state_cd = 0
    /\ hits = 0
    /\ touchTime = 0
    /\ event = "NONE"
    /\ reported = 0
    /\ gap = TSC_CD_TIMEOUT + 1
    /\ held = 0

-----------------------------------------------------------------------------
\* tim_it_handle, from the interrupt of TIM3.  Ticks that find the flag set
\* are lost with their sample.
tim_it_handle ==
    /\ ~invoke_flag
    /\ invoke_flag' = TRUE
    /\ UNCHANGED sampleVars

\* invoke takes a sample, input, that leads to state s.
Sample(input, s) ==
    /\ invoke_flag
    /\ invoke_flag' = FALSE
    /\ s = tsc_state[input][state]
    /\ held' = IF input = "OFF" THEN 0 ELSE IF held < 2 THEN held + 1 ELSE 2
    /\ gap' = IF s = "RELEASE" THEN 0 ELSE IF gap <= TSC_CD_TIMEOUT THEN gap + 1 ELSE gap

Idle ==
    /\ Sample("OFF", "IDLE")
    /\ state' = "IDLE"
    /\ state_cd' = TSC_CD_TIMEOUT
    /\ UNCHANGED <<hits, touchTime, event, reported>>

\* After a RELEASE: the time for the next hit runs.
CountDown(input) ==
    /\ Sample(input, "CD")
    /\ state_cd > 0
    /\ state' = "CD"
    /\ state_cd' = state_cd - 1
    /\ UNCHANGED <<hits, touchTime, event, reported>>

\* ... and is over.
Expire_HitsKept(input) ==
    /\ Sample(input, "CD")
    /\ state_cd <= 0
    /\ state' = "IDLE"
    /\ state_cd' = TSC_CD_TIMEOUT
    /\ UNCHANGED <<hits, touchTime, event, reported>>

Expire(input) ==
    /\ Sample(input, "CD")
    /\ state_cd <= 0
    /\ state' = "IDLE"
    /\ state_cd' = TSC_CD_TIMEOUT
    /\ hits' = 0
    /\ UNCHANGED <<touchTime, event, reported>>

Click ==
    /\ Sample("ON", "CLICK")
    /\ state' = "CLICK"
    /\ state_cd' = TSC_CD_TIMEOUT
    /\ hits' = (hits + 1) % Word
    /\ event' = "CLICK"
    /\ reported' = hits'
    /\ UNCHANGED touchTime

Touch_Late ==
    /\ Sample("ON", "TOUCH")
    /\ touchTime <= TSC_HOLD_TIMEOUT + 1
    /\ state' = "TOUCH"
    /\ touchTime' = (touchTime + 1) % Word
    /\ event' = "TOUCH"
    /\ reported' = hits
    /\ UNCHANGED <<state_cd, hits>>

Touch ==
    /\ Sample("ON", "TOUCH")
    /\ touchTime <= TSC_HOLD_TIMEOUT
    /\ state' = "TOUCH"
    /\ touchTime' = (touchTime + 1) % Word
    /\ event' = "TOUCH"
    /\ reported' = hits
    /\ UNCHANGED <<state_cd, hits>>

Hold ==
    /\ Sample("ON", "TOUCH")
    /\ touchTime > TSC_HOLD_TIMEOUT
    /\ state' = "TOUCH"
    /\ touchTime' = TSC_HOLD_TIMEOUT - (IF TSC_HOLD_TIMEOUT > 1 THEN 1 ELSE 0)
    /\ event' = "HOLD"
    /\ reported' = hits
    /\ UNCHANGED <<state_cd, hits>>

\* The point is not copied: the listeners get the one of the last touch.
Release_TimeKept ==
    /\ Sample("OFF", "RELEASE")
    /\ state' = "RELEASE"
    /\ event' = "RELEASE"
    /\ UNCHANGED <<state_cd, hits, touchTime, reported>>

Release ==
    /\ Sample("OFF", "RELEASE")
    /\ state' = "RELEASE"
    /\ touchTime' = 0
    /\ event' = "RELEASE"
    /\ UNCHANGED <<state_cd, hits, reported>>

invoke ==
    \/ \E input \in {"ON", "OFF"} : CountDown(input) \/ Expire(input)
    \/ Idle \/ Click \/ Touch \/ Hold \/ Release

Next == tim_it_handle \/ invoke

Spec == Init /\ [][Next]_vars

-----------------------------------------------------------------------------
\* Types; state_cd is tested for < 0 only after it was decremented.
TypeOK ==
    /\ invoke_flag \in BOOLEAN
    /\ state \in TscState
    /\ state_cd \in 0 .. TSC_CD_TIMEOUT
    /\ hits \in 0 .. Word - 1
    /\ touchTime \in 0 .. TSC_HOLD_TIMEOUT + 1
    /\ event \in {"NONE", "CLICK", "TOUCH", "HOLD", "RELEASE"}
    /\ reported \in 0 .. Word - 1
    /\ gap \in 0 .. TSC_CD_TIMEOUT + 1
    /\ held \in 0 .. 2

Finger == INSTANCE Clicks WITH
    HoldAfter <- TSC_HOLD_TIMEOUT + 1,
    HoldEvery <- IF TSC_HOLD_TIMEOUT > 1 THEN 2 ELSE 1,
    hits <- reported,
    left <- TSC_HOLD_TIMEOUT + 1 - touchTime

\* The events keep the promise of Clicks: the table, the hold counter and the
\* static copy of the point work together.
KeepsPromise == Finger!Spec

\* No press is missed: the sample after a RELEASE is spent whatever it shows,
\* but a finger that is down for two samples in a row is reported as down,
\* and one that is up is reported as up at once.
PressSeen ==
    /\ held = 2 => event \in Finger!Down
    /\ held = 0 => event \notin Finger!Down

\* A CLICK counts as one more hit exactly when at most TSC_CD_TIMEOUT samples
\* lie between it and the last RELEASE; any later one is the first again.
\* (The plotter of the oscilloscope reacts to hits > 1.)
DoubleClick ==
    [][state # "CLICK" /\ state' = "CLICK" =>
          reported' = IF gap <= TSC_CD_TIMEOUT THEN (reported + 1) % Word ELSE 1]_vars

=============================================================================
