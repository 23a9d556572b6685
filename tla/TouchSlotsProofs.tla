-------------------------- MODULE TouchSlotsProofs --------------------------
(***************************************************************************)
(* The touch slots for any number of windows, any calls between them and   *)
(* any number of events.  The sensor thread stores the events in their     *)
(* order, so each member of a slot holds the last event stored there or    *)
(* has been cleared.  The window resets the cause each time it has acted   *)
(* and a cause that comes back is later; the position it copied is at most *)
(* one event ahead of the cause, and behind it only if the sensor thread   *)
(* has come since.                                                         *)
(***************************************************************************)
EXTENDS TouchSlots, TLAPS

\* The last event whose position, and the last whose cause, is in w's slot.
PointStored(w) ==
    slot = 0 \/ \E i \in 1 .. slot : Slots[i] = w /\ (i < slot \/ store # "point")

CauseStored(w) ==
    slot = 0 \/ \E i \in 1 .. slot : Slots[i] = w /\ (i < slot \/ store = "flag")

LastPoint(w) == IF PointStored(w) THEN fired ELSE fired - 1

LastCause(w) == IF CauseStored(w) THEN fired ELSE fired - 1

Clearing == pc \in {"clearPoint", "clearFlag", "clearCause"}

\* What the sensor thread leaves in the slots, and what is known of the past.
Slot ==
    /\ slot = 0 => store = "point"
    /\ slot # 0 => fired > 0
    /\ taken <= OutOfHands
    /\ \A w \in Window :
          /\ point[w] \in {0, LastPoint(w)}
          /\ event[w] \in {SENSOR_ANY, LastCause(w)}
          /\ acted[w] <= LastCause(w)
          /\ since[w] <= OutOfHands

\* A window that has not acted since it emptied its slot.
Unacted ==
    pc \in {"start", "loop", "take", "copy", "fire"} /\ event[Active] # SENSOR_ANY =>
        event[Active] > acted[Active] /\ event[Active] > since[Active]

\* A position is missing in a slot only until the next but one event.
Missing ==
    \A w \in Window :
        \/ point[w] = 0 => LastPoint(w) <= since[w] + 1
        \/ w = Active /\ pc \in {"clearFlag", "clearCause"}

\* The position that goes with the cause.
Copied ==
    pc = "fire" =>
        /\ tpoint[Active] <= LastPoint(Active)
        /\ tpoint[Active] < taken => tpoint[Active] = 0 /\ taken <= since[Active] + 1

\* The window that is being opened has no listener yet, every other one of
\* the chain has one.
Opening == pc = "start" \/ (Clearing /\ then = "start")

Listening ==
    ~reentered =>
        /\ IsInjective(chain)
        /\ \A w \in Window : listeners[w] =
              IF w \in ToSet(chain) /\ ~ (w = Active /\ Opening) THEN 1 ELSE 0

\* The inductive invariant.
Inv == TypeOK /\ Slot /\ Unacted /\ Missing /\ Copied /\ Listening

-----------------------------------------------------------------------------
LEMMA WindowFacts ==
    /\ Len(Slots) \in Nat \ {0}
    /\ \A i \in 1 .. Len(Slots) : Slots[i] \in Window
    /\ \A w \in Window : \E i \in 1 .. Len(Slots) : Slots[i] = w
    /\ \A i, j \in 1 .. Len(Slots) : Slots[i] = Slots[j] => i = j
    /\ Main \in Window
  <1>1. Slots \in Seq(Window) /\ Slots # <<>> /\ DOMAIN Slots = 1 .. Len(Slots)
    BY TouchAssumption DEF Window
  <1>2. Len(Slots) \in Nat \ {0}
    BY <1>1
  <1>3. \A i \in 1 .. Len(Slots) : Slots[i] \in Window
    BY <1>1 DEF Window, ToSet
  <1>4. \A w \in Window : \E i \in 1 .. Len(Slots) : Slots[i] = w
    BY <1>1 DEF Window, ToSet
  <1>5. \A i, j \in 1 .. Len(Slots) : Slots[i] = Slots[j] => i = j
    BY <1>1, TouchAssumption DEF IsInjective
  <1> QED
    BY <1>2, <1>3, <1>4, <1>5 DEF Main

LEMMA ActiveFacts ==
    ASSUME TypeOK
    PROVE  /\ Len(chain) \in Nat \ {0}
           /\ Active = chain[Len(chain)]
           /\ Active \in Window
           /\ Active \in ToSet(chain)
  BY DEF TypeOK, Active, Last, ToSet

\* The three counts of events differ by one at most.
LEMMA Counts ==
    ASSUME TypeOK, Slot, NEW w \in Window
    PROVE  /\ LastPoint(w) \in Nat /\ LastCause(w) \in Nat /\ OutOfHands \in Nat
           /\ OutOfHands <= LastCause(w)
           /\ LastCause(w) <= LastPoint(w)
           /\ LastPoint(w) <= OutOfHands + 1
           /\ LastPoint(w) <= fired
           /\ OutOfHands <= fired
           /\ fired \in Nat
           /\ OutOfHands \in 0 .. MaxEvents
  <1>1. CauseStored(w) => PointStored(w)
    BY DEF CauseStored, PointStored, TypeOK
  <1>2. slot = 0 => CauseStored(w)
    BY DEF CauseStored
  <1>3. fired \in Nat /\ (slot # 0 => fired - 1 \in Nat)
    BY DEF TypeOK, Slot
  <1>4. fired \in 0 .. MaxEvents /\ MaxEvents \in Nat
    BY TouchAssumption DEF TypeOK
  <1> QED
    BY <1>1, <1>2, <1>3, <1>4 DEF LastPoint, LastCause, OutOfHands

LEMMA InitInv == Init => Inv
  <1> SUFFICES ASSUME Init PROVE Inv
    OBVIOUS
  <1> USE WindowFacts, TouchAssumption DEF Init
  <1>1. TypeOK
    <2>1. MaxEvents \in Nat /\ SENSOR_ANY = -1
      BY DEF SENSOR_ANY
    <2>2. chain \in Seq(Window) /\ chain # <<>>
      OBVIOUS
    <2>3. event \in [Window -> 1 .. MaxEvents \cup {SENSOR_ANY}]
      OBVIOUS
    <2>4. listeners \in [Window -> Nat]
      OBVIOUS
    <2>5. /\ point \in [Window -> 0 .. MaxEvents] /\ tpoint \in [Window -> 0 .. MaxEvents]
          /\ acted \in [Window -> 0 .. MaxEvents] /\ since \in [Window -> 0 .. MaxEvents]
          /\ taken \in 0 .. MaxEvents /\ fired \in 0 .. MaxEvents /\ slot \in 0 .. Len(Slots)
      BY <2>1
    <2>6. /\ hasInvoke \in [Window -> BOOLEAN] /\ reentered \in BOOLEAN
          /\ store = "point" /\ pc = "loop" /\ then = "loop"
      OBVIOUS
    <2> HIDE DEF Init
    <2> QED
      BY <2>1, <2>2, <2>3, <2>4, <2>5, <2>6 DEF TypeOK
  <1>2. Active = Main /\ ToSet(chain) = {Main}
    BY DEF Active, Last, ToSet
  <1>3. Slot
    BY DEF Slot, OutOfHands, LastPoint, LastCause, PointStored, CauseStored
  <1>4. Unacted /\ Copied
    BY <1>2 DEF Unacted, Copied
  <1>6. Missing
    <2>1. \A w \in Window : LastPoint(w) = 0 /\ since[w] = 0
      BY DEF LastPoint, PointStored
    <2> QED
      BY <2>1 DEF Missing
  <1>5. Listening
    BY <1>2 DEF Listening, IsInjective, Opening, Clearing
  <1> QED
    BY <1>1, <1>3, <1>4, <1>5, <1>6 DEF Inv

-----------------------------------------------------------------------------
(***************************************************************************)
(* The sensor thread.                                                      *)
(***************************************************************************)

\* The next event changes no count yet.
LEMMA FireCounts ==
    ASSUME TypeOK, Slot, Fire
    PROVE  /\ OutOfHands' = OutOfHands
           /\ \A w \in Window : LastPoint(w)' = LastPoint(w) /\ LastCause(w)' = LastCause(w)
  <1>1. slot = 0 /\ slot' = 1 /\ store = "point" /\ store' = "point" /\ fired' = fired + 1
        /\ fired \in Nat
    BY DEF Fire, Slot, TypeOK
  <1>2. \A w \in Window : ~ PointStored(w)' /\ ~ CauseStored(w)'
    BY <1>1 DEF PointStored, CauseStored
  <1>3. \A w \in Window : PointStored(w) /\ CauseStored(w)
    BY <1>1 DEF PointStored, CauseStored
  <1> QED
    BY <1>1, <1>2, <1>3 DEF LastPoint, LastCause, OutOfHands

\* A store counts for the window whose slot it is.
LEMMA SetPointCounts ==
    ASSUME TypeOK, Slot, SetPoint
    PROVE  /\ OutOfHands' = OutOfHands
           /\ Slots[slot] \in Window
           /\ \A w \in Window : LastCause(w)' = LastCause(w)
           /\ \A w \in Window :
                 LastPoint(w)' = IF w = Slots[slot] THEN fired ELSE LastPoint(w)
  <1>1. /\ slot \in 1 .. Len(Slots) /\ slot' = slot /\ store = "point" /\ store' = "event"
        /\ fired' = fired
    BY WindowFacts DEF SetPoint, TypeOK
  <1>2. \A w \in Window : CauseStored(w)' <=> CauseStored(w)
    BY <1>1 DEF CauseStored
  <1>3. PointStored(Slots[slot])'
    BY <1>1 DEF PointStored
  <1>4. \A w \in Window \ {Slots[slot]} : PointStored(w)' <=> PointStored(w)
    BY <1>1 DEF PointStored
  <1> QED
    BY <1>1, <1>2, <1>3, <1>4, WindowFacts DEF LastPoint, LastCause, OutOfHands

\* Each slot gets each event once, so its cause is a new one.
LEMMA SetCauseCounts ==
    ASSUME TypeOK, Slot, SetCause
    PROVE  /\ OutOfHands' = OutOfHands
           /\ Slots[slot] \in Window
           /\ \A w \in Window : LastPoint(w)' = LastPoint(w)
           /\ LastCause(Slots[slot])' = fired
           /\ LastCause(Slots[slot]) = fired - 1 /\ OutOfHands = fired - 1
           /\ \A w \in Window \ {Slots[slot]} : LastCause(w)' = LastCause(w)
  <1>1. /\ slot \in 1 .. Len(Slots) /\ slot' = slot /\ store = "event" /\ store' = "flag"
        /\ fired' = fired
    BY WindowFacts DEF SetCause, Slot, TypeOK
  <1>2. \A w \in Window : PointStored(w)' <=> PointStored(w)
    BY <1>1 DEF PointStored
  <1>3. CauseStored(Slots[slot])'
    BY <1>1 DEF CauseStored
  <1>4. ~ CauseStored(Slots[slot])
    BY <1>1, WindowFacts DEF CauseStored
  <1>5. \A w \in Window \ {Slots[slot]} : CauseStored(w)' <=> CauseStored(w)
    BY <1>1 DEF CauseStored
  <1> QED
    BY <1>1, <1>2, <1>3, <1>4, <1>5, WindowFacts DEF LastPoint, LastCause, OutOfHands

LEMMA SetFlagCounts ==
    ASSUME TypeOK, Slot, SetFlag
    PROVE  /\ OutOfHands <= OutOfHands' /\ OutOfHands' \in Nat
           /\ slot' \in 0 .. Len(Slots) /\ slot # 0
           /\ \A w \in Window : LastPoint(w)' = LastPoint(w) /\ LastCause(w)' = LastCause(w)
  <1>1. /\ slot \in 1 .. Len(Slots) /\ store = "flag" /\ store' = "point"
        /\ fired' = fired /\ fired \in Nat \ {0}
        /\ slot' = IF slot = Len(Slots) THEN 0 ELSE slot + 1
    BY WindowFacts DEF SetFlag, Slot, TypeOK
  <1>2. CASE slot = Len(Slots)
    <2>1. \A w \in Window : \E i \in 1 .. slot : Slots[i] = w
      BY <1>2, WindowFacts
    <2>2. \A w \in Window : PointStored(w) /\ CauseStored(w)
      BY <1>1, <2>1 DEF PointStored, CauseStored
    <2>3. \A w \in Window : PointStored(w)' /\ CauseStored(w)'
      BY <1>1, <1>2 DEF PointStored, CauseStored
    <2> QED
      BY <1>1, <1>2, <2>2, <2>3, WindowFacts DEF LastPoint, LastCause, OutOfHands
  <1>3. CASE slot # Len(Slots)
    <2>1. slot' = slot + 1 /\ slot' # 0 /\ slot' \in 0 .. Len(Slots)
      BY <1>1, <1>3, WindowFacts
    <2>2. \A i \in 1 .. slot' : i < slot' <=> i \in 1 .. slot
      BY <1>1, <2>1, WindowFacts
    <2>3. \A w \in Window :
              /\ PointStored(w) <=> \E i \in 1 .. slot : Slots[i] = w
              /\ PointStored(w)' <=> \E i \in 1 .. slot : Slots[i] = w
      BY <1>1, <2>1, <2>2 DEF PointStored
    <2>4. \A w \in Window :
              /\ CauseStored(w) <=> \E i \in 1 .. slot : Slots[i] = w
              /\ CauseStored(w)' <=> \E i \in 1 .. slot : Slots[i] = w
      BY <1>1, <2>1, <2>2 DEF CauseStored
    <2> QED
      BY <1>1, <2>1, <2>3, <2>4 DEF LastPoint, LastCause, OutOfHands
  <1> QED
    BY <1>2, <1>3

LEMMA StepFire == ASSUME Inv, Fire PROVE Inv'
  <1> USE DEF Inv
  <1>1. /\ fired' = fired + 1 /\ slot' = 1 /\ store = "point" /\ fired \in Nat
        /\ UNCHANGED <<point, event, hasInvoke, tpoint, listeners, store, chain, pc, then,
                       acted, since, taken, reentered>>
    BY DEF Fire, Slot, slotVars, historyVars, TypeOK
  <1>2. OutOfHands' = OutOfHands /\ Active' = Active
        /\ \A w \in Window : LastPoint(w)' = LastPoint(w) /\ LastCause(w)' = LastCause(w)
    BY <1>1, FireCounts DEF Active
  <1>3. TypeOK'
    <2>1. fired' \in 0 .. MaxEvents /\ slot' \in 0 .. Len(Slots)
      BY <1>1, WindowFacts, TouchAssumption DEF TypeOK, Fire
    <2> HIDE DEF Inv
    <2>2. TypeOK
      BY DEF Inv
    <2> QED
      BY <1>1, <2>1, <2>2 DEF TypeOK
  <1>4. Slot'
    BY <1>1, <1>2 DEF Slot
  <1>5. Unacted' /\ Missing' /\ Listening'
    BY <1>1, <1>2 DEF Unacted, Missing, Listening, Opening, Clearing
  <1>6. Copied'
    BY <1>1, <1>2, ActiveFacts DEF Copied
  <1> QED
    BY <1>3, <1>4, <1>5, <1>6

LEMMA StepSetPoint == ASSUME Inv, SetPoint PROVE Inv'
  <1> USE DEF Inv
  <1> DEFINE v == Slots[slot]
  <1>1. /\ slot # 0 /\ store' = "event" /\ point' = [point EXCEPT ![v] = fired]
        /\ UNCHANGED <<event, hasInvoke, tpoint, listeners, fired, slot, chain, pc, then,
                       acted, since, taken, reentered>>
    BY DEF SetPoint, historyVars
  <1>2. /\ OutOfHands' = OutOfHands /\ Active' = Active /\ v \in Window
        /\ \A w \in Window : LastCause(w)' = LastCause(w)
        /\ \A w \in Window : LastPoint(w)' = IF w = v THEN fired ELSE LastPoint(w)
        /\ \A w \in Window : LastPoint(w) <= LastPoint(w)'
    BY <1>1, SetPointCounts, Counts DEF Active
  <1>3. TypeOK'
    BY <1>1, <1>2 DEF TypeOK
  <1>4. point'[v] = fired /\ (\A w \in Window \ {v} : point'[w] = point[w]) /\ fired > 0
    BY <1>1, <1>2 DEF Slot, TypeOK
  <1>5. Slot'
    BY <1>1, <1>2, <1>4 DEF Slot
  <1>6. Unacted' /\ Listening'
    BY <1>1, <1>2 DEF Unacted, Listening, Opening, Clearing
  <1>7. Missing'
    BY <1>1, <1>2, <1>4 DEF Missing
  <1>8. Copied'
    <2>1. /\ tpoint[Active] \in Nat /\ LastPoint(Active) \in Nat /\ LastPoint(Active)' \in Nat
          /\ LastPoint(Active) <= LastPoint(Active)'
      <3>1. Active \in Window /\ LastPoint(Active) \in Nat /\ fired \in Nat
        BY ActiveFacts, Counts
      <3>2. LastPoint(Active)' = IF Active = v THEN fired ELSE LastPoint(Active)
        BY <1>2, <3>1
      <3>3. tpoint[Active] \in Nat
        BY <3>1, TouchAssumption DEF TypeOK
      <3>4. LastPoint(Active) <= LastPoint(Active)'
        BY <1>2, <3>1
      <3> QED
        BY <3>1, <3>2, <3>3, <3>4
    <2> HIDE DEF Inv, v
    <2>2. Copied
      BY DEF Inv
    <2> QED
      BY <1>1, <1>2, <2>1, <2>2 DEF Copied
  <1> QED
    BY <1>3, <1>5, <1>6, <1>7, <1>8

LEMMA StepSetCause == ASSUME Inv, SetCause PROVE Inv'
  <1> USE DEF Inv
  <1> DEFINE v == Slots[slot]
  <1>1. /\ store = "event" /\ store' = "flag" /\ event' = [event EXCEPT ![v] = fired]
        /\ slot # 0 /\ fired > 0 /\ fired \in Nat
        /\ UNCHANGED <<point, hasInvoke, tpoint, listeners, fired, slot, chain, pc, then,
                       acted, since, taken, reentered>>
    BY DEF SetCause, historyVars, Slot, TypeOK
  <1>2. /\ OutOfHands' = OutOfHands /\ Active' = Active /\ v \in Window
        /\ \A w \in Window : LastPoint(w)' = LastPoint(w)
        /\ LastCause(v)' = fired /\ LastCause(v) = fired - 1 /\ OutOfHands = fired - 1
        /\ \A w \in Window \ {v} : LastCause(w)' = LastCause(w)
    BY <1>1, SetCauseCounts DEF Active
  <1>3. TypeOK'
    <2>1. fired \in 1 .. MaxEvents
      BY <1>1, TouchAssumption DEF TypeOK
    <2>2. event' \in [Window -> 1 .. MaxEvents \cup {SENSOR_ANY}]
      BY <1>1, <1>2, <2>1 DEF TypeOK
    <2> HIDE DEF Inv
    <2>3. TypeOK
      BY DEF Inv
    <2> QED
      BY <1>1, <2>2, <2>3 DEF TypeOK
  <1>4. event'[v] = fired /\ \A w \in Window \ {v} : event'[w] = event[w]
    BY <1>1, <1>2 DEF TypeOK
  <1>5. /\ acted[v] \in Nat /\ since[v] \in Nat
        /\ acted[v] <= fired - 1 /\ since[v] <= fired - 1
    <2>1. acted[v] \in Nat /\ since[v] \in Nat
      BY <1>2, TouchAssumption DEF TypeOK
    <2>2. acted[v] <= LastCause(v) /\ since[v] <= OutOfHands
      BY <1>2 DEF Slot
    <2> QED
      BY <1>2, <2>1, <2>2
  <1>6. Slot'
    BY <1>1, <1>2, <1>4, <1>5 DEF Slot
  <1>7. Unacted'
    BY <1>1, <1>2, <1>4, <1>5, ActiveFacts DEF Unacted
  <1>8. Missing' /\ Copied' /\ Listening'
    BY <1>1, <1>2, ActiveFacts DEF Missing, Copied, Listening, Opening, Clearing
  <1> QED
    BY <1>3, <1>6, <1>7, <1>8

LEMMA StepSetFlag == ASSUME Inv, SetFlag PROVE Inv'
  <1> USE DEF Inv
  <1>1. /\ store = "flag" /\ store' = "point"
        /\ hasInvoke' = [hasInvoke EXCEPT ![Slots[slot]] = TRUE]
        /\ UNCHANGED <<point, event, tpoint, listeners, fired, chain, pc, then,
                       acted, since, taken, reentered>>
    BY DEF SetFlag, historyVars
  <1>2. /\ OutOfHands <= OutOfHands' /\ OutOfHands' \in Nat /\ Active' = Active
        /\ slot' \in 0 .. Len(Slots) /\ slot # 0
        /\ \A w \in Window : LastPoint(w)' = LastPoint(w) /\ LastCause(w)' = LastCause(w)
    BY <1>1, SetFlagCounts DEF Active
  <1>3. TypeOK'
    <2> HIDE DEF Inv
    <2>1. TypeOK
      BY DEF Inv
    <2>2. hasInvoke' \in [Window -> BOOLEAN] /\ store' \in {"point", "event", "flag"}
      BY <1>1, <2>1 DEF TypeOK
    <2>3. fired' \in 0 .. MaxEvents /\ slot' \in 0 .. Len(Slots)
      BY <1>1, <1>2, <2>1 DEF TypeOK
    <2> HIDE <1>2
    <2> QED
      BY <1>1, <2>1, <2>2, <2>3 DEF TypeOK
  <1>4. Slot'
    <2>1. taken \in Nat /\ OutOfHands \in Nat /\ \A w \in Window : since[w] \in Nat
      <3> HIDE DEF Inv
      <3>1. TypeOK /\ Slot
        BY DEF Inv
      <3>2. OutOfHands \in Nat
        BY <3>1, WindowFacts, Counts
      <3> QED
        BY <3>1, <3>2 DEF TypeOK
    <2>2. taken <= OutOfHands' /\ \A w \in Window : since[w] <= OutOfHands'
      BY <1>2, <2>1 DEF Slot
    <2> QED
      BY <1>1, <1>2, <2>2 DEF Slot
  <1>5. Unacted' /\ Missing' /\ Copied' /\ Listening'
    BY <1>1, <1>2, ActiveFacts DEF Unacted, Missing, Copied, Listening, Opening, Clearing
  <1> QED
    BY <1>3, <1>4, <1>5

-----------------------------------------------------------------------------
(***************************************************************************)
(* The window that runs.                                                   *)
(***************************************************************************)

\* The counts are the sensor thread's alone.
LEMMA SensorStill ==
    ASSUME UNCHANGED sensorVars
    PROVE  /\ OutOfHands' = OutOfHands
           /\ \A w \in Window : LastPoint(w)' = LastPoint(w) /\ LastCause(w)' = LastCause(w)
  BY DEF sensorVars, OutOfHands, LastPoint, LastCause, PointStored, CauseStored

\* The chain stays, so does the window that runs.
LEMMA ChainStill ==
    ASSUME UNCHANGED chain
    PROVE  Active' = Active
  BY DEF Active

LEMMA StepTestFlag == ASSUME Inv, TestFlag PROVE Inv'
  <1> USE DEF Inv
  <1>1. /\ pc = "loop" /\ pc' = "take"
        /\ UNCHANGED <<point, event, hasInvoke, tpoint, listeners, fired, slot, store, chain,
                       then, acted, since, taken, reentered>>
    BY DEF TestFlag, Goto, slotVars, sensorVars, historyVars
  <1>2. /\ OutOfHands' = OutOfHands /\ Active' = Active
        /\ \A w \in Window : LastPoint(w)' = LastPoint(w) /\ LastCause(w)' = LastCause(w)
    BY <1>1, SensorStill, ChainStill DEF sensorVars
  <1>3. TypeOK'
    BY <1>1 DEF TypeOK
  <1>4. Slot'
    BY <1>1, <1>2 DEF Slot
  <1>5. Unacted' /\ Missing' /\ Copied' /\ Listening'
    BY <1>1, <1>2 DEF Unacted, Missing, Copied, Listening, Opening, Clearing
  <1> QED
    BY <1>3, <1>4, <1>5

LEMMA StepTakeFlag == ASSUME Inv, TakeFlag PROVE Inv'
  <1> USE DEF Inv
  <1>1. /\ pc = "take" /\ pc' = "copy" /\ taken' = OutOfHands
        /\ hasInvoke' = [hasInvoke EXCEPT ![Active] = FALSE]
        /\ UNCHANGED <<point, event, tpoint, listeners, fired, slot, store, chain,
                       then, acted, since, reentered>>
    BY DEF TakeFlag, Goto, sensorVars
  <1>2. /\ OutOfHands' = OutOfHands /\ Active' = Active
        /\ \A w \in Window : LastPoint(w)' = LastPoint(w) /\ LastCause(w)' = LastCause(w)
    BY <1>1, SensorStill, ChainStill DEF sensorVars
  <1>3. TypeOK'
    <2>1. OutOfHands \in 0 .. MaxEvents
      BY ActiveFacts, Counts
    <2> HIDE DEF Inv
    <2>2. TypeOK
      BY DEF Inv
    <2> QED
      BY <1>1, <2>1, <2>2 DEF TypeOK
  <1>4. Slot'
    <2>1. OutOfHands <= OutOfHands
      BY ActiveFacts, Counts
    <2> QED
      BY <1>1, <1>2, <2>1 DEF Slot
  <1>5. Unacted' /\ Missing' /\ Copied' /\ Listening'
    BY <1>1, <1>2 DEF Unacted, Missing, Copied, Listening, Opening, Clearing
  <1> QED
    BY <1>3, <1>4, <1>5

\* A position that is missing is not older than the event that was taken.
LEMMA StepCopyPoint == ASSUME Inv, CopyPoint PROVE Inv'
  <1> USE DEF Inv
  <1>1. /\ pc = "copy" /\ pc' = "fire"
        /\ tpoint' = [tpoint EXCEPT ![Active] = point[Active]]
        /\ UNCHANGED <<point, event, hasInvoke, listeners, fired, slot, store, chain,
                       then, acted, since, taken, reentered>>
    BY DEF CopyPoint, Goto, sensorVars, historyVars
  <1>2. /\ OutOfHands' = OutOfHands /\ Active' = Active
        /\ \A w \in Window : LastPoint(w)' = LastPoint(w) /\ LastCause(w)' = LastCause(w)
    BY <1>1, SensorStill, ChainStill DEF sensorVars
  <1>3. TypeOK' /\ tpoint'[Active] = point[Active]
    BY <1>1, ActiveFacts DEF TypeOK
  <1>4. Slot'
    BY <1>1, <1>2 DEF Slot
  <1>5. Unacted' /\ Missing' /\ Listening'
    BY <1>1, <1>2 DEF Unacted, Missing, Listening, Opening, Clearing
  <1>6. Copied'
    <2> DEFINE a == Active
    <2>1. /\ a \in Window /\ LastPoint(a) \in Nat /\ OutOfHands \in Nat
          /\ OutOfHands <= LastPoint(a)
      BY ActiveFacts, Counts
    <2>2. taken \in Nat /\ since[a] \in Nat /\ point[a] \in Nat
      BY <2>1, TouchAssumption DEF TypeOK
    <2>3. point[a] \in {0, LastPoint(a)} /\ taken <= OutOfHands
      BY <2>1 DEF Slot
    <2>4. point[a] = 0 => LastPoint(a) <= since[a] + 1
      BY <1>1, <2>1 DEF Missing
    <2> HIDE DEF a, Inv
    <2>5. /\ point[a] <= LastPoint(a)
          /\ point[a] < taken => point[a] = 0 /\ taken <= since[a] + 1
      BY <2>1, <2>2, <2>3, <2>4
    <2>6. /\ tpoint'[a] <= LastPoint(a)
          /\ tpoint'[a] < taken => tpoint'[a] = 0 /\ taken <= since[a] + 1
      BY <1>3, <2>5 DEF a
    <2> QED
      BY <1>1, <1>2, <2>1, <2>6 DEF Copied, a
  <1> QED
    BY <1>3, <1>4, <1>5, <1>6

LEMMA StepFireListeners == ASSUME Inv, FireListeners PROVE Inv'
  <1> USE DEF Inv
  <1>1. /\ pc = "fire" /\ pc' \in {"listener", "reset"}
        /\ pc' = "listener" => event[Active] # SENSOR_ANY
        /\ acted' = [acted EXCEPT ![Active] =
                        IF pc' = "listener" THEN event[Active] ELSE acted[Active]]
        /\ UNCHANGED <<point, event, hasInvoke, tpoint, listeners, fired, slot, store, chain,
                       then, since, taken, reentered>>
    BY DEF FireListeners, Goto, slotVars, sensorVars
  <1>2. /\ OutOfHands' = OutOfHands /\ Active' = Active
        /\ \A w \in Window : LastPoint(w)' = LastPoint(w) /\ LastCause(w)' = LastCause(w)
    BY <1>1, SensorStill, ChainStill DEF sensorVars
  <1>3. event[Active] # SENSOR_ANY => event[Active] \in 0 .. MaxEvents
    <2>1. event[Active] \in 1 .. MaxEvents \cup {SENSOR_ANY}
      BY ActiveFacts DEF TypeOK
    <2> QED
      BY <2>1, TouchAssumption
  <1>4. acted' \in [Window -> 0 .. MaxEvents]
    BY <1>1, <1>3, ActiveFacts DEF TypeOK
  <1>5. TypeOK'
    <2> HIDE DEF Inv
    <2>1. TypeOK
      BY DEF Inv
    <2> QED
      BY <1>1, <1>4, <2>1 DEF TypeOK
  <1>6. Slot'
    <2>1. event[Active] # SENSOR_ANY => event[Active] <= LastCause(Active)
      BY ActiveFacts, Counts DEF Slot
    <2>2. \A w \in Window : acted'[w] <= LastCause(w)
      BY <1>1, <2>1, ActiveFacts DEF Slot, TypeOK
    <2> QED
      BY <1>1, <1>2, <2>2 DEF Slot
  <1>7. Unacted' /\ Missing' /\ Copied' /\ Listening'
    BY <1>1, <1>2 DEF Unacted, Missing, Copied, Listening, Opening, Clearing
  <1> QED
    BY <1>5, <1>6, <1>7

LEMMA StepListenerReturns == ASSUME Inv, ListenerReturns PROVE Inv'
  <1> USE DEF Inv
  <1>1. /\ pc = "listener" /\ pc' = "reset"
        /\ UNCHANGED <<point, event, hasInvoke, tpoint, listeners, fired, slot, store, chain,
                       then, acted, since, taken, reentered>>
    BY DEF ListenerReturns, Goto, slotVars, sensorVars, historyVars
  <1>2. /\ OutOfHands' = OutOfHands /\ Active' = Active
        /\ \A w \in Window : LastPoint(w)' = LastPoint(w) /\ LastCause(w)' = LastCause(w)
    BY <1>1, SensorStill, ChainStill DEF sensorVars
  <1>3. TypeOK'
    BY <1>1 DEF TypeOK
  <1>4. Slot'
    BY <1>1, <1>2 DEF Slot
  <1>5. Unacted' /\ Missing' /\ Copied' /\ Listening'
    BY <1>1, <1>2 DEF Unacted, Missing, Copied, Listening, Opening, Clearing
  <1> QED
    BY <1>3, <1>4, <1>5

\* The slot is empty, so it has no cause that is not later than this.
LEMMA Emptied ==
    ASSUME TypeOK, Slot, NEW a \in Window,
           event' = [event EXCEPT ![a] = SENSOR_ANY],
           since' = [since EXCEPT ![a] = OutOfHands],
           UNCHANGED <<point, acted, taken, fired, slot, store>>
    PROVE  /\ event' \in [Window -> 1 .. MaxEvents \cup {SENSOR_ANY}]
           /\ since' \in [Window -> 0 .. MaxEvents]
           /\ Slot'
           /\ event'[a] = SENSOR_ANY
           /\ \A w \in Window : since[w] <= since'[w]
           /\ LastPoint(a) <= since'[a] + 1
  <1>1. /\ OutOfHands' = OutOfHands
        /\ \A w \in Window : LastPoint(w)' = LastPoint(w) /\ LastCause(w)' = LastCause(w)
    BY SensorStill DEF sensorVars
  <1>2. /\ OutOfHands \in 0 .. MaxEvents
        /\ LastPoint(a) <= OutOfHands + 1
    BY Counts
  <1>3. /\ event' \in [Window -> 1 .. MaxEvents \cup {SENSOR_ANY}]
        /\ event'[a] = SENSOR_ANY
        /\ \A w \in Window \ {a} : event'[w] = event[w]
    BY DEF TypeOK
  <1>4. /\ since' \in [Window -> 0 .. MaxEvents]
        /\ since'[a] = OutOfHands
        /\ \A w \in Window \ {a} : since'[w] = since[w]
    BY <1>2 DEF TypeOK
  <1>5. \A w \in Window : since[w] <= OutOfHands /\ since[w] \in Nat
    BY TouchAssumption DEF Slot, TypeOK
  <1>6. \A w \in Window : since[w] <= since'[w] /\ since'[w] <= OutOfHands
    BY <1>2, <1>4, <1>5
  <1>7. Slot'
    BY <1>1, <1>3, <1>6 DEF Slot
  <1> QED
    BY <1>2, <1>3, <1>4, <1>6, <1>7

\* ... and a position missing elsewhere stays so.
LEMMA MissingStays ==
    ASSUME TypeOK, Slot, NEW w \in Window,
           point[w] = 0 => LastPoint(w) <= since[w] + 1,
           since[w] <= since'[w], since'[w] \in Nat
    PROVE  point[w] = 0 => LastPoint(w) <= since'[w] + 1
  <1>1. LastPoint(w) \in Nat
    BY Counts
  <1>2. since[w] \in Nat
    BY TouchAssumption DEF TypeOK
  <1> QED
    BY <1>1, <1>2

LEMMA StepResetCause == ASSUME Inv, ResetCause PROVE Inv'
  <1> USE DEF Inv
  <1>1. /\ pc = "reset" /\ pc' = "loop"
        /\ event' = [event EXCEPT ![Active] = SENSOR_ANY]
        /\ since' = [since EXCEPT ![Active] = OutOfHands]
        /\ UNCHANGED <<point, hasInvoke, tpoint, listeners, fired, slot, store, chain,
                       then, acted, taken, reentered>>
    BY DEF ResetCause, Goto, sensorVars
  <1>2. /\ OutOfHands' = OutOfHands /\ Active' = Active /\ Active \in Window
        /\ \A w \in Window : LastPoint(w)' = LastPoint(w) /\ LastCause(w)' = LastCause(w)
    BY <1>1, SensorStill, ChainStill, ActiveFacts DEF sensorVars
  <1>3. /\ event' \in [Window -> 1 .. MaxEvents \cup {SENSOR_ANY}]
        /\ since' \in [Window -> 0 .. MaxEvents]
        /\ Slot'
        /\ event'[Active] = SENSOR_ANY
        /\ \A w \in Window : since[w] <= since'[w]
    BY <1>1, <1>2, Emptied
  <1>4. TypeOK'
    <2> HIDE DEF Inv
    <2>1. TypeOK
      BY DEF Inv
    <2> QED
      BY <1>1, <1>3, <2>1 DEF TypeOK
  <1>5. Missing'
    <2>1. \A w \in Window : point[w] = 0 => LastPoint(w) <= since[w] + 1
      BY <1>1 DEF Missing
    <2>2. \A w \in Window : since'[w] \in Nat
      BY <1>3, TouchAssumption
    <2>3. \A w \in Window : point[w] = 0 => LastPoint(w) <= since'[w] + 1
      BY <1>3, <2>1, <2>2, MissingStays
    <2> QED
      BY <1>1, <1>2, <2>3 DEF Missing
  <1>6. Unacted' /\ Copied' /\ Listening'
    BY <1>1, <1>2, <1>3 DEF Unacted, Copied, Listening, Opening, Clearing
  <1> QED
    BY <1>3, <1>4, <1>5, <1>6

LEMMA StepClearPoint == ASSUME Inv, ClearPoint PROVE Inv'
  <1> USE DEF Inv
  <1>1. /\ pc = "clearPoint" /\ pc' = "clearFlag"
        /\ point' = [point EXCEPT ![Active] = 0]
        /\ UNCHANGED <<event, hasInvoke, tpoint, listeners, fired, slot, store, chain,
                       then, acted, since, taken, reentered>>
    BY DEF ClearPoint, Goto, sensorVars, historyVars
  <1>2. /\ OutOfHands' = OutOfHands /\ Active' = Active /\ Active \in Window
        /\ \A w \in Window : LastPoint(w)' = LastPoint(w) /\ LastCause(w)' = LastCause(w)
    BY <1>1, SensorStill, ChainStill, ActiveFacts DEF sensorVars
  <1>3. /\ point' \in [Window -> 0 .. MaxEvents]
        /\ point'[Active] = 0
        /\ \A w \in Window \ {Active} : point'[w] = point[w]
    BY <1>1, <1>2, TouchAssumption DEF TypeOK
  <1>4. TypeOK'
    <2> HIDE DEF Inv
    <2>1. TypeOK
      BY DEF Inv
    <2> QED
      BY <1>1, <1>3, <2>1 DEF TypeOK
  <1>5. Slot'
    BY <1>1, <1>2, <1>3 DEF Slot
  <1>6. Missing'
    BY <1>1, <1>2, <1>3 DEF Missing
  <1>7. Unacted' /\ Copied' /\ Listening'
    BY <1>1, <1>2 DEF Unacted, Copied, Listening, Opening, Clearing
  <1> QED
    BY <1>4, <1>5, <1>6, <1>7

LEMMA StepClearFlag == ASSUME Inv, ClearFlag PROVE Inv'
  <1> USE DEF Inv
  <1>1. /\ pc = "clearFlag" /\ pc' = "clearCause"
        /\ hasInvoke' = [hasInvoke EXCEPT ![Active] = FALSE]
        /\ UNCHANGED <<point, event, tpoint, listeners, fired, slot, store, chain,
                       then, acted, since, taken, reentered>>
    BY DEF ClearFlag, Goto, sensorVars, historyVars
  <1>2. /\ OutOfHands' = OutOfHands /\ Active' = Active
        /\ \A w \in Window : LastPoint(w)' = LastPoint(w) /\ LastCause(w)' = LastCause(w)
    BY <1>1, SensorStill, ChainStill DEF sensorVars
  <1>3. TypeOK'
    BY <1>1 DEF TypeOK
  <1>4. Slot'
    BY <1>1, <1>2 DEF Slot
  <1>5. Unacted' /\ Missing' /\ Copied' /\ Listening'
    BY <1>1, <1>2 DEF Unacted, Missing, Copied, Listening, Opening, Clearing
  <1> QED
    BY <1>3, <1>4, <1>5

LEMMA StepClearCause == ASSUME Inv, ClearCause PROVE Inv'
  <1> USE DEF Inv
  <1>1. /\ pc = "clearCause" /\ pc' = then /\ then \in {"loop", "reset", "start"}
        /\ event' = [event EXCEPT ![Active] = SENSOR_ANY]
        /\ since' = [since EXCEPT ![Active] = OutOfHands]
        /\ UNCHANGED <<point, hasInvoke, tpoint, listeners, fired, slot, store, chain,
                       then, acted, taken, reentered>>
    BY DEF ClearCause, Goto, sensorVars, TypeOK
  <1>2. /\ OutOfHands' = OutOfHands /\ Active' = Active /\ Active \in Window
        /\ \A w \in Window : LastPoint(w)' = LastPoint(w) /\ LastCause(w)' = LastCause(w)
    BY <1>1, SensorStill, ChainStill, ActiveFacts DEF sensorVars
  <1>3. /\ event' \in [Window -> 1 .. MaxEvents \cup {SENSOR_ANY}]
        /\ since' \in [Window -> 0 .. MaxEvents]
        /\ Slot'
        /\ event'[Active] = SENSOR_ANY
        /\ \A w \in Window : since[w] <= since'[w]
        /\ LastPoint(Active) <= since'[Active] + 1
    BY <1>1, <1>2, Emptied
  <1>4. TypeOK'
    <2> HIDE DEF Inv
    <2>1. TypeOK
      BY DEF Inv
    <2> QED
      BY <1>1, <1>3, <2>1 DEF TypeOK
  <1>5. Missing'
    <2>1. \A w \in Window \ {Active} : point[w] = 0 => LastPoint(w) <= since[w] + 1
      BY <1>1 DEF Missing
    <2>2. \A w \in Window : since'[w] \in Nat
      BY <1>3, TouchAssumption
    <2>3. \A w \in Window : point[w] = 0 => LastPoint(w) <= since'[w] + 1
      BY <1>3, <2>1, <2>2, MissingStays
    <2> QED
      BY <1>1, <1>2, <2>3 DEF Missing
  <1>6. Unacted' /\ Copied' /\ Listening'
    BY <1>1, <1>2, <1>3 DEF Unacted, Copied, Listening, Opening, Clearing
  <1> QED
    BY <1>3, <1>4, <1>5, <1>6

-----------------------------------------------------------------------------
(***************************************************************************)
(* The chain of calls.                                                     *)
(***************************************************************************)

\* A window at the end of the chain, ...
LEMMA Opened ==
    ASSUME TypeOK, NEW w \in Window, chain' = Append(chain, w)
    PROVE  /\ chain' \in Seq(Window) /\ chain' # <<>>
           /\ Active' = w
           /\ ToSet(chain') = ToSet(chain) \cup {w}
           /\ IsInjective(chain) /\ w \notin ToSet(chain) => IsInjective(chain')
  <1>1. chain \in Seq(Window) /\ chain # <<>>
    BY DEF TypeOK
  <1>2. /\ chain' \in Seq(Window) /\ chain' # <<>>
        /\ Len(chain') = Len(chain) + 1 /\ chain'[Len(chain')] = w
        /\ \A i \in 1 .. Len(chain) : chain'[i] = chain[i]
    BY <1>1
  <1>3. Active' = w
    BY <1>2 DEF Active, Last
  <1>4. \A i \in 1 .. Len(chain') : i \in 1 .. Len(chain) \/ i = Len(chain')
    BY <1>1, <1>2
  <1>5. DOMAIN chain = 1 .. Len(chain) /\ DOMAIN chain' = 1 .. Len(chain')
    BY <1>1, <1>2
  <1>6. ToSet(chain') = ToSet(chain) \cup {w}
    <2>1. ToSet(chain') \subseteq ToSet(chain) \cup {w}
      BY <1>2, <1>4, <1>5 DEF ToSet
    <2>2. w \in ToSet(chain')
      BY <1>1, <1>2, <1>5 DEF ToSet
    <2>3. ToSet(chain) \subseteq ToSet(chain')
      BY <1>1, <1>2, <1>5 DEF ToSet
    <2> QED
      BY <2>1, <2>2, <2>3
  <1>7. ASSUME IsInjective(chain), w \notin ToSet(chain) PROVE IsInjective(chain')
    <2>1. \A i, j \in 1 .. Len(chain) : chain[i] = chain[j] => i = j
      BY <1>5, <1>7 DEF IsInjective
    <2>2. \A i \in 1 .. Len(chain) : chain[i] # w
      BY <1>5, <1>7 DEF ToSet
    <2>3. \A i, j \in 1 .. Len(chain') : chain'[i] = chain'[j] => i = j
      BY <1>2, <1>4, <2>1, <2>2
    <2> QED
      BY <1>5, <2>3 DEF IsInjective
  <1> QED
    BY <1>2, <1>3, <1>6, <1>7

\* ... and the end of the chain taken off.
LEMMA Closed ==
    ASSUME TypeOK, Len(chain) > 1, chain' = Front(chain)
    PROVE  /\ chain' \in Seq(Window) /\ chain' # <<>>
           /\ IsInjective(chain) =>
                IsInjective(chain') /\ ToSet(chain') = ToSet(chain) \ {Active}
  <1>1. chain \in Seq(Window) /\ Len(chain) \in Nat /\ Active = chain[Len(chain)]
    BY ActiveFacts DEF TypeOK
  <1>2. /\ chain' \in Seq(Window) /\ chain' # <<>>
        /\ Len(chain') = Len(chain) - 1
        /\ \A i \in 1 .. Len(chain') : chain'[i] = chain[i]
    <2>1. chain' = SubSeq(chain, 1, Len(chain) - 1)
      BY DEF Front
    <2>2. Len(chain) - 1 \in 1 .. Len(chain)
      BY <1>1
    <2>3. /\ Len(chain') = Len(chain) - 1
          /\ \A i \in 1 .. Len(chain) - 1 : chain'[i] = chain[i]
      BY <1>1, <2>1, <2>2
    <2>4. chain' \in Seq(Window)
      BY <1>1, <2>1, <2>2
    <2> QED
      BY <1>1, <2>2, <2>3, <2>4
  <1>3. \A i \in 1 .. Len(chain) : i \in 1 .. Len(chain') \/ i = Len(chain)
    BY <1>1, <1>2
  <1>4. DOMAIN chain = 1 .. Len(chain) /\ DOMAIN chain' = 1 .. Len(chain')
    BY <1>1, <1>2
  <1>5. ASSUME IsInjective(chain)
        PROVE  IsInjective(chain') /\ ToSet(chain') = ToSet(chain) \ {Active}
    <2>1. \A i, j \in 1 .. Len(chain) : chain[i] = chain[j] => i = j
      BY <1>4, <1>5 DEF IsInjective
    <2>2. IsInjective(chain')
      BY <1>1, <1>2, <1>4, <2>1 DEF IsInjective
    <2>3. \A i \in 1 .. Len(chain') : chain'[i] # Active /\ chain'[i] \in ToSet(chain)
      BY <1>1, <1>2, <1>4, <2>1 DEF ToSet
    <2>4. ToSet(chain') \subseteq ToSet(chain) \ {Active}
      BY <1>4, <2>3 DEF ToSet
    <2>5. ASSUME NEW u \in ToSet(chain), u # Active PROVE u \in ToSet(chain')
      <3>1. PICK i \in 1 .. Len(chain) : chain[i] = u
        BY <1>4 DEF ToSet
      <3>2. i \in 1 .. Len(chain') /\ chain'[i] = u
        BY <1>1, <1>2, <1>3, <2>5, <3>1
      <3> QED
        BY <1>4, <3>2 DEF ToSet
    <2> QED
      BY <2>2, <2>4, <2>5
  <1> QED
    BY <1>2, <1>5

LEMMA StepOpen == ASSUME Inv, NEW w \in Window, Open(w) PROVE Inv'
  <1> USE DEF Inv
  <1>1. /\ pc = "listener" /\ pc' = "clearPoint" /\ then' = "start"
        /\ chain' = Append(chain, w)
        /\ since' = [since EXCEPT ![w] = OutOfHands]
        /\ reentered' = (reentered \/ w \in ToSet(chain))
        /\ UNCHANGED <<point, event, hasInvoke, tpoint, listeners, fired, slot, store,
                       acted, taken>>
    BY DEF Open, Goto, slotVars, sensorVars
  <1>2. /\ OutOfHands' = OutOfHands
        /\ \A u \in Window : LastPoint(u)' = LastPoint(u) /\ LastCause(u)' = LastCause(u)
    BY <1>1, SensorStill DEF sensorVars
  <1>3. /\ OutOfHands \in 0 .. MaxEvents
        /\ \A u \in Window : since[u] \in Nat /\ since[u] <= OutOfHands
    <2>1. OutOfHands \in 0 .. MaxEvents
      BY Counts
    <2>2. \A u \in Window : since[u] \in Nat
      BY TouchAssumption DEF TypeOK
    <2>3. \A u \in Window : since[u] <= OutOfHands
      BY DEF Slot
    <2> QED
      BY <2>1, <2>2, <2>3
  <1>4. /\ since' \in [Window -> 0 .. MaxEvents]
        /\ \A u \in Window : since[u] <= since'[u] /\ since'[u] <= OutOfHands
    <2>1. /\ since' \in [Window -> 0 .. MaxEvents]
          /\ \A u \in Window : since'[u] = IF u = w THEN OutOfHands ELSE since[u]
      BY <1>1, <1>3 DEF TypeOK
    <2> QED
      BY <1>3, <2>1
  <1>5. /\ chain' \in Seq(Window) /\ chain' # <<>> /\ Active' = w
        /\ ToSet(chain') = ToSet(chain) \cup {w}
        /\ IsInjective(chain) /\ w \notin ToSet(chain) => IsInjective(chain')
    BY <1>1, Opened
  <1>6. TypeOK'
    <2>1. reentered' \in BOOLEAN
      BY <1>1
    <2> HIDE DEF Inv
    <2>2. TypeOK
      BY DEF Inv
    <2> QED
      BY <1>1, <1>4, <1>5, <2>1, <2>2 DEF TypeOK
  <1>7. Slot'
    BY <1>1, <1>2, <1>4 DEF Slot
  <1>8. Missing'
    <2>1. \A u \in Window : point[u] = 0 => LastPoint(u) <= since[u] + 1
      BY <1>1 DEF Missing
    <2>2. \A u \in Window : since'[u] \in Nat
      BY <1>4, TouchAssumption
    <2>3. \A u \in Window : point[u] = 0 => LastPoint(u) <= since'[u] + 1
      BY <1>4, <2>1, <2>2, MissingStays
    <2> QED
      BY <1>1, <1>2, <2>3 DEF Missing
  <1>9. Unacted' /\ Copied'
    BY <1>1 DEF Unacted, Copied
  <1>10. Listening'
    <2>1. SUFFICES ASSUME ~ reentered' PROVE Listening'
      BY DEF Listening
    <2>2. ~ reentered /\ w \notin ToSet(chain)
      BY <1>1, <2>1
    <2>3. ~ Opening /\ Opening'
      BY <1>1 DEF Opening, Clearing
    <2>4. /\ IsInjective(chain)
          /\ \A u \in Window : listeners[u] = IF u \in ToSet(chain) THEN 1 ELSE 0
      BY <2>2, <2>3 DEF Listening
    <2> QED
      BY <1>1, <1>5, <2>2, <2>3, <2>4 DEF Listening
  <1> QED
    BY <1>6, <1>7, <1>8, <1>9, <1>10

LEMMA StepAddListener == ASSUME Inv, AddListener PROVE Inv'
  <1> USE DEF Inv
  <1>1. /\ pc = "start" /\ pc' = "loop"
        /\ listeners' = [listeners EXCEPT ![Active] = listeners[Active] + 1]
        /\ UNCHANGED <<point, event, hasInvoke, tpoint, fired, slot, store, chain,
                       then, acted, since, taken, reentered>>
    BY DEF AddListener, Goto, slotVars, sensorVars, historyVars
  <1>2. /\ OutOfHands' = OutOfHands /\ Active' = Active /\ Active \in Window
        /\ Active \in ToSet(chain)
        /\ \A w \in Window : LastPoint(w)' = LastPoint(w) /\ LastCause(w)' = LastCause(w)
    BY <1>1, SensorStill, ChainStill, ActiveFacts DEF sensorVars
  <1>3. /\ listeners' \in [Window -> Nat]
        /\ listeners'[Active] = listeners[Active] + 1
        /\ \A w \in Window \ {Active} : listeners'[w] = listeners[w]
    <2> HIDE DEF Inv
    <2>1. listeners \in [Window -> Nat]
      BY DEF Inv, TypeOK
    <2> QED
      BY <1>1, <1>2, <2>1
  <1>4. TypeOK'
    <2> HIDE DEF Inv
    <2>1. TypeOK
      BY DEF Inv
    <2> QED
      BY <1>1, <1>3, <2>1 DEF TypeOK
  <1>5. Slot'
    BY <1>1, <1>2 DEF Slot
  <1>6. Unacted' /\ Missing' /\ Copied'
    BY <1>1, <1>2 DEF Unacted, Missing, Copied
  <1>7. Listening'
    <2>1. Opening /\ ~ Opening'
      BY <1>1 DEF Opening, Clearing
    <2> QED
      BY <1>1, <1>2, <1>3, <2>1 DEF Listening
  <1> QED
    BY <1>4, <1>5, <1>6, <1>7

\* Only the listener of the window that closes goes with it.
LEMMA StepClose == ASSUME Inv, Close PROVE Inv'
  <1> USE DEF Inv
  <1>1. /\ Len(chain) > 1 /\ pc = "listener" /\ chain' = Front(chain)
        /\ listeners' = [listeners EXCEPT ![Active] = 0]
        /\ \/ pc' = "reset" /\ then' = then
           \/ pc' = "clearPoint" /\ then' = "reset"
        /\ UNCHANGED <<point, event, hasInvoke, tpoint, fired, slot, store,
                       acted, since, taken, reentered>>
    BY DEF Close, slotVars, sensorVars, historyVars
  <1>2. /\ OutOfHands' = OutOfHands /\ Active \in Window
        /\ \A w \in Window : LastPoint(w)' = LastPoint(w) /\ LastCause(w)' = LastCause(w)
    BY <1>1, SensorStill, ActiveFacts DEF sensorVars
  <1>3. /\ chain' \in Seq(Window) /\ chain' # <<>>
        /\ IsInjective(chain) =>
              IsInjective(chain') /\ ToSet(chain') = ToSet(chain) \ {Active}
    BY <1>1, Closed
  <1>4. /\ listeners' \in [Window -> Nat]
        /\ listeners'[Active] = 0
        /\ \A w \in Window \ {Active} : listeners'[w] = listeners[w]
    BY <1>1, <1>2 DEF TypeOK
  <1>5. TypeOK'
    <2> HIDE DEF Inv
    <2>1. TypeOK
      BY DEF Inv
    <2> QED
      BY <1>1, <1>3, <1>4, <2>1 DEF TypeOK
  <1>6. Slot'
    BY <1>1, <1>2 DEF Slot
  <1>7. Missing'
    <2>1. \A w \in Window : point[w] = 0 => LastPoint(w) <= since[w] + 1
      BY <1>1 DEF Missing
    <2> QED
      BY <1>1, <1>2, <2>1 DEF Missing
  <1>8. Unacted' /\ Copied'
    BY <1>1 DEF Unacted, Copied
  <1>9. Listening'
    <2>1. ~ Opening /\ ~ Opening'
      BY <1>1 DEF Opening, Clearing
    <2>2. SUFFICES ASSUME ~ reentered PROVE Listening'
      BY <1>1 DEF Listening
    <2>3. /\ IsInjective(chain)
          /\ \A w \in Window : listeners[w] = IF w \in ToSet(chain) THEN 1 ELSE 0
      BY <2>1, <2>2 DEF Listening
    <2>4. /\ IsInjective(chain')
          /\ \A w \in Window : listeners'[w] = IF w \in ToSet(chain') THEN 1 ELSE 0
      BY <1>3, <1>4, <2>3
    <2> QED
      BY <2>1, <2>4 DEF Listening
  <1> QED
    BY <1>5, <1>6, <1>7, <1>8, <1>9

-----------------------------------------------------------------------------
LEMMA StepInv == Inv /\ [Next]_vars => Inv'
  <1> SUFFICES ASSUME Inv, [Next]_vars PROVE Inv'
    OBVIOUS
  <1>1. CASE Next
    <2>1. CASE SensorStep
      BY <2>1, StepFire, StepSetPoint, StepSetCause, StepSetFlag DEF SensorStep
    <2>2. CASE WindowStep
      BY <2>2, StepTestFlag, StepTakeFlag, StepCopyPoint, StepFireListeners,
         StepListenerReturns, StepResetCause, StepClearPoint, StepClearFlag, StepClearCause,
         StepOpen, StepAddListener, StepClose DEF WindowStep
    <2> QED
      BY <1>1, <2>1, <2>2 DEF Next
  <1>2. CASE UNCHANGED vars
    <2>1. UNCHANGED <<point, event, hasInvoke, tpoint, listeners, fired, slot, store, chain,
                      pc, then, acted, since, taken, reentered>>
      BY <1>2 DEF vars, slotVars, sensorVars, historyVars
    <2>2. /\ OutOfHands' = OutOfHands /\ Active' = Active
          /\ \A w \in Window : LastPoint(w)' = LastPoint(w) /\ LastCause(w)' = LastCause(w)
      BY <2>1, SensorStill, ChainStill DEF sensorVars
    <2>3. TypeOK'
      BY <2>1 DEF Inv, TypeOK
    <2>4. Slot'
      BY <2>1, <2>2 DEF Inv, Slot
    <2>5. Unacted' /\ Listening'
      BY <2>1, <2>2 DEF Inv, Unacted, Listening, Opening, Clearing
    <2>6. Missing'
      BY <2>1, <2>2 DEF Inv, Missing
    <2>7. Copied'
      BY <2>1, <2>2, ActiveFacts DEF Inv, Copied
    <2> QED
      BY <2>3, <2>4, <2>5, <2>6, <2>7 DEF Inv
  <1> QED
    BY <1>1, <1>2

\* Every reachable state satisfies the inductive invariant: the order in
\* which the sensor thread stores (SensorThread of device/src/startup_app.cpp,
\* TouchSensor::setEvent of device/src/touch.cpp) against what the windows
\* take and clear.
THEOREM Invariance == Spec => []Inv
  <1> QED
    BY InitInv, StepInv, PTL DEF Spec

\* The slots hold events that were fired, and the chain is never empty.
THEOREM TypeCorrect == Spec => []TypeOK
  <1>1. Inv => TypeOK
    BY DEF Inv
  <1> QED
    BY <1>1, Invariance, PTL

\* No window acts twice on an event, nor on one that was out of the sensor
\* thread's hands when it was opened or became active again.
THEOREM ActsOnce == Spec => []Fresh
  <1>1. Inv => Fresh
    BY DEF Inv, Unacted, Fresh
  <1> QED
    BY <1>1, Invariance, PTL

\* The position an event is acted on with is its own, except in the three
\* orders of the two threads that Whole names.
LEMMA WholeHolds == Inv => Whole
  <1> DEFINE a == Active
             e == event[a]
             t == tpoint[a]
  <1> SUFFICES ASSUME Inv, pc = "fire", event[Active] # SENSOR_ANY PROVE Whole
    BY DEF Whole
  <1> USE DEF Inv
  <1>1. /\ a \in Window
        /\ LastCause(a) \in Nat /\ LastPoint(a) \in Nat
        /\ LastCause(a) <= LastPoint(a) /\ LastPoint(a) <= LastCause(a) + 1
    BY ActiveFacts, Counts
  <1>2. t \in Nat /\ since[a] \in Nat /\ taken \in Nat
    BY <1>1, TouchAssumption DEF TypeOK
  <1>3. e = LastCause(a)
    BY <1>1 DEF Slot
  <1>4. e > since[a]
    BY DEF Unacted
  <1>5. /\ t <= LastPoint(a)
        /\ t < taken => t = 0 /\ taken <= since[a] + 1
    BY DEF Copied
  <1>6. ASSUME LastPoint(a) = LastCause(a) + 1
        PROVE  slot # 0 /\ Slots[slot] = a /\ store = "event"
    <2>1. PointStored(a) /\ ~ CauseStored(a)
      BY <1>1, <1>6, ActiveFacts, Counts DEF LastPoint, LastCause
    <2>2. slot # 0 /\ slot \in Nat /\ store \in {"point", "event", "flag"}
      BY <2>1 DEF CauseStored, TypeOK
    <2>3. PICK i \in 1 .. slot : Slots[i] = a /\ (i < slot \/ store # "point")
      BY <2>1, <2>2 DEF PointStored
    <2>4. ~ (i < slot) /\ store # "flag"
      BY <2>1, <2>3 DEF CauseStored
    <2> QED
      BY <2>2, <2>3, <2>4
  <1> HIDE DEF Inv, a, e, t
  <1>7. CASE t > e
    <2>1. t = e + 1 /\ LastPoint(a) = LastCause(a) + 1
      BY <1>1, <1>2, <1>3, <1>5, <1>7
    <2> QED
      BY <1>6, <2>1 DEF Whole, a, e, t
  <1>8. CASE t = e
    BY <1>8 DEF Whole, a, e, t
  <1>9. CASE t < e
    <2>1. e \in Nat
      BY <1>1, <1>3
    <2>2. e > taken \/ (t = 0 /\ e = since[a] + 1)
      BY <1>2, <1>4, <1>5, <1>9, <2>1
    <2> QED
      BY <1>9, <2>2 DEF Whole, a, e, t
  <1> QED
    BY <1>1, <1>2, <1>3, <1>7, <1>8, <1>9

THEOREM PositionOfEvent == Spec => []Whole
  <1> QED
    BY WholeHolds, Invariance, PTL

\* A window that waits for events has the listener for them, unless a window
\* of the chain was opened a second time.
THEOREM Listens == Spec => []NotDeaf
  <1>1. Inv => NotDeaf
    <2> SUFFICES ASSUME Inv, pc = "loop", ~ reentered PROVE listeners[Active] = 1
      BY DEF NotDeaf
    <2>1. Active \in Window /\ Active \in ToSet(chain)
      BY ActiveFacts DEF Inv
    <2> QED
      BY <2>1 DEF Inv, Listening, Opening, Clearing
  <1> QED
    BY <1>1, Invariance, PTL

=============================================================================
