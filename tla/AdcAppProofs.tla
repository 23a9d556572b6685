---------------------------- MODULE AdcAppProofs ----------------------------
(***************************************************************************)
(* The safety of the oscilloscope for any number of control blocks that    *)
(* adc_app may get, and any sizes of the mutex pools.  The argument has    *)
(* three parts.  The exit handshake lets only one adc_app be in its loop.  *)
(* Hence a mutex is removed by a thread that does not own it only when its *)
(* queue is empty, and nobody is forgotten.  And adc_app removes the       *)
(* window's mutex only while it is paused, so that it does not fill the    *)
(* buffers before the window has drawn, unless the pause is lifted between *)
(* its test and its unlock.                                                *)
(***************************************************************************)
EXTENDS AdcApp, FiniteSetTheorems, SequenceTheorems, TLAPS

\* One adc_app is in its loop; the window waits for it before it destroys
\* the buffers.
InLoop(a) == pc[a] \notin {"none", "return"}

Handshake ==
    /\ \A a, b \in Adc : InLoop(a) /\ InLoop(b) => a = b
    /\ adc_finish => pc[Ui] = "exit"
    /\ pc[Ui] \in {"destroy", "closed"} \/ (pc[Ui] = "exit" /\ ~adc_finish) =>
          \A a \in Adc : ~InLoop(a)
    /\ \A a \in Adc : pc[a] = "clear" => adc_finish
    /\ pc[Ui] # "closed" => buffers

\* The queue of the mutex, and who may own it.
Queue ==
    /\ IsInjective(waiters[ADC])
    /\ \A t \in Thread : pc[t] = "lockwait" <=> t \in Range(waiters[ADC])
    /\ owner[ADC] # NULL => pc[owner[ADC]] \in {"draw", "fill", "unlock"}
    /\ waiters[ADC] # <<>> => owner[ADC] # NULL
    /\ freeOwners + Len(waiters[ADC]) = MaxOwners

\* Nobody samples while the window draws, with or without its mutex.
Exclusion ==
    ~raced =>
        /\ pc[Ui] = "draw" /\ owner[ADC] # Ui =>
              adc_pause /\ \A a \in Adc : pc[a] \notin {"lock", "lockwait", "fill"}
        /\ \A a \in Adc : pc[a] = "fill" => owner[ADC] = a

\* The inductive invariant.
Inv == TypeOK /\ Handshake /\ Queue /\ Exclusion

-----------------------------------------------------------------------------
\* The queue of a mutex: a thread comes in at its end, ...
LEMMA Queued ==
    ASSUME NEW T, NEW s \in Seq(T), NEW t \in T
    PROVE  /\ Append(s, t) \in Seq(T)
           /\ Range(Append(s, t)) = Range(s) \cup {t}
           /\ IsInjective(s) /\ t \notin Range(s) => IsInjective(Append(s, t))
  <1> DEFINE q == Append(s, t)
  <1>1. /\ q \in Seq(T) /\ Len(q) = Len(s) + 1 /\ q[Len(q)] = t
        /\ \A i \in 1 .. Len(s) : q[i] = s[i]
    BY AppendProperties
  <1>2. /\ Len(s) \in Nat /\ DOMAIN s = 1 .. Len(s) /\ DOMAIN q = 1 .. Len(q)
    BY <1>1, LenProperties
  <1> HIDE DEF q
  <1>3. \A i \in DOMAIN q : i \in DOMAIN s \/ i = Len(q)
    BY <1>1, <1>2
  <1>4. \A i \in DOMAIN s : i \in DOMAIN q /\ Len(q) \in DOMAIN q
    BY <1>1, <1>2
  <1>5. Range(q) = Range(s) \cup {t}
    <2>1. t \in Range(q)
      BY <1>1, <1>2 DEF Range
    <2> QED
      BY <1>1, <1>2, <1>3, <1>4, <2>1 DEF Range
  <1>6. IsInjective(s) /\ t \notin Range(s) => IsInjective(q)
    BY <1>1, <1>2, <1>3 DEF IsInjective, Range
  <1> QED
    BY <1>1, <1>5, <1>6 DEF q

\* ... and its head leaves it.
LEMMA Dequeued ==
    ASSUME NEW T, NEW s \in Seq(T), s # <<>>
    PROVE  /\ Head(s) \in T /\ Tail(s) \in Seq(T)
           /\ Len(Tail(s)) = Len(s) - 1
           /\ Range(s) = {Head(s)} \cup Range(Tail(s))
           /\ IsInjective(s) => IsInjective(Tail(s)) /\ Head(s) \notin Range(Tail(s))
  <1> DEFINE q == Tail(s)
             h == Head(s)
  <1>1. /\ Len(s) \in Nat \ {0} /\ DOMAIN s = 1 .. Len(s)
        /\ h \in T /\ h = s[1]
    BY EmptySeq, LenProperties, HeadTailProperties
  <1>2. /\ q \in Seq(T) /\ Len(q) = Len(s) - 1
        /\ \A i \in 1 .. Len(s) - 1 : q[i] = s[i + 1]
    BY HeadTailProperties
  <1>3. DOMAIN q = 1 .. Len(s) - 1
    BY <1>2, LenProperties
  <1> HIDE DEF q, h
  <1>4. \A i \in DOMAIN q : i + 1 \in DOMAIN s /\ q[i] = s[i + 1] /\ i + 1 # 1
    BY <1>1, <1>2, <1>3
  <1>5. \A i \in DOMAIN s : i = 1 \/ (i - 1 \in DOMAIN q /\ q[i - 1] = s[i])
    BY <1>1, <1>2, <1>3
  <1>6. Range(s) = {h} \cup Range(q)
    <2>1. h \in Range(s) /\ Range(q) \subseteq Range(s)
      BY <1>1, <1>4 DEF Range
    <2>2. Range(s) \subseteq {h} \cup Range(q)
      BY <1>1, <1>5 DEF Range
    <2> QED
      BY <2>1, <2>2
  <1>7. ASSUME IsInjective(s) PROVE IsInjective(q) /\ h \notin Range(q)
    <2>1. \A i, j \in DOMAIN q : q[i] = q[j] => i = j
      <3>1. \A i, j \in DOMAIN q : q[i] = q[j] => i + 1 = j + 1
        BY <1>4, <1>7 DEF IsInjective
      <3> QED
        BY <3>1, <1>1, <1>3
    <2>2. \A i \in DOMAIN q : q[i] # h
      BY <1>1, <1>4, <1>7 DEF IsInjective
    <2> QED
      BY <2>1, <2>2 DEF IsInjective, Range
  <1> QED
    BY <1>1, <1>2, <1>6, <1>7 DEF q, h

LEMMA Places ==
    /\ Ui \in Thread /\ Adc \subseteq Thread /\ ADC \in MutexId
    /\ \A t \in Thread : t = Ui \/ t \in Adc
    /\ \A t \in Thread : t # NULL
    /\ Ui \notin Adc
  BY AdcAssumption, ThreadAssumption

\* What vm::lock does to the mutex.
LEMMA TakeLockEffect ==
    ASSUME Inv, NEW t \in Thread, NEW from, TakeLock(t, from), from # "lockwait"
    PROVE  /\ FactoryTypeOK'
           /\ pc[t] = from
           /\ \/ /\ owner[ADC] = NULL
                 /\ owner'[ADC] = t
                 /\ waiters' = waiters
                 /\ freeOwners' = freeOwners
                 /\ pc' = [pc EXCEPT ![t] = Inside(t)]
              \/ /\ owner[ADC] # NULL
                 /\ owner' = owner
                 /\ IsInjective(waiters'[ADC])
                 /\ waiters'[ADC] # <<>>
                 /\ Range(waiters'[ADC]) = Range(waiters[ADC]) \cup {t}
                 /\ freeOwners' + Len(waiters'[ADC]) = MaxOwners
                 /\ pc' = [pc EXCEPT ![t] = "lockwait"]
  <1> USE Places DEF Inv, TypeOK, FactoryTypeOK
  <1>1. CASE GrantLock(t, ADC) /\ Goto(t, from, Inside(t))
    BY <1>1 DEF GrantLock, Goto
  <1>2. CASE GrantWait(t, ADC) /\ Goto(t, from, "lockwait")
    <2>1. waiters[ADC] \in Seq(Thread) /\ t \notin Range(waiters[ADC])
      BY <1>2 DEF Goto, Queue
    <2>2. waiters'[ADC] = Append(waiters[ADC], t)
      BY <1>2 DEF GrantWait
    <2>3. /\ waiters'[ADC] \in Seq(Thread)
          /\ Range(waiters'[ADC]) = Range(waiters[ADC]) \cup {t}
          /\ IsInjective(waiters'[ADC])
      BY <2>1, <2>2, Queued DEF Queue
    <2>4. Len(waiters'[ADC]) = Len(waiters[ADC]) + 1 /\ waiters'[ADC] # <<>>
      BY <2>1, <2>2, AppendProperties
    <2>5. freeOwners' + Len(waiters'[ADC]) = MaxOwners
      <3>1. freeOwners \in Nat /\ freeOwners' = freeOwners - 1
        BY <1>2 DEF GrantWait
      <3>2. Len(waiters[ADC]) \in Nat
        BY <2>1, LenProperties
      <3>3. freeOwners + Len(waiters[ADC]) = MaxOwners
        BY DEF Queue
      <3> HIDE DEF Inv, TypeOK, FactoryTypeOK
      <3> QED
        BY <3>1, <3>2, <3>3, <2>4
    <2>6. FactoryTypeOK'
      BY <1>2, <2>3 DEF GrantWait
    <2>7. owner[ADC] # NULL /\ owner' = owner
      BY <1>2 DEF GrantWait
    <2>8. pc[t] = from /\ pc' = [pc EXCEPT ![t] = "lockwait"]
      BY <1>2 DEF Goto
    <2> QED
      BY <2>3, <2>4, <2>5, <2>6, <2>7, <2>8
  <1> QED
    BY <1>1, <1>2 DEF TakeLock

\* What vm::unlock does to the mutex.
LEMMA ReleaseLockEffect ==
    ASSUME Inv, NEW t \in Thread, NEW from, NEW to, ReleaseLock(t, from, to),
           from # "lockwait"
    PROVE  /\ FactoryTypeOK'
           /\ pc[t] = from
           /\ \/ \E h \in Range(waiters[ADC]) :
                    /\ h # t
                    /\ owner[ADC] = t
                    /\ owner'[ADC] = h
                    /\ IsInjective(waiters'[ADC])
                    /\ Range(waiters'[ADC]) = Range(waiters[ADC]) \ {h}
                    /\ freeOwners' + Len(waiters'[ADC]) = MaxOwners
                    /\ pc' = [pc EXCEPT ![t] = to, ![h] = Inside(h)]
              \/ /\ owner[ADC] # NULL
                 /\ owner[ADC] # t \/ waiters[ADC] = <<>>
                 /\ owner'[ADC] = NULL
                 /\ waiters'[ADC] = <<>>
                 /\ freeOwners' = freeOwners
                 /\ pc' = [pc EXCEPT ![t] = to]
              \/ /\ owner[ADC] = NULL
                 /\ UNCHANGED factoryVars
                 /\ pc' = [pc EXCEPT ![t] = to]
  <1> USE Places DEF Inv, TypeOK, FactoryTypeOK
  <1>1. waiters[ADC] \in Seq(Thread)
    OBVIOUS
  <1>2. CASE /\ PassOn(t, ADC)
             /\ pc[t] = from
             /\ pc' = [pc EXCEPT ![t] = to, ![owner'[ADC]] = Inside(owner'[ADC])]
    <2> DEFINE h == Head(waiters[ADC])
    <2>1. /\ h \in Range(waiters[ADC]) /\ h \in Thread
          /\ Tail(waiters[ADC]) \in Seq(Thread)
          /\ IsInjective(Tail(waiters[ADC]))
          /\ h \notin Range(Tail(waiters[ADC]))
      BY <1>1, <1>2, Dequeued DEF PassOn, Queue
    <2>2. waiters'[ADC] = Tail(waiters[ADC]) /\ owner'[ADC] = h
      BY <1>2 DEF PassOn
    <2>3. /\ Range(waiters'[ADC]) = Range(waiters[ADC]) \ {h}
          /\ Len(waiters'[ADC]) = Len(waiters[ADC]) - 1
      BY <1>1, <1>2, <2>1, <2>2, Dequeued DEF PassOn
    <2>4. freeOwners' + Len(waiters'[ADC]) = MaxOwners
      <3> DEFINE n == Len(waiters[ADC])
                 m == Len(waiters'[ADC])
      <3>1. freeOwners \in Nat /\ freeOwners' = freeOwners + 1
        BY <1>2 DEF PassOn
      <3>2. n \in Nat
        BY <1>1, LenProperties
      <3>3. freeOwners + n = MaxOwners
        BY DEF Queue
      <3>4. m = n - 1
        BY <2>3
      <3> HIDE DEF n, m, Inv, TypeOK, FactoryTypeOK
      <3>5. freeOwners' + m = MaxOwners
        BY <3>1, <3>2, <3>3, <3>4
      <3> QED
        BY <3>5 DEF m
    <2>5. h # t
      BY <1>2, <2>1 DEF Queue
    <2>6. FactoryTypeOK'
      BY <1>2, <2>1 DEF PassOn
    <2>7. owner[ADC] = t
      BY <1>2 DEF PassOn
    <2>8. pc[t] = from /\ pc' = [pc EXCEPT ![t] = to, ![h] = Inside(h)]
      BY <1>2, <2>2
    <2>9. IsInjective(waiters'[ADC])
      BY <2>1, <2>2
    <2> QED
      BY <2>1, <2>2, <2>3, <2>4, <2>5, <2>6, <2>7, <2>8, <2>9
  <1>3. CASE RemoveMutex(t, ADC) /\ Goto(t, from, to)
    <2>1. FactoryTypeOK'
      BY <1>3, EmptySeq DEF RemoveMutex
    <2> QED
      BY <1>3, <2>1 DEF RemoveMutex, Goto
  <1>4. CASE owner[ADC] = NULL /\ UNCHANGED factoryVars /\ Goto(t, from, to)
    BY <1>4 DEF factoryVars, Goto
  <1> QED
    BY <1>2, <1>3, <1>4 DEF ReleaseLock

-----------------------------------------------------------------------------
LEMMA InitInv == Init => Inv
  <1> SUFFICES ASSUME Init PROVE Inv
    OBVIOUS
  <1> USE Places DEF Init, FactoryInit
  <1>1. waiters[ADC] = <<>> /\ owner[ADC] = NULL /\ <<>> \in Seq(Thread)
    BY EmptySeq
  <1>2. FactoryTypeOK
    BY <1>1, FactoryAssumption DEF FactoryTypeOK
  <1>3. TypeOK
    BY <1>2, AdcAssumption DEF TypeOK, UiPc, AdcPc
  <1>4. Handshake /\ Exclusion
    BY DEF Handshake, Exclusion, InLoop
  <1>5. Range(waiters[ADC]) = {} /\ IsInjective(waiters[ADC]) /\ Len(waiters[ADC]) = 0
    BY <1>1, LenProperties DEF Range, IsInjective
  <1>6. Queue
    BY <1>1, <1>5, FactoryAssumption DEF Queue
  <1> QED
    BY <1>3, <1>4, <1>6 DEF Inv

\* The window's steps that leave the mutex alone.
LEMMA StepWindow ==
    ASSUME Inv, OpenAlone \/ TogglePause \/ AskFinish \/ FinishSeen \/ Destroy
    PROVE  Inv'
  <1> USE Places DEF Inv
  <1>1. CASE TogglePause
    <2>1. TypeOK'
      BY <1>1 DEF TogglePause, factoryVars, TypeOK, FactoryTypeOK, UiPc, AdcPc
    <2>2. Handshake'
      BY <1>1 DEF TogglePause, factoryVars, TypeOK, Handshake, InLoop
    <2>3. Queue'
      BY <1>1 DEF TogglePause, factoryVars, TypeOK, Queue, FactoryTypeOK
    <2>4. Exclusion'
      BY <1>1 DEF TogglePause, factoryVars, TypeOK, Exclusion
    <2> QED
      BY <2>1, <2>2, <2>3, <2>4
  <1>2. CASE AskFinish
    <2>1. TypeOK'
      BY <1>2 DEF AskFinish, Goto, factoryVars, TypeOK, FactoryTypeOK, UiPc,
          AdcPc
    <2>2. Handshake'
      BY <1>2 DEF AskFinish, Goto, factoryVars, TypeOK, Handshake, InLoop
    <2>3. Queue'
      BY <1>2 DEF AskFinish, Goto, factoryVars, TypeOK, Queue, FactoryTypeOK
    <2>4. Exclusion'
      BY <1>2 DEF AskFinish, Goto, factoryVars, TypeOK, Exclusion
    <2> QED
      BY <2>1, <2>2, <2>3, <2>4
  <1>3. CASE FinishSeen
    <2>1. TypeOK'
      BY <1>3 DEF FinishSeen, Goto, factoryVars, TypeOK, FactoryTypeOK, UiPc,
          AdcPc
    <2>2. Handshake'
      BY <1>3 DEF FinishSeen, Goto, factoryVars, TypeOK, Handshake, InLoop
    <2>3. Queue'
      BY <1>3 DEF FinishSeen, Goto, factoryVars, TypeOK, Queue, FactoryTypeOK
    <2>4. Exclusion'
      BY <1>3 DEF FinishSeen, Goto, factoryVars, TypeOK, Exclusion
    <2> QED
      BY <2>1, <2>2, <2>3, <2>4
  <1>4. CASE Destroy
    <2>1. TypeOK'
      BY <1>4 DEF Destroy, Goto, factoryVars, TypeOK, FactoryTypeOK, UiPc,
          AdcPc
    <2>2. Handshake'
      BY <1>4 DEF Destroy, Goto, factoryVars, TypeOK, Handshake, InLoop
    <2>3. Queue'
      BY <1>4 DEF Destroy, Goto, factoryVars, TypeOK, Queue, FactoryTypeOK
    <2>4. Exclusion'
      BY <1>4 DEF Destroy, Goto, factoryVars, TypeOK, Exclusion
    <2> QED
      BY <2>1, <2>2, <2>3, <2>4
  <1>5. CASE OpenAlone
    <2>1. TypeOK'
      BY <1>5 DEF OpenAlone, OpenWindow, factoryVars, TypeOK, FactoryTypeOK, UiPc, AdcPc
    <2>2. Handshake'
      BY <1>5 DEF OpenAlone, OpenWindow, factoryVars, TypeOK, Handshake, InLoop
    <2>3. Queue'
      BY <1>5 DEF OpenAlone, OpenWindow, factoryVars, TypeOK, Queue, FactoryTypeOK
    <2>4. Exclusion'
      BY <1>5 DEF OpenAlone, OpenWindow, factoryVars, TypeOK, Exclusion
    <2> QED
      BY <2>1, <2>2, <2>3, <2>4
  <1> QED
    BY <1>1, <1>2, <1>3, <1>4, <1>5

\* adc_app's.
LEMMA StepLocal ==
    ASSUME Inv, NEW a \in Adc,
           \/ Open(a) \/ TestPause(a) \/ Filled(a) \/ TestFinish(a) \/ ClearFinish(a)
           \/ Return(a)
    PROVE  Inv'
  <1> USE Places DEF Inv
  <1>1. CASE Open(a)
    <2>1. TypeOK'
      BY <1>1 DEF Open, OpenWindow, factoryVars, TypeOK, FactoryTypeOK, UiPc, AdcPc
    <2>2. Handshake'
      BY <1>1 DEF Open, OpenWindow, factoryVars, TypeOK, Handshake, InLoop
    <2>3. Queue'
      BY <1>1 DEF Open, OpenWindow, factoryVars, TypeOK, Queue, FactoryTypeOK
    <2>4. Exclusion'
      BY <1>1 DEF Open, OpenWindow, factoryVars, TypeOK, Exclusion
    <2> QED
      BY <2>1, <2>2, <2>3, <2>4
  <1>2. CASE TestPause(a)
    <2>1. TypeOK'
      BY <1>2 DEF TestPause, Goto, factoryVars, TypeOK, FactoryTypeOK, UiPc,
          AdcPc
    <2>2. Handshake'
      BY <1>2 DEF TestPause, Goto, factoryVars, TypeOK, Handshake, InLoop
    <2>3. Queue'
      BY <1>2 DEF TestPause, Goto, factoryVars, TypeOK, Queue, FactoryTypeOK
    <2>4. Exclusion'
      BY <1>2 DEF TestPause, Goto, factoryVars, TypeOK, Exclusion
    <2> QED
      BY <2>1, <2>2, <2>3, <2>4
  <1>3. CASE Filled(a)
    <2>1. TypeOK'
      BY <1>3 DEF Filled, Goto, factoryVars, TypeOK, FactoryTypeOK, UiPc,
          AdcPc
    <2>2. Handshake'
      BY <1>3 DEF Filled, Goto, factoryVars, TypeOK, Handshake, InLoop
    <2>3. Queue'
      BY <1>3 DEF Filled, Goto, factoryVars, TypeOK, Queue, FactoryTypeOK
    <2>4. Exclusion'
      BY <1>3 DEF Filled, Goto, factoryVars, TypeOK, Exclusion
    <2> QED
      BY <2>1, <2>2, <2>3, <2>4
  <1>4. CASE TestFinish(a)
    <2>1. TypeOK'
      BY <1>4 DEF TestFinish, Goto, factoryVars, TypeOK, FactoryTypeOK, UiPc,
          AdcPc
    <2>2. Handshake'
      BY <1>4 DEF TestFinish, Goto, factoryVars, TypeOK, Handshake, InLoop
    <2>3. Queue'
      BY <1>4 DEF TestFinish, Goto, factoryVars, TypeOK, Queue, FactoryTypeOK
    <2>4. Exclusion'
      BY <1>4 DEF TestFinish, Goto, factoryVars, TypeOK, Exclusion
    <2> QED
      BY <2>1, <2>2, <2>3, <2>4
  <1>5. CASE ClearFinish(a)
    <2>1. TypeOK'
      BY <1>5 DEF ClearFinish, Goto, factoryVars, TypeOK, FactoryTypeOK, UiPc,
          AdcPc
    <2>2. Handshake'
      BY <1>5 DEF ClearFinish, Goto, factoryVars, TypeOK, Handshake, InLoop
    <2>3. Queue'
      BY <1>5 DEF ClearFinish, Goto, factoryVars, TypeOK, Queue, FactoryTypeOK
    <2>4. Exclusion'
      BY <1>5 DEF ClearFinish, Goto, factoryVars, TypeOK, Exclusion
    <2> QED
      BY <2>1, <2>2, <2>3, <2>4
  <1>6. CASE Return(a)
    <2>1. TypeOK'
      BY <1>6 DEF Return, Goto, factoryVars, TypeOK, FactoryTypeOK, UiPc,
          AdcPc
    <2>2. Handshake'
      BY <1>6 DEF Return, Goto, factoryVars, TypeOK, Handshake, InLoop
    <2>3. Queue'
      BY <1>6 DEF Return, Goto, factoryVars, TypeOK, Queue, FactoryTypeOK
    <2>4. Exclusion'
      BY <1>6 DEF Return, Goto, factoryVars, TypeOK, Exclusion
    <2> QED
      BY <2>1, <2>2, <2>3, <2>4
  <1> QED
    BY <1>1, <1>2, <1>3, <1>4, <1>5, <1>6

\* The window asks for the mutex.
LEMMA StepDrawLock == ASSUME Inv, DrawLock PROVE Inv'
  <1> USE Places DEF Inv
  <1>1. TakeLock(Ui, "idle") /\ UNCHANGED <<adc_pause, adc_finish, buffers, raced>>
    BY DEF DrawLock
  <1>2. /\ FactoryTypeOK'
        /\ pc[Ui] = "idle"
        /\ \/ /\ owner[ADC] = NULL
              /\ owner'[ADC] = Ui
              /\ waiters' = waiters
              /\ freeOwners' = freeOwners
              /\ pc' = [pc EXCEPT ![Ui] = "draw"]
           \/ /\ owner[ADC] # NULL
              /\ owner' = owner
              /\ IsInjective(waiters'[ADC])
              /\ waiters'[ADC] # <<>>
              /\ Range(waiters'[ADC]) = Range(waiters[ADC]) \cup {Ui}
              /\ freeOwners' + Len(waiters'[ADC]) = MaxOwners
              /\ pc' = [pc EXCEPT ![Ui] = "lockwait"]
    BY <1>1, TakeLockEffect DEF Inside
  <1>3. TypeOK'
    BY <1>1, <1>2 DEF TypeOK, UiPc, AdcPc
  <1>4. Handshake'
    BY <1>1, <1>2 DEF TypeOK, Handshake, InLoop
  <1>5. Queue'
    BY <1>1, <1>2 DEF TypeOK, FactoryTypeOK, Queue
  <1>6. Exclusion'
    BY <1>1, <1>2 DEF TypeOK, FactoryTypeOK, Exclusion
  <1> QED
    BY <1>3, <1>4, <1>5, <1>6

\* adc_app asks for the mutex.
LEMMA StepFillLock == ASSUME Inv, NEW a \in Adc, FillLock(a) PROVE Inv'
  <1> USE Places DEF Inv
  <1>1. TakeLock(a, "lock") /\ UNCHANGED <<adc_pause, adc_finish, buffers, raced>>
    BY DEF FillLock
  <1>2. /\ FactoryTypeOK'
        /\ pc[a] = "lock"
        /\ \/ /\ owner[ADC] = NULL
              /\ owner'[ADC] = a
              /\ waiters' = waiters
              /\ freeOwners' = freeOwners
              /\ pc' = [pc EXCEPT ![a] = "fill"]
           \/ /\ owner[ADC] # NULL
              /\ owner' = owner
              /\ IsInjective(waiters'[ADC])
              /\ waiters'[ADC] # <<>>
              /\ Range(waiters'[ADC]) = Range(waiters[ADC]) \cup {a}
              /\ freeOwners' + Len(waiters'[ADC]) = MaxOwners
              /\ pc' = [pc EXCEPT ![a] = "lockwait"]
    BY <1>1, TakeLockEffect DEF Inside
  <1>3. TypeOK'
    BY <1>1, <1>2 DEF TypeOK, UiPc, AdcPc
  <1>4. Handshake'
    BY <1>1, <1>2 DEF TypeOK, Handshake, InLoop
  <1>5. Queue'
    BY <1>1, <1>2 DEF TypeOK, FactoryTypeOK, Queue
  <1>6. Exclusion'
    BY <1>1, <1>2 DEF TypeOK, FactoryTypeOK, Exclusion
  <1> QED
    BY <1>3, <1>4, <1>5, <1>6

LEMMA InRange ==
    ASSUME NEW T, NEW s \in Seq(T), NEW x \in Range(s)
    PROVE  x \in T
  BY LenProperties DEF Range

\* The window gives the mutex back, or removes whatever mutex there is.
LEMMA StepDrawUnlock == ASSUME Inv, DrawUnlock PROVE Inv'
  <1> USE Places DEF Inv
  <1>1. ReleaseLock(Ui, "draw", "idle") /\ UNCHANGED <<adc_pause, adc_finish, buffers>>
    BY DEF DrawUnlock
  <1>2. raced' = raced
    BY DEF DrawUnlock
  <1>3. FactoryTypeOK' /\ pc[Ui] = "draw"
    BY <1>1, ReleaseLockEffect
  <1>4. ASSUME NEW h \in Range(waiters[ADC]), h # Ui,
               owner[ADC] = Ui,
               owner'[ADC] = h,
               IsInjective(waiters'[ADC]),
               Range(waiters'[ADC]) = Range(waiters[ADC]) \ {h},
               freeOwners' + Len(waiters'[ADC]) = MaxOwners,
               pc' = [pc EXCEPT ![Ui] = "idle", ![h] = Inside(h)]
        PROVE  Inv'
    <2>1. h \in Thread /\ pc[h] = "lockwait"
      BY <1>4, InRange DEF TypeOK, FactoryTypeOK, Queue
    <2>2. TypeOK'
      BY <1>1, <1>2, <1>3, <1>4, <2>1 DEF TypeOK, UiPc, AdcPc, Inside
    <2>3. Handshake'
      BY <1>1, <1>2, <1>3, <1>4, <2>1 DEF TypeOK, Handshake, InLoop, Inside
    <2>4. Queue'
      BY <1>1, <1>3, <1>4, <2>1 DEF TypeOK, FactoryTypeOK, Queue, Inside
    <2>5. Exclusion'
      BY <1>1, <1>2, <1>3, <1>4, <2>1 DEF TypeOK, Exclusion, Handshake, InLoop, Inside
    <2> QED
      BY <2>2, <2>3, <2>4, <2>5
  <1>5. ASSUME \/ /\ owner[ADC] # NULL
                  /\ owner[ADC] # Ui \/ waiters[ADC] = <<>>
                  /\ owner'[ADC] = NULL
                  /\ waiters'[ADC] = <<>>
                  /\ freeOwners' = freeOwners
               \/ owner[ADC] = NULL /\ UNCHANGED factoryVars,
               pc' = [pc EXCEPT ![Ui] = "idle"]
        PROVE  Inv'
    <2>1. waiters[ADC] = <<>>
      <3>1. SUFFICES ASSUME waiters[ADC] # <<>> PROVE FALSE
        OBVIOUS
      <3>2. owner[ADC] \in Thread \ {Ui}
        BY <1>5, <3>1 DEF Queue, TypeOK, FactoryTypeOK
      <3>3. PICK h \in Thread : pc[h] = "lockwait"
        BY <3>1, Dequeued, InRange DEF Queue, TypeOK, FactoryTypeOK
      <3> QED
        BY <1>3, <3>2, <3>3, <3>1 DEF Queue, Handshake, InLoop, TypeOK
    <2>2. TypeOK'
      BY <1>1, <1>2, <1>3, <1>5 DEF TypeOK, UiPc, AdcPc
    <2>3. Handshake'
      BY <1>1, <1>2, <1>3, <1>5 DEF TypeOK, Handshake, InLoop
    <2>4. Queue'
      BY <1>1, <1>3, <1>5, <2>1 DEF TypeOK, FactoryTypeOK, Queue, factoryVars
    <2>5. Exclusion'
      BY <1>1, <1>2, <1>3, <1>5, <2>1 DEF TypeOK, Exclusion, Handshake, InLoop, factoryVars
    <2> QED
      BY <2>2, <2>3, <2>4, <2>5
  <1> QED
    BY <1>1, <1>4, <1>5, ReleaseLockEffect

\* adc_app gives the mutex back, or removes the window's.
LEMMA StepFillUnlock == ASSUME Inv, NEW a \in Adc, FillUnlock(a) PROVE Inv'
  <1> USE Places DEF Inv
  <1>1. ReleaseLock(a, "unlock", "finish") /\ UNCHANGED <<adc_pause, adc_finish, buffers>>
    BY DEF FillUnlock
  <1>2. raced' = (raced \/ (owner[ADC] = Ui /\ ~adc_pause))
    BY DEF FillUnlock
  <1>3. FactoryTypeOK' /\ pc[a] = "unlock"
    BY <1>1, ReleaseLockEffect
  <1>4. ASSUME NEW h \in Range(waiters[ADC]), h # a,
               owner[ADC] = a,
               owner'[ADC] = h,
               IsInjective(waiters'[ADC]),
               Range(waiters'[ADC]) = Range(waiters[ADC]) \ {h},
               freeOwners' + Len(waiters'[ADC]) = MaxOwners,
               pc' = [pc EXCEPT ![a] = "finish", ![h] = Inside(h)]
        PROVE  Inv'
    <2>1. h \in Thread /\ pc[h] = "lockwait"
      BY <1>4, InRange DEF TypeOK, FactoryTypeOK, Queue
    <2>2. TypeOK'
      BY <1>1, <1>2, <1>3, <1>4, <2>1 DEF TypeOK, UiPc, AdcPc, Inside
    <2>3. Handshake'
      BY <1>1, <1>2, <1>3, <1>4, <2>1 DEF TypeOK, Handshake, InLoop, Inside
    <2>4. Queue'
      BY <1>1, <1>3, <1>4, <2>1 DEF TypeOK, FactoryTypeOK, Queue, Inside
    <2>5. Exclusion'
      BY <1>1, <1>2, <1>3, <1>4, <2>1 DEF TypeOK, Exclusion, Handshake, InLoop, Inside
    <2> QED
      BY <2>2, <2>3, <2>4, <2>5
  <1>5. ASSUME \/ /\ owner[ADC] # NULL
                  /\ owner[ADC] # a \/ waiters[ADC] = <<>>
                  /\ owner'[ADC] = NULL
                  /\ waiters'[ADC] = <<>>
                  /\ freeOwners' = freeOwners
               \/ owner[ADC] = NULL /\ UNCHANGED factoryVars,
               pc' = [pc EXCEPT ![a] = "finish"]
        PROVE  Inv'
    <2>1. waiters[ADC] = <<>>
      <3>1. SUFFICES ASSUME waiters[ADC] # <<>> PROVE FALSE
        OBVIOUS
      <3>2. owner[ADC] \in Thread \ {a}
        BY <1>5, <3>1 DEF Queue, TypeOK, FactoryTypeOK
      <3>3. PICK h \in Thread : pc[h] = "lockwait"
        BY <3>1, Dequeued, InRange DEF Queue, TypeOK, FactoryTypeOK
      <3> QED
        BY <1>3, <3>2, <3>3, <3>1 DEF Queue, Handshake, InLoop, TypeOK
    <2>2. TypeOK'
      BY <1>1, <1>2, <1>3, <1>5 DEF TypeOK, UiPc, AdcPc
    <2>3. Handshake'
      BY <1>1, <1>2, <1>3, <1>5 DEF TypeOK, Handshake, InLoop
    <2>4. Queue'
      BY <1>1, <1>3, <1>5, <2>1 DEF TypeOK, FactoryTypeOK, Queue, factoryVars
    <2>5. Exclusion'
      BY <1>1, <1>2, <1>3, <1>5, <2>1 DEF TypeOK, Exclusion, Handshake, InLoop, factoryVars
    <2> QED
      BY <2>2, <2>3, <2>4, <2>5
  <1> QED
    BY <1>1, <1>4, <1>5, ReleaseLockEffect

LEMMA StepInv == Inv /\ [Next]_vars => Inv'
  <1> SUFFICES ASSUME Inv, [Next]_vars PROVE Inv'
    OBVIOUS
  <1>1. CASE \E a \in Adc : Open(a) \/ AdcStep(a)
    BY <1>1, StepLocal, StepFillLock, StepFillUnlock DEF AdcStep
  <1>2. CASE OpenAlone \/ TogglePause \/ AskFinish \/ FinishSeen \/ Destroy
    BY <1>2, StepWindow
  <1>3. CASE DrawLock
    BY <1>3, StepDrawLock
  <1>4. CASE DrawUnlock
    BY <1>4, StepDrawUnlock
  <1>5. CASE UNCHANGED vars
    <2>1. TypeOK' /\ Handshake' /\ Exclusion'
      BY <1>5 DEF Inv, TypeOK, FactoryTypeOK, Handshake, InLoop, Exclusion, vars, factoryVars
    <2>2. Queue'
      BY <1>5 DEF Inv, Queue, vars, factoryVars
    <2> QED
      BY <2>1, <2>2 DEF Inv
  <1> QED
    BY <1>1, <1>2, <1>3, <1>4, <1>5 DEF Next, UiStep, UiRun, FinishPending

\* The oscilloscope keeps its inductive invariant.
THEOREM Invariance == Spec => []Inv
  BY InitInv, StepInv, PTL DEF Spec

\* The window and adc_app do not use the sample buffers at once, unless the
\* pause was lifted in the wrong place.
THEOREM ExclusiveAccess == Spec => []ExclusiveUntilRaced
  <1>1. Inv => ExclusiveUntilRaced
    <2> SUFFICES ASSUME Inv, pc[Ui] = "draw", NEW a \in Adc, pc[a] = "fill" PROVE raced
      BY DEF ExclusiveUntilRaced
    <2> QED
      BY Places DEF Inv, Exclusion, TypeOK
  <1> QED
    BY <1>1, Invariance, PTL

\* Every waiter is queued, every owner will unlock, and no OWNER slot leaks.
THEOREM WaitersKept == Spec => []NobodyForgotten
  <1>1. Inv => NobodyForgotten
    BY DEF Inv, Queue, NobodyForgotten
  <1> QED
    BY <1>1, Invariance, PTL

\* Nobody uses the buffers after adc_core_destroy.
THEOREM BuffersOutlive == Spec => []BuffersLive
  <1>1. Inv => BuffersLive
    <2> SUFFICES ASSUME Inv PROVE BuffersLive
      OBVIOUS
    <2>1. pc[Ui] \in {"lockwait", "draw"} => buffers
      BY DEF Inv, Handshake
    <2>2. ASSUME NEW a \in Adc, pc[a] \in {"lock", "lockwait", "fill"} PROVE buffers
      BY <2>2 DEF Inv, Handshake, InLoop
    <2>3. Cardinality(Sampling) <= 1
      <3>1. CASE Sampling = {}
        BY <3>1, FS_EmptySet
      <3>2. ASSUME NEW a \in Sampling PROVE Cardinality(Sampling) <= 1
        <4>1. Sampling = {a}
          BY <3>2 DEF Sampling, Inv, Handshake, InLoop
        <4> QED
          BY <4>1, FS_Singleton
      <3> QED
        BY <3>1, <3>2
    <2> QED
      BY <2>1, <2>2, <2>3 DEF BuffersLive
  <1> QED
    BY <1>1, Invariance, PTL

=============================================================================
