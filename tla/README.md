# TLA+ models of the handheld's kernel and applications

The repository is the firmware of a handheld device (STM32F4, touch display,
camera input, oscilloscope, NES player) on a small preemptive kernel of its
own.  This directory holds TLA+ modules of that software, the TLC
configurations that check them on small instances, and theorems that TLAPS
proves for every value of the constants: about the kernel, the touch driver and
its event slots, the power protocol, the oscilloscope, the camera, the sounds and
the flash disk.

    tlasany Kernel.tla                      parse
    tlc -config MCKernel.cfg MCKernel.tla   model-check
    tlapm KernelProofs.tla                  prove

`PROJECT.json` lists the components, the runs, which lines each definition
translates (`map`), the faulty variants each property catches (`mutants`), the
hazards and the theorems.

## 1. Inventory

### 1.1 The kernel (`misc/context`, `misc/depend/Arm/CortexM4`)

| part | state | operations |
|---|---|---|
| scheduler and system calls, `VM.cpp` | `CUR_THREAD`, `preemtSwitchEnabled`, `uWTick` | `DISPATCH` on every SysTick, `DISPATCH_SVC` on every system call, `PICK_READY` |
| threads and lists, `Thread.c` | control blocks (`THREAD`), one ready list per priority, drop, fault, notify, condition, event, mail and delay list, a chain per thread, `threads_total`, `thread_table` | `t_init`, `t_destroy`, `t_link_*`, `t_unlink_*`, `t_refresh`, `t_check_cond`, `t_fire_event`, `t_unchain`, `t_search` |
| mutex factory, `mutex.cpp` | list of held mutexes, two static pools | `lock`, `unlock` |
| timer factory, `timer.cpp` | lists of millisecond and second timers | `tick_ms`, `create`, `remove` |
| entry code, `machM4.s` | stack pointers | SVC and SysTick entry with interrupts masked, context switch |

A thread runs until a tick or a call of its own replaces it.  Every tick that
acts costs it one level of *virtual* priority; below the lowest level, or when
it yields or sleeps, it goes to the *drop list*.  When no thread is ready any
more the drop list is *refreshed*: all its threads get their own priority back
and are ready again.  A thread may *call* another: the caller is suspended in no
list until the called thread exits, and then runs at once.  Mutexes exist only
while they are held; unlocking one that somebody waits for runs the waiter at
once.

Hard here: everything is linked through one pair of link fields per thread,
without checks, so one wrong link in one rare order of calls corrupts two lists;
the ready count is kept by hand; wake-ups (`EXIT`, `UNLOCK`, `FIRE_EVENT`,
`NOTIFY`) link threads "without looking"; priorities change by ticks that come
between any two calls.

Correct means: a thread is in at most one list; the running thread is ready; the
count is exact; no list leads to a freed block; who waits for a call, a lock or an
event is what the waking call assumes; rounds are fair; nobody starves.

### 1.2 The applications (`entry`, `device/src/startup_app.cpp`)

`VM_SYS_THREAD`, the idle thread, creates `render` (priority 2), `main` (5) and
`sensor` (3) and yields for ever.  `main` calls one window after another (explorer,
camera, analog, settings, snake, NES, command line), each window a called thread;
the analog window creates `adc_app`.  They share six locks (FRAME, FILE, MEMORY,
SENSOR, USB, ADC), the event "wakeup", the touch slots (`TouchSensor`) and the
control structure `applicationControl`.

Hard: the order of locks between windows, render and sensor; the wake-up that can
fall between test and wait; the lock adc_app releases without holding it; the
click sample replaced while the sensor thread may play it; locks that a faulted or
exited thread keeps.  Correct means: no deadlock under the orders in use, mutual
exclusion for what a lock guards, no lost wake-up and no lost release of the touch
screen, an answer to the exit of the oscilloscope.  `settings_app` edits a private copy of
`applicationControl` and stores it, an earlier one or a file back as a whole, over what the
other threads have written meanwhile.

### 1.3 Drivers and libraries of the repository

| part | state | correct means |
|---|---|---|
| touch screen `tsc2046.cpp`, `touch.cpp` | click/touch/release machine, one event slot per window | each click gets its release; no window acts twice on an event or on one of another window's time |
| camera `camera.cpp` | `DCMIbusy`, the HAL's DMA handle, between thread and two interrupts | one transfer at a time, every transfer ends, only whole frames are shown |
| audio `wave*.cpp`, `updateAudio` | click and confirmation sample, their buffers, the HAL's lock of the DAC | no sample played before it is loaded or after it is freed; the HAL is never refused |
| flash disk `flash_disk_int.c`, USB storage | the chip with its status bit, FatFs's window | what was acknowledged is stored; the window is what the chip holds; one FAT survives |
| sprite memory `sprite.cpp` | bump pointer, list of sprites | sprites do not overlap |
| containers, allocator `misc/inc` | queue, array, stack, abstract timers, `memory_alloc` | no user in the firmware |
| samples `adc_core.cpp` | sample buffers | results within the screen |
| command line, access control | privilege, command tree | privileged commands need a logon |

### 1.4 Outside

FatFs, the STM32 HAL, the USB device library, lwIP, the ENC28J60 driver and the NES
emulator are third-party; of them only what the modelled parts rest on is translated:
the DMA, DCMI and DAC functions of the HAL that `camera.cpp` and `wave_sample.cpp` call,
and the window and the two FATs of FatFs.  The GUI toolkit, display, pin and FPGA drivers
are drawing or register I/O without protocol state of their own.

## 2. Modules

| module | models |
|---|---|
| `ThreadLists` | lists as sequences: link at the end, unlink, the part a walk keeps |
| `MutexFactory` | `MUTEX_FACTORY` |
| `Kernel` | scheduler, tick and system calls, over the two above |
| `KernelLive` | the kernel after start-up, with the fairness of the tick |
| `ThreadQueues` | abstract: what the lists promise |
| `ThreadLinks` | detailed: `thread_link`, `thread_unlink` and the walks on link fields; implements `ThreadQueues` |
| `AppLocks` | the lock and unlock calls of all windows, render and sensor, over `MutexFactory` |
| `AdcApp` | the oscilloscope's window and its sampling thread, over `MutexFactory` |
| `Power` | sleep, wake-up, the shared word `tftControl`, and the copies `settings_app` makes |
| `Clicks` | abstract: what the touch driver promises its listeners |
| `Tsc2046` | detailed: the driver's table, counters and timer flag; implements `Clicks` |
| `TouchSlots` | the event slots between the sensor thread and windows that call each other |
| `Camera` | `cam_app`, `camera.cpp` and the HAL's DMA and DCMI interrupt handlers |
| `Audio` | playing and exchanging samples, with the HAL's DAC lock |
| `FlashDisk` | the flash driver under FatFs's window and under the USB host |
| `MCKernel`, `MCKernelLive`, `MCTouchSlots`, `MCFlashDisk`, `MCPower` | instances for TLC |
| `KernelProofs`, `AdcAppProofs`, `AppsProofs`, `Tsc2046Proofs`, `TouchSlotsProofs`, `CameraProofs`, `AudioProofs`, `FlashDiskProofs` | lemmas and theorems |

`MutexFactory` is composed three times: with the scheduler in `Kernel`, where any thread may
make any call, and with the programs of the applications in `AppLocks` and `AdcApp`, where
the question is what these programs do with it.  `KernelProofs` is about `Kernel` and about
`ThreadLinks`, `AppsProofs` about `Power` and about `AppLocks`; so that one module can extend two
specifications, the definitions of `ThreadLinks` and `AppLocks` are called `LinksInit`,
`LinksNext`, `LinksSpec` and `LocksInit`, `LocksNext`, `LocksSpec`.  These two take from `Kernel` that a waiter is
granted in order and that no thread starves (`NoStarvation`).

### How `Kernel` corresponds to the code

The SVC and SysTick handlers run with interrupts masked, so one call and one tick
is one step.  Threads are arbitrary: between steps any call with any argument may
come.  There is one action per `case` of `DISPATCH_SVC` (two or three where the case
has branches that do different things: `Lock`, `LockWait`, `LockFault`; `UnlockPass`,
`UnlockRemove`; `ExitToCaller`, `ExitDestroyed`), `Tick` for `DISPATCH`, and
`PickReady` as the last part of each step that ends in `PICK_READY`.  Branches that
only return a code to the caller change nothing and have no action.

| variable | code |
|---|---|
| `cur` | `CUR_THREAD` |
| `list` | `thread_list[]`, the other lists, `THREAD::chain`, as sequences |
| `total` | `threads_total` |
| `preempt` | `preemtSwitchEnabled` |
| `heap` | control blocks handed out by `vmalloc` |
| `table` | `thread_table` |
| `status`, `prio`, `vprio`, `caller`, `event` | the fields of `THREAD` |
| `flags` | the bits `fault`, `mutex`, `waitNotify` that are set |
| `exited` | history: called threads that exited; the code keeps their blocks |
| `owner`, `waiters`, `freeMutex`, `freeOwners` | `MUTEX::owner`, `MUTEX::owners`, the counters of the pools |

Abstractions.  A control block is an identity that can be freed and handed out again;
names are control blocks (two threads with the same name are covered by choosing
either).  What a condition function or `(uWTick & 9)` evaluates to is a free choice.
`t_init`'s argument checks have no effect other than an error code.  The delay list
is never filled by the code (`t_link_delay` links into the drop list), so `SLEEP` is a
yield.  The lists are sequences: that the link fields implement them is what
`ThreadLinks` shows, under the condition that a thread is linked only when it is in
no list and unlinked only from the list it is in; `OneList`, `RunningIsReady`,
`CallersSuspended` and `WaitersBlocked` say that the kernel keeps that condition.

### How the other modules correspond to the code

In the applications' modules a thread is preempted between any two accesses to shared
state, so one assignment, test or `vm::` call is one step; what a thread does between two of
them with its own data is part of a step.

- `AppLocks`: a function is the sequence of its `vm::lock` and `vm::unlock` calls; `todo` is
  what is left of it, `mode` the locks a window keeps across its events (NES, USB, restart).
  The chain of windows is one thread, because a calling window is suspended by `vm::call`.
- `AdcApp`: `pc` is the place in `lExit`, `plotter_draw` and `adc_app`; two control blocks for
  `adc_app`, because one may be returning while the window is opened again.  `vm::create` may
  fail (`OpenAlone`); `FinishPending` is one turn of the busy-wait of `lExit`.
- `Power`: `backlight` and `backlightLock` are the bits of `TFT_CONTROL`; `Store` writes back
  the word a thread has read, so it can undo another's change (`clobbered`).  `settings_app`
  has its two static copies (`local`, `temp`, which start as zeros); APPLY, APPLY BEFORE EXIT,
  REVERT and LOAD copy a whole structure into `applicationControl`, in the model the word first
  (`CopyWord`) and the limit after it (`CopyLimit`), as they lie in memory.  The word a copy
  brings may be arbitrarily old, and a file may hold any.  `Edit` changes the private copy only.
  That `load_config` holds `SENSOR_LOCK_ID` while it reads is left out, which allows more.  A
  register or copy that will be loaded before it is read again is set to one value (`Spent`).
- `Tsc2046`: one sample is one step, because `invoke` runs under `SENSOR_LOCK_ID` and only
  `invoke_flag` is shared with the timer interrupt.  `gap` and `held` are history variables.
- `TouchSlots`: events are numbered; the number stands for the cause in `event` and for the
  position in `point`.  A suspended window stays inside `invokeEvent`.
- `Camera`: HAL and hardware state (`state`, `lock`, `error`, `flags`, `stream`); the DMA
  interrupt also comes inside the DCMI interrupt (priorities 4 and 5), so an abort is two
  steps in both callers.  `CameraInitFails` is `HAL_DMA_Init` giving up on a stream that does
  not stop: `cam_app` then does not start, but the reset dialog goes on.
- `Audio`: blocks of the heap with what they hold; `__HAL_LOCK` is two steps.
- `FlashDisk`: a sector is a few pages; a command of the chip ends well or with `EPE`, which
  the next command clears; the host writes one or two blocks in a call (`MSC_MEDIA_PACKET` over
  `STORAGE_BLK_SIZ`); `PowerLoss` is possible in every state and loses all RAM.

The history variables (`raced`, `missed`, `clobbered`, `raised`, `failed`, `overlapped`, `hosted`,
`reentered`, `selfLocked`) name the situations in which the code does lose its guarantee.  A
property that mentions one says: the guarantee holds until exactly this happens.  They record
an event in the code, never the failure itself, and each is reached in its run.

What they tell a maintainer: a wake-up that comes between a window's test of the backlight and
its `wait_event` is lost until the next one; `tftControl` needs a lock or one byte per field, and `settings_app` should store only the fields
it edits: a REVERT before the first APPLY or LOAD copies zeros, which turns the light off and sets the
limit to 0, so that the device sleeps for ever; a change of the limit should restart the count;
`adc_app` must unlock only what it locked, and `analog_app` must look at the result of `vm::create`,
without which its exit spins for ever; opening a WAV file while a touch clicks plays freed
memory; a DMA error needs `DCMIbusy = false`, and a reset
that fails must not go on; a snapshot from the NES window and a failed
allocation in `update_sprites` stop the system; errors of the flash before the last command of
a write are not seen, and a host's write of two blocks erases both before it programs one, so that a
loss of power can take both FATs; FatFs must be remounted after a USB session; `explorer_app` and
`exec_app` must not call each other in a circle.

## 3. Runs

| run | bounds | states | shows |
|---|---|---|---|
| `kernel` | idle and 2 control blocks, 2 priorities, 1 mutex, 1 event, pools of 1, table of 2, all calls | 64 234 | 8 invariants, `RoundsComplete`, `CallReturns` |
| `kernel_apps` | idle and 3 control blocks, yield, create, call, exit, lock; 2 owner slots | 163 562 | `KernelInv`, the inductive invariant |
| `kernel_starvation` | idle, render, main and a control block to call, 3 priorities | 240 548 | `NoStarvation` |
| `thread_links` | 3 threads, 2 lists, all contents of stale links | 47 552 | `BothWays`, `ImplementsQueues` |
| `locks` | window, render, sensor; 5 ids; pools of 12 as in the code | 969 | `NoDeadlock`, `HeldBetween`, `NoSmallCore`, `SensorServed` |
| `adc` | window, 2 control blocks for `adc_app`; pools of 2 | 484 | `ExclusiveUntilRaced`, `NobodyForgotten`, `BuffersLive`, `ExitAnswered` |
| `power` | limits 3 and 4, a sample every turn, no further than a raised limit | 7.9 million | `DarkOnlyAsleep`, `WholeGestures` |
| `tsc` | time-outs 2 and 3, words modulo 7 | 185 | `TypeOK`, `PressSeen`, `KeepsPromise`, `DoubleClick` |
| `touch` | 3 windows, 4 events, chains of 4 | 2.6 million | `TypeOK`, `Fresh`, `Whole`, `NotDeaf` |
| `camera` | none | 623 | `CopyWhole`, `BusyEnds`, `AcceptedStarts` |
| `audio` | 3 heap blocks | 86 599 | `PlaysWhole`, `NeverBothHang` |
| `flash` | 5 sectors of 2 pages, 2 symmetric values, 1 failure, the host writes either FAT or both | 10.6 million | `Stored`, `WindowFresh`, `OneFatLeft` |

Why these bounds are enough to be worth checking.  Two blocks besides the idle thread
give: a thread queued behind another in every list, a caller and a called thread with
a third one ready, a block freed and handed out again while others wait, an exhausted
mutex pool, owner pool and table.  The third block in `kernel_apps` adds nested calls,
two waiters on one mutex, and a third party that removes a mutex with waiters.  Two
priorities distinguish lowering a priority from dropping.  Control blocks other than
the idle thread are symmetric: the kernel compares them only for equality.  The
symmetry set is used in the safety runs only.  Deadlock is checked in the kernel runs
(a tick or a call is always possible); `thread_links` may stop, when all threads are
linked in one list and nothing is asked, so it says `CHECK_DEADLOCK FALSE`.
So do `touch`, which stops after its four events, and `locks`, in which the window may stop
with its locks; that nobody else waits in a circle is `NoDeadlock`.

The bounds of the applications' runs.  `locks`, `adc` and `camera` have no bound that the code
does not have, but for two incarnations of `adc_app` and their pools (`AdcAppProofs` is about
any number).  In `power` the limits are as small as `Period + 1 < l` allows and one of them is above
the other, so that settings raise and lower the limit while the device is awake, asleep or in the
middle of a gesture, and a sample comes just before the limit; each of the three races is reached.  Once a raised
limit has ended a sleep (`raised`) both properties hold whatever follows, so the constraint
`NotRaised` of `MCPower` ends the search there; the theorem has no such bound.  In `tsc` the words wrap and both time-outs
pass.  In `touch` three windows give a caller, a called window and one opened a second time; four
events let one event overtake another in a slot, in the sensor thread's hands and in the
window's.  In `audio` a third block is needed so that a freed block is handed out again while
another is played.  In `flash` two pages tell an error of the last command from one before it,
two data sectors a write of several blocks; one failure at any place is the fault model of
`OneFatLeft`, which says nothing of two (for `Stored` and `WindowFresh` the proofs are about any
number).  The theorems of section 4 say the same for every bound.

The properties of `kernel`:

- `OneList`, `LinkedIsLive`, `ReadyCount`, `ReadyIsRunnable` - the lists.
- `RunningIsReady` - what `t_unlink_ready(CUR_THREAD)` relies on in the tick and in
  every call that suspends; it also excludes the "Fatal error" way of `PICK_READY` and
  the "wait for notify twice" branch.
- `CallersSuspended`, `WaitersBlocked` - what `EXIT` and `UNLOCK` rely on.
- `RoundsComplete` - a dropped thread comes back only when none but the running
  thread was ready.
- `CallReturns` - a caller becomes ready only by the exit of the thread it called.

What holds although it may surprise: a thread that waits for a mutex that another
thread removes stays blocked for ever, and stays consistent; so does a thread in the
chain of one that exits.  Those are losses at the level of the applications, which the
modules of the applications are about; the kernel's lists survive them.

The properties of the others:

- `NoDeadlock` - every set of threads has one that waits for nobody in the set; `HeldBetween` -
  every way through the functions gives its locks back; `NoSmallCore` - no lock finds a pool
  empty and faults its thread, which is why `AppLocks` has no action for it; `SensorServed` -
  the sensor thread gets its lock.
- `ExclusiveUntilRaced`, `NobodyForgotten` - what is left of mutual exclusion and of the queue
  when a thread unlocks what it does not own; `BuffersLive`, `ExitAnswered` - the handshake.  Without
  an `adc_app` (its creation failed and no earlier one is left) nobody answers the exit, and the
  window spins for ever: `ExitAnswered` is about exits that begin while there is one.
- `WholeGestures`, `DarkOnlyAsleep` - sleep hides whole gestures only, and stops nobody who
  should run.  The code breaks the second by three races: a wake-up missed between test and wait
  (`missed`), a store of `tftControl` that undoes another thread's, be it one of cam_app, of the sensor
  thread or a copy of `settings_app` of a whole old structure (`clobbered`), and a limit that is
  raised over the count while the device sleeps, which ends the sleep without turning the light on
  or firing the event (`raised`).  The last breaks the first property as well: the windows then see the
  rest of a touch whose beginning was hidden.  Lowering the limit in the middle of a gesture breaks
  neither: the count of a touch that is shown stays below every limit there is, but the 0 of a
  REVERT to zeros, after which the windows are given nothing at all.
- `KeepsPromise` - refinement of `Clicks`; `PressSeen`, `DoubleClick` - no press is missed, and
  hits count exactly within the time-out.
- `Fresh`, `Whole`, `NotDeaf` - which event a window acts on, with which position, and that it
  can be reached at all.
- `CopyWhole`, `BusyEnds`, `AcceptedStarts` - the frame shown, the flag that ends, and the
  start whose result nobody looks at.
- `PlaysWhole`, `NeverBothHang` - what is played, and the HAL's flag.
- `Stored`, `WindowFresh`, `OneFatLeft` - acknowledged data, the window, and loss of power.  The host may
  write both FATs, when they are adjacent, in one call of two blocks; both are then erased before
  either is programmed, and a loss of power there leaves none.  `OneFatLeft` exempts that call
  (`HostWritesBothFats`) and no other.

### Fairness

`KernelLive` assumes of the hardware that ticks which act keep coming (three of four
values of `uWTick & 9` act, and no thread in that run disables preemption) and of the
threads that they make no other calls than yield, call, exit and lock (`Api`): they may compute for
ever or make these calls at will.
`WF` is on the tick alone, through its parity.  `NoStarvation` follows from ageing:
every tick costs the running thread a level, so every round ends.

`AdcApp` and `AppLocks` take that result over: weak fairness of each thread's steps, since a
ready thread runs again.  Nothing is assumed of the user (opening, pausing, drawing and asking
to leave are not fair), nor of the beginning of an operation in `AppLocks`.  Weak fairness of
`LockGranted` is enough because the mutex factory passes a mutex on in order.  The
other specifications state safety only and have no fairness.

## 4. Proofs

Every safety property of the runs is a theorem.  Each proof module states its inductive invariant
(`Inv`; `KernelInv` in `Kernel`, `LinksInv` and `LocksInv` for the links and the locks), proves
that the initial states satisfy it and that each action keeps it, one lemma per action, and takes
the properties from it.  TLC has checked each invariant on its run.

The assumptions are those the specifications name: sizes are natural numbers or positive, `NULL`
is not what it is the absence of (in `Audio` neither a block nor a thread), and in `TouchSlots`
the nine slots of `SensorThread` belong to nine windows (`IsInjective(Slots)`: each
`TouchSensor` is put in the table once, `startup_app.cpp:78-86`).  `Power` adds
`Period + 1 < l` for each limit `l`.

### Kernel

The first lemmas of `KernelProofs` say what the operators on lists do for any sequence:
`Keep(s, S)` has exactly the elements of `s` in `S`, without repetition if `s` has none; linking
and unlinking keep the lists exclusive.  `Keep` is defined by positions and ranks, not by
recursion, so that this can be proved without induction over data.

`Invariance` is `Spec => []KernelInv` for any finite set of threads, any number of priorities,
mutexes and events and any size of pools and table, from `KernelAssumption` (the idle thread is a
thread, at least one priority, at least one table slot), `ThreadAssumption` (finitely many
threads, `NULL` is none) and `FactoryAssumption` (pool sizes are natural numbers); the eight invariants of the run
follow.  None of the eight is inductive alone.  `KernelInv` adds to them

- `Consistent`: exact ready count, each list exclusive, no dead thread in any list, each
  ready thread in the list of its virtual priority, and in *every other list* what the
  call that will link the thread ready relies on: a virtual priority that is a ready
  list's, and no flag except the one that call clears;
- `IdleCompetes`: the idle thread is ready or dropped, because no call that blocks is
  granted to it.  So after a refresh somebody is ready and `PICK_READY` finds a thread;
- a live thread in no list has a virtual priority that is a ready list's (callers, lock
  waiters, faulted threads): it was running, hence ready, when it left the lists.

One lemma per building block says what it does to consistent lists (`MoveConsistent`,
`UnlinkConsistent`, `LinkConsistent`, and the one for `PICK_READY`), and one per action
puts them together.

Two theorems are about steps.  `RoundsAreComplete`: the drop list loses a thread only in
`PICK_READY`, when no ready list has one, or by the reset; every other step only adds to it.
`CallersResumedByExit`: a suspended caller is in no list, so a step makes it ready only by linking
it, and the steps that link a thread take it from a list (a walk), from the queue of a mutex, from the
heap, or from the caller field of the thread that exits; the first three are no suspended
callers.  One lemma per action says which threads it may bring in (`MayEnter`).

### Links

`LinksImplementQueues` is the refinement `LinksSpec => Queues!Spec` for any finite set of threads and
any lists, with any stale contents of the links; `LinksAgree` is `BothWays`.  The inductive
invariant is `LinksInv`, which says that the memory *represents* the queues that are read from it:
`Represents(m, q)` holds when the lists of `q` are exclusive and each is linked both ways, from the
null pointer to the null pointer (`ListOf`).  Nothing is said of the links of a thread in no list, as the
code says nothing of them.  The argument has three layers.

- `LinkFields` and `UnlinkFields`: the fields each function writes.  `LinkStep`, `UnlinkStep`: a
  memory that represents `q` then represents `q` with the thread appended, or cut out; the case of
  the last thread is the one a careless unlink forgets.
- `FollowAlong`: what following the links meets is the represented list, so that the memory
  represents one `q` only (`QueuesFound`).  `Follow` is a recursive function; that it computes the
  list is proved without induction, by the least number at which it would not (`LeastNumber`, from the
  library's `WFMin`, which is about sets).
- `VisitStep`: after `n` visits the walk has made the memory represent the lists in which the
  selected threads among the first `n` have moved (`Walked`), and it holds the next thread and the one
  after it, both read before they are relinked.  `WalkStep` follows by the least visit at which this
  fails, and `MetAll` says that after the last visit this is the move of `ThreadQueues`, `Keep` and all.

### Applications and power

`AdcAppProofs` proves `ExclusiveUntilRaced`, `NobodyForgotten` and `BuffersLive` for any set of
control blocks and any pool sizes.  The inductive invariant is `TypeOK`, `Handshake` (one
`adc_app` is in its loop, and the window waits for it before it destroys the buffers), `Queue`
(the waiters are in the queue once, who owns the mutex will unlock it, slots are conserved) and
`Exclusion` (before a race, a window that draws without its mutex does so in a pause, with
`adc_app` outside its critical section, and who fills owns).  `Handshake` is needed for `Queue`: with two
sampling threads the unlock without ownership would forget a waiter.

`AppsProofs` proves `TypeOK`, `DarkOnlyAsleep` and `WholeGestures` for any set of limits and any
sampling period with `Period + 1 < l` for each of them (about 100 turns against 5000 to 100 000 in the
code), an assumption the proof needs: with a longer period the system would fall asleep between two
samples of a pressed finger.  A file that holds another limit than these is outside the theorem.  The
invariant is `TypeOK`, `SensorKnows` (where the sensor thread is agrees with the time-out), `Accounted`
(who waits is waited for, or missed the event) and `Midway` (in the middle of a touch the time-out is at
most the turns since the last sample, so below every limit but 0), the last three until a limit is
raised over the count, and `Accounted` until a store is undone.  The copies of `settings_app` need nothing
but their types: a copy that brings a word other than the one it replaces is such an undoing store.

`AppsProofs` also proves `NoDeadlock`, `HeldBetween` and `NoSmallCore` of `AppLocks`.  Threads, ids and
functions are the firmware's; only the pools' sizes are parameters.  What the proofs add to the run,
which is the whole system, is why it holds.  `After(calls, S, n)` is what a thread that owns `S` owns
after `n` of its calls, and `OnlyOwn` says that it unlocks only what it then owns.  The functions are put
together from rows of locks and of unlocks (`RunsLock`, `RunsUnlock`, `RunsConcat`): a function that
unlocks what it has locked, in any order, gives it all back (`RunsBracket`).  The invariant `LocksInv` says

- `InTurn`: render and the sensor thread own their one lock exactly in the second half of a turn;
- `LeavesMode`: what the window has still to do leaves it with the locks of its mode, or locks an id
  that it then owns (`Relocks`: the snapshot of `pnesx_app`);
- `QueuedOnce`: a thread in a queue is there once and in no other, and calls for that lock;
- `WaitsForItself`: the window waits for itself from the moment `selfLocked` is set, and not before.

`NoDeadlock` follows from the first, third and fourth: of the threads that own something only the
window can wait.  So a circle is the window alone, in whatever orders it locks: a new
window needs no order of the locks, as long as render and the sensor thread hold one lock each, the
windows are one thread and unlock only their own.  `HeldBetween` is `LeavesMode` when nothing is left.
`PoolsExact` adds that the counters of the pools are what is owned and who waits leave of them, which
needs that a waiter is queued once; a mutex for each id and an owner for each thread then suffice.

### Touch

`Tsc2046Proofs` proves the three properties and the refinement of `Clicks` for any time-outs and
word size.  The invariant is `TypeOK`, `Gesture` (state and last event agree), `Countdown` (the
time-out counts the samples since the release) and `Seen`; the refinement is a lemma that maps the initial
state and each action to one of `Clicks` or to a stutter.

`TouchSlotsProofs` proves `TypeOK`, `Fresh`, `Whole` and `NotDeaf` for any windows, any calls between
them and any number of events.  What makes this inductive is `Slot`: each member of a slot is
cleared, or holds exactly the last event stored there (`LastPoint`, `LastCause`, which the place of the
sensor thread in its loop determines).  From it

- `Unacted`: a cause that is not cleared is later than all the window acted on, because acting
  clears it and what comes back was stored later;
- `Missing`: a position is cleared only until the next event but one, so the position that goes
  with a cause (`Copied`) is behind it in the two ways that `Whole` names and no other;
- `Listening`: while no window is opened twice the chain has no window twice, and each window of
  it but the one being opened has exactly one listener.

### Camera, sounds, flash disk

`CameraProofs` has no constant to generalise over; it says why what TLC finds is so.  `Stream`:
the hardware's stream and its flags agree with `state`, and the flag a finished transfer raises
comes with a whole frame, told from the one an abort raises by the state `ABORT`.  `Snapshot`:
`DCMIbusy` is clear only when no transfer is under way, and the thread that finds it clear while
it waits finds a whole frame.  `Agreement`: `DCMIbusy`, the state and the lock of the stream
go together until an error or an abort hits a transfer or `DCMIinit` fails.

`AudioProofs` proves `PlaysWhole` and `NeverBothHang` for a heap of any size.  `Samples` says of the
two samples that they are whole and different, but for the one `updateAudio` is exchanging, and
of the old one that no sample refers to it any more when it is freed; `Locking`, that at start-up
`SENSOR_LOCK_ID` keeps the sensor thread out of the exchange; `Apart`, that until an exchange
without the lock meets a click, who plays has a whole block and nobody is exchanging.

`FlashDiskProofs` proves `Stored`, `WindowFresh` and `OneFatLeft` for any number of pages and
sectors, any set of sectors the host writes and any number of failures and losses of power.
The invariant follows the loops of `at_prog_blk`: `ErasedSoFar` and `ProgrammedSoFar` say block by
block and page by page what has been done, but for the sectors whose error a later command
overwrote (`missed`); `Done`, that at the return the target holds what was to be written;
`Unacknowledged`, that nothing being written counts as acknowledged; `Command`, what each caller
asks for, so that no two files' sectors are mixed up; `NoFaultYet`, that before the first fault only
the target of the command under way is not whole, which is at most one of the two FATs for a
command of FatFs, and for one of the host unless it writes both.

### Only model-checked

`NoStarvation`, `ExitAnswered` and `SensorServed`: liveness under fairness is out of the prover's
reach, as is `ENABLED`.  No induction over data was needed: what recursive functions compute
(`Follow`, `Walk`) is proved by the least counterexample, and the operators on lists are defined by
positions.

## 5. Not modelled, and why

Of the kernel: `NOTIFY_WAIT`, `MAIL`, `WAIT_MAIL` and the timer calls, which no application makes
(so the timer factory's lists stay empty), and register and stack switching.  Of the
applications: what windows draw, what they edit but for the two fields in `Power`, string commands, clock and battery.  Of the drivers: the
calibration and the conversion of positions, the video decoder's registers, the parsers of
images and sounds, the flash chip's start-up and the USB descriptors: sequential conversions or
register I/O.  `QueueStatic`, `Array`, `Stack`, the abstract timers and `memory_alloc` have no
user in the firmware.  The oscilloscope's arithmetic is floating point (its 16-bit products wrap before
`adc_core.cpp:63` clamps them, which no property here covers), `allocSprite` (`sprite.cpp:27`) never
compares with the size of its memory, and the kernel calls `malloc` in its SVC handler
(`Thread.c:119`), whose locking is the C library's.  The fast erase of the flash
(`AT_ERASE_FAST`) is switched off in this build.

Nearly all lines of the repository are third-party: the code page tables of FatFs alone are more
than 26 000 lines, the STM32 HAL and its register definitions, lwIP and the USB library the
rest.  Translating them would say nothing of this program, so the share of the repository's lines that
`map` covers stays small; the repository's own code that keeps state across threads,
interrupts or loss of power is what is covered.

## 6. Plan

| what | about |
|---|---|
| two failures in `flash` | which FAT survives a failed write followed by a loss of power |
| `ThreadCalls` | NOTIFY_WAIT and MAIL on link fields, should an application come to use them |
