-------------------------- MODULE FlashDiskProofs --------------------------
(***************************************************************************)
(* The safety of the disk for any block and disk size, any contents, any   *)
(* set of sectors the host writes and any number of failed commands and    *)
(* losses of power.  The argument follows at_prog_blk: what its loops have *)
(* erased and programmed so far is known block by block and page by page,  *)
(* but for the sectors with an error it has overwritten; nothing it is     *)
(* still writing is acknowledged, and no other sector changes.             *)
(***************************************************************************)
EXTENDS FlashDisk, TLAPS

Commands ==
    [who : {"none", "window", "copy", "data", "usb"},
     step : {"none", "erase", "program", "return"},
     blk : Nat, num : Nat, i : Nat, failed : BOOLEAN, src : Content]

Types ==
    /\ flash \in [Sector -> Content]
    /\ epe \in BOOLEAN
    /\ win \in [sector : {Fat, Dir, NULL}, data : Content, dirty : BOOLEAN]
    /\ call \in {"none", "read", "write"}
    /\ usb \in BOOLEAN
    /\ cmd \in Commands
    /\ acked \in [Sector -> Content \cup {NULL}]
    /\ missed \subseteq Sector
    /\ hosted \subseteq Sector
    /\ faults \in Nat

\* The sectors at_prog_blk writes, and whether it is still at it.
Target == Range(cmd.blk, cmd.num)

Writing == cmd.step \in {"erase", "program"}

\* What each caller asks at_prog_blk for.
Command ==
    /\ win.dirty => win.sector # NULL
    /\ cmd.who = "none" => cmd = NoCmd
    /\ cmd.who # "none" =>
          cmd.step # "none" /\ cmd.num \in 1 .. 2 /\ Target \subseteq Sector
    /\ cmd.who = "window" =>
          win.dirty /\ cmd.num = 1 /\ cmd.blk = win.sector /\ cmd.src = win.data
    /\ cmd.who = "copy" => win.sector = Fat /\ cmd.num = 1 /\ cmd.blk = Fat + FSize
    /\ cmd.who = "data" => Target \subseteq Data
    /\ cmd.who = "usb" => Target \subseteq hosted

\* What the loops of at_prog_blk have done so far.
ErasedSoFar ==
    cmd.step = "erase" =>
        /\ cmd.i <= cmd.num
        /\ \A b \in Target \ missed :
              b < cmd.blk + cmd.i /\ (cmd.i < cmd.num \/ ~cmd.failed) =>
                  flash[b] = Filled("erased")

PageAt(j) == flash[cmd.blk + j \div Pages][j % Pages]

ProgrammedSoFar ==
    cmd.step = "program" =>
        /\ cmd.i <= cmd.num * Pages
        /\ \A j \in 0 .. cmd.num * Pages - 1 :
              (cmd.blk + j \div Pages) \notin missed /\ (cmd.i < cmd.num * Pages \/ ~epe) =>
                  PageAt(j) = IF j < cmd.i THEN cmd.src[j % Pages] ELSE "erased"

Done ==
    cmd.step = "return" /\ ~cmd.failed => \A b \in Target \ missed : flash[b] = cmd.src

\* What is being written is not acknowledged.
Unacknowledged ==
    Writing \/ (cmd.step = "return" /\ cmd.failed) => \A s \in Target : acked[s] = NULL

\* Until something fails only a sector that is being written is not whole.
NoFaultYet ==
    faults = 0 =>
        /\ missed = {} /\ ~epe /\ ~cmd.failed
        /\ \A s \in Sector : Whole(s) \/ (Writing /\ s \in Target)
        /\ win.sector # NULL => win.data \in [Page -> Val]
        /\ cmd.who # "none" => cmd.src \in [Page -> Val]

\* The inductive invariant.
Inv ==
    /\ Types
    /\ Command
    /\ ErasedSoFar /\ ProgrammedSoFar /\ Done
    /\ Unacknowledged /\ Stored
    /\ WindowFresh
    /\ NoFaultYet

-----------------------------------------------------------------------------
\* The pages of one or two blocks, counted from the first.
LEMMA PageNumbers ==
    ASSUME NEW n \in 1 .. 2, NEW j \in 0 .. n * Pages - 1
    PROVE  /\ j \div Pages \in 0 .. n - 1
           /\ j % Pages \in Page
           /\ j \div Pages = IF j < Pages THEN 0 ELSE 1
           /\ j % Pages = IF j < Pages THEN j ELSE j - Pages
  <1>1. CASE n = 1
    BY <1>1, FlashAssumption DEF Page
  <1>2. CASE n = 2
    BY <1>2, FlashAssumption DEF Page
  <1> QED
    BY <1>1, <1>2

\* Two pages with the same block and place are the same.
LEMMA PageNumbersDiffer ==
    ASSUME NEW n \in 1 .. 2, NEW j \in 0 .. n * Pages - 1, NEW k \in 0 .. n * Pages - 1,
           j \div Pages = k \div Pages, j % Pages = k % Pages
    PROVE  j = k
  <1>1. n * Pages \in Nat /\ Pages \in Nat \ {0}
    BY FlashAssumption
  <1>2. /\ j \div Pages = IF j < Pages THEN 0 ELSE 1
        /\ j % Pages = IF j < Pages THEN j ELSE j - Pages
    BY PageNumbers
  <1>3. /\ k \div Pages = IF k < Pages THEN 0 ELSE 1
        /\ k % Pages = IF k < Pages THEN k ELSE k - Pages
    BY PageNumbers
  <1> QED
    BY <1>1, <1>2, <1>3

\* Every page of the blocks has a number.
LEMMA PageNumbered ==
    ASSUME NEW n \in 1 .. 2, NEW c \in 0 .. n - 1, NEW p \in Page
    PROVE  \E j \in 0 .. n * Pages - 1 : j \div Pages = c /\ j % Pages = p
  <1> DEFINE j == c * Pages + p
  <1>1. j \in 0 .. n * Pages - 1 /\ (j < Pages <=> c = 0) /\ j = IF c = 0 THEN p ELSE Pages + p
    BY FlashAssumption DEF Page
  <1>2. /\ j \div Pages = IF j < Pages THEN 0 ELSE 1
        /\ j % Pages = IF j < Pages THEN j ELSE j - Pages
    BY <1>1, PageNumbers
  <1>3. j \div Pages = c /\ j % Pages = p
    <2>1. c \in {0, 1} /\ p \in Nat /\ Pages \in Nat
      BY FlashAssumption DEF Page
    <2> HIDE DEF j
    <2> QED
      BY <1>1, <1>2, <2>1
  <1> QED
    BY <1>1, <1>3

LEMMA FilledType ==
    /\ Filled("erased") \in Content /\ Filled("bad") \in Content
    /\ \A v \in Val : Filled(v) \in Content /\ Filled(v) \in [Page -> Val]
  BY DEF Filled, Content

LEMMA NoCmdFacts ==
    /\ NoCmd \in Commands
    /\ NoCmd.who = "none" /\ NoCmd.step = "none" /\ NoCmd.failed = FALSE
  BY FilledType DEF NoCmd, Commands

LEMMA SectorFacts ==
    /\ Fat \in Sector /\ FSize \in Sector /\ Dir \in Sector /\ Fat + FSize = FSize
    /\ Data \subseteq Sector /\ Sector \subseteq Nat /\ HostSector \subseteq Sector
    /\ Fat \notin Data /\ FSize \notin Data /\ Dir \notin Data
    /\ NULL \notin Sector
    /\ Pages \in Nat \ {0}
    /\ Fat # FSize /\ Dir # FSize /\ Fat # Dir
  BY FlashAssumption DEF Sector, Fat, FSize, Dir, Data

-----------------------------------------------------------------------------
LEMMA InitInv == Init => Inv
  <1> SUFFICES ASSUME Init PROVE Inv
    OBVIOUS
  <1>1. PICK v \in Val : flash = [s \in Sector |-> Filled(v)]
    BY DEF Init
  <1>2. Types
    BY <1>1, FilledType, SectorFacts DEF Init, Types, Commands, NoCmd, NoWindow
  <1>3. Stored
    BY DEF Init, Stored
  <1>4. NoFaultYet
    BY <1>1, FilledType DEF Init, NoFaultYet, NoCmd, NoWindow, Whole, Sector
  <1> QED
    BY <1>2, <1>3, <1>4 DEF Init, Inv, Command, ErasedSoFar, ProgrammedSoFar, Done,
       Unacknowledged, WindowFresh, NoCmd, NoWindow, Writing

-----------------------------------------------------------------------------
\* Steps that leave the chip and the command alone: what FatFs does to its
\* window, and the USB session's begin and end.
LEMMA StepStill ==
    ASSUME Inv, UNCHANGED <<chipVars, cmd, acked>>
    PROVE  /\ ErasedSoFar' /\ ProgrammedSoFar' /\ Done'
           /\ Unacknowledged' /\ Stored'
  <1> USE DEF Inv, chipVars
  <1>1. ErasedSoFar'
    BY DEF ErasedSoFar, Target
  <1>2. ProgrammedSoFar'
    BY DEF ProgrammedSoFar, PageAt
  <1>3. Done'
    BY DEF Done, Target
  <1>4. Unacknowledged' /\ Stored'
    BY DEF Unacknowledged, Stored, Writing, Target
  <1> QED
    BY <1>1, <1>2, <1>3, <1>4

LEMMA StepOpen ==
    ASSUME Inv, NEW mode \in {"read", "write"}, Open(mode)
    PROVE  Inv'
  <1> USE DEF Inv, Open, chipVars
  <1>1. Types' /\ Command'
    BY DEF Types, Command, Target
  <1>2. WindowFresh' /\ NoFaultYet'
    BY DEF WindowFresh, NoFaultYet, Writing, Target, Whole
  <1> QED
    BY <1>1, <1>2, StepStill

LEMMA StepUsbSession ==
    ASSUME Inv, UsbConnect \/ UsbDisconnect
    PROVE  Inv'
  <1> USE DEF Inv, UsbConnect, UsbDisconnect, chipVars
  <1>1. Types' /\ Command'
    BY DEF Types, Command, Target
  <1>2. WindowFresh' /\ NoFaultYet'
    BY DEF WindowFresh, NoFaultYet, Writing, Target, Whole
  <1> QED
    BY <1>1, <1>2, StepStill

LEMMA StepClose == ASSUME Inv, Close PROVE Inv'
  <1> USE DEF Inv, Close, chipVars
  <1>1. Types' /\ Command'
    BY DEF Types, Command, Target
  <1>2. WindowFresh' /\ NoFaultYet'
    BY DEF WindowFresh, NoFaultYet, Writing, Target, Whole
  <1> QED
    BY <1>1, <1>2, StepStill

LEMMA StepReadWindow ==
    ASSUME Inv, NEW s \in {Fat, Dir}, ReadWindow(s)
    PROVE  Inv'
  <1> USE DEF Inv, ReadWindow, chipVars
  <1>1. Types'
    <2>1. CASE epe
      <3>1. win' = NoWindow /\ call' = "none" /\ hosted' = hosted \ {s}
        BY <2>1
      <3>2. NoWindow \in [sector : {Fat, Dir, NULL}, data : Content, dirty : BOOLEAN]
        BY FilledType DEF NoWindow
      <3> QED
        BY <3>1, <3>2 DEF Types
    <2>2. CASE ~epe
      <3>1. flash[s] \in Content /\ s \in {Fat, Dir, NULL}
        BY SectorFacts DEF Types
      <3>2. /\ win' = [sector |-> s, data |-> flash[s], dirty |-> FALSE]
            /\ call' = call /\ hosted' = hosted \ {s}
        BY <2>2
      <3>3. [sector |-> s, data |-> flash[s], dirty |-> FALSE]
               \in [sector : {Fat, Dir, NULL}, data : Content, dirty : BOOLEAN]
        BY <3>1
      <3> QED
        BY <3>2, <3>3 DEF Types
    <2> QED
      BY <2>1, <2>2
  <1>2. Command'
    BY DEF Command, Target, NoCmd, NoWindow
  <1>3. WindowFresh'
    BY DEF WindowFresh, NoWindow
  <1>4. NoFaultYet'
    BY SectorFacts DEF NoFaultYet, NoCmd, NoWindow, Writing, Target, Whole
  <1> QED
    BY <1>1, <1>2, <1>3, <1>4, StepStill

LEMMA StepChange ==
    ASSUME Inv, NEW p \in Page, NEW v \in Val, Change(p, v)
    PROVE  Inv'
  <1> USE DEF Inv, Change, chipVars
  <1>1. Types'
    BY DEF Types, Content
  <1>2. Command'
    BY DEF Command, Target, NoCmd, Types
  <1>3. WindowFresh'
    BY DEF WindowFresh, Types
  <1>4. NoFaultYet'
    BY DEF NoFaultYet, NoCmd, Types, Writing, Target, Whole
  <1> QED
    BY <1>1, <1>2, <1>3, <1>4, StepStill

-----------------------------------------------------------------------------
\* at_prog_blk is called: nothing is erased yet, and the sectors are no
\* longer acknowledged.
LEMMA BeginEffect ==
    ASSUME Inv, NEW who \in {"window", "data", "usb"}, NEW b \in Nat, NEW n \in 1 .. 2,
           NEW data \in Content, Begin(who, b, n, data), Range(b, n) \subseteq Sector
    PROVE  /\ cmd = NoCmd
           /\ cmd' = [who |-> who, step |-> "erase", blk |-> b, num |-> n, i |-> 0,
                      failed |-> FALSE, src |-> data]
           /\ UNCHANGED <<flash, epe, faults>>
           /\ acked' \in [Sector -> Content \cup {NULL}]
           /\ missed' = missed \ Range(b, n)
           /\ ErasedSoFar' /\ ProgrammedSoFar' /\ Done'
           /\ Unacknowledged' /\ Stored'
  <1> USE DEF Inv, Begin
  <1>1. Target' = Range(b, n)
    BY DEF Target
  <1>2. acked' \in [Sector -> Content \cup {NULL}]
    BY DEF Types
  <1>3. ErasedSoFar'
    BY <1>1 DEF ErasedSoFar, Range
  <1>4. ProgrammedSoFar' /\ Done'
    BY DEF ProgrammedSoFar, Done
  <1>5. Unacknowledged'
    BY <1>1 DEF Unacknowledged
  <1>6. Stored'
    BY DEF Stored
  <1> QED
    BY <1>2, <1>3, <1>4, <1>5, <1>6

LEMMA StepSyncWindow == ASSUME Inv, SyncWindow PROVE Inv'
  <1> USE DEF Inv
  <1>1. /\ win.sector \in Sector /\ win.sector \in Nat /\ win.data \in Content
        /\ Range(win.sector, 1) = {win.sector}
        /\ win.dirty /\ UNCHANGED <<win, call, usb, hosted>>
        /\ Begin("window", win.sector, 1, win.data)
    BY SectorFacts DEF SyncWindow, SyncBlocks, Command, Types, Range
  <1>2. /\ cmd = NoCmd
        /\ cmd' = [who |-> "window", step |-> "erase", blk |-> win.sector, num |-> 1, i |-> 0,
                   failed |-> FALSE, src |-> win.data]
        /\ UNCHANGED <<flash, epe, faults>>
        /\ acked' \in [Sector -> Content \cup {NULL}]
        /\ missed' = missed \ {win.sector}
        /\ ErasedSoFar' /\ ProgrammedSoFar' /\ Done' /\ Unacknowledged' /\ Stored'
    BY <1>1, BeginEffect
  <1>3. Target' = {win.sector}
    BY <1>1, <1>2 DEF Target
  <1>4. Types'
    BY <1>1, <1>2 DEF Types, Commands
  <1>5. Command'
    BY <1>1, <1>2, <1>3 DEF Command
  <1>6. WindowFresh'
    BY <1>1 DEF WindowFresh
  <1>7. NoFaultYet'
    BY <1>1, <1>2, SectorFacts DEF NoFaultYet, NoCmd, Writing, Whole
  <1> QED
    BY <1>2, <1>4, <1>5, <1>6, <1>7

LEMMA StepWriteData ==
    ASSUME Inv, NEW b \in Data, NEW n \in 1 .. 2, NEW v \in Val, WriteData(b, n, v)
    PROVE  Inv'
  <1> USE DEF Inv
  <1>1. /\ b \in Nat /\ Filled(v) \in Content /\ Filled(v) \in [Page -> Val]
        /\ Range(b, n) \subseteq Data /\ Range(b, n) \subseteq Sector
        /\ UNCHANGED <<win, call, usb, hosted>>
        /\ Begin("data", b, n, Filled(v))
    BY SectorFacts, FilledType DEF WriteData
  <1>2. /\ cmd = NoCmd
        /\ cmd' = [who |-> "data", step |-> "erase", blk |-> b, num |-> n, i |-> 0,
                   failed |-> FALSE, src |-> Filled(v)]
        /\ UNCHANGED <<flash, epe, faults>>
        /\ acked' \in [Sector -> Content \cup {NULL}]
        /\ missed' = missed \ Range(b, n)
        /\ ErasedSoFar' /\ ProgrammedSoFar' /\ Done' /\ Unacknowledged' /\ Stored'
    BY <1>1, BeginEffect
  <1>3. Target' = Range(b, n)
    BY <1>2 DEF Target
  <1>4. Types'
    BY <1>1, <1>2 DEF Types, Commands
  <1>5. Command'
    BY <1>1, <1>2, <1>3 DEF Command
  <1>6. WindowFresh'
    BY <1>1, <1>2, SectorFacts DEF WindowFresh, Types
  <1>7. NoFaultYet'
    BY <1>1, <1>2, SectorFacts DEF NoFaultYet, NoCmd, Writing, Whole
  <1> QED
    BY <1>2, <1>4, <1>5, <1>6, <1>7

LEMMA StepUsbWrite ==
    ASSUME Inv, NEW b \in HostSector, NEW n \in 1 .. MediaBlocks, NEW v \in Val, UsbWrite(b, n, v)
    PROVE  Inv'
  <1> USE DEF Inv
  <1>1. /\ b \in Nat /\ n \in 1 .. 2 /\ Filled(v) \in Content /\ Filled(v) \in [Page -> Val]
        /\ Range(b, n) \subseteq Sector
        /\ UNCHANGED <<win, call, usb>> /\ hosted' = hosted \cup Range(b, n)
        /\ Begin("usb", b, n, Filled(v))
    BY SectorFacts, FilledType DEF UsbWrite, MediaBlocks
  <1>2. /\ cmd = NoCmd
        /\ cmd' = [who |-> "usb", step |-> "erase", blk |-> b, num |-> n, i |-> 0,
                   failed |-> FALSE, src |-> Filled(v)]
        /\ UNCHANGED <<flash, epe, faults>>
        /\ acked' \in [Sector -> Content \cup {NULL}]
        /\ missed' = missed \ Range(b, n)
        /\ ErasedSoFar' /\ ProgrammedSoFar' /\ Done' /\ Unacknowledged' /\ Stored'
    BY <1>1, BeginEffect
  <1>3. Target' = Range(b, n)
    BY <1>2 DEF Target
  <1>4. Types'
    BY <1>1, <1>2 DEF Types, Commands
  <1>5. Command'
    BY <1>1, <1>2, <1>3 DEF Command
  <1>6. WindowFresh'
    BY <1>1, <1>2 DEF WindowFresh
  <1>7. NoFaultYet'
    BY <1>1, <1>2, SectorFacts DEF NoFaultYet, NoCmd, Writing, Whole
  <1> QED
    BY <1>2, <1>4, <1>5, <1>6, <1>7

-----------------------------------------------------------------------------
\* A command that is under way has a caller, and the window it may write is
\* dirty or known to the host; only a host's has both copies of the FAT to
\* write.
LEMMA Underway ==
    ASSUME Types, Command, cmd.step # "none"
    PROVE  /\ cmd.who # "none" /\ cmd.num \in 1 .. 2 /\ Target \subseteq Sector
           /\ \A c \in 0 .. cmd.num - 1 : cmd.blk + c \in Target
           /\ \A b \in Target : \E c \in 0 .. cmd.num - 1 : b = cmd.blk + c
           /\ win.sector \in Target => win.dirty \/ win.sector \in hosted
           /\ Fat \in Target /\ Fat + FSize \in Target => cmd.who = "usb"
  <1>1. cmd.who # "none" /\ cmd.num \in 1 .. 2 /\ Target \subseteq Sector /\ cmd.blk \in Nat
    BY DEF Types, Commands, Command, NoCmd
  <1>2. \A c \in 0 .. cmd.num - 1 : cmd.blk + c \in Target
    BY <1>1 DEF Target, Range
  <1>3. ASSUME NEW b \in Target PROVE \E c \in 0 .. cmd.num - 1 : b = cmd.blk + c
    <2>1. b - cmd.blk \in 0 .. cmd.num - 1 /\ b = cmd.blk + (b - cmd.blk)
      BY <1>1 DEF Target, Range
    <2> QED
      BY <2>1
  <1>4. cmd.num = 1 => Target = {cmd.blk}
    BY <1>1 DEF Target, Range
  <1>5. win.sector \in Target => win.dirty \/ win.sector \in hosted
    <2>1. CASE cmd.who = "window"
      BY <2>1 DEF Command
    <2>2. CASE cmd.who = "copy"
      BY <2>2, <1>4, SectorFacts DEF Command
    <2>3. CASE cmd.who = "data"
      BY <2>3, SectorFacts DEF Command, Types
    <2>4. CASE cmd.who = "usb"
      BY <2>4 DEF Command
    <2> QED
      BY <1>1, <2>1, <2>2, <2>3, <2>4 DEF Types, Commands
  <1>6. Fat \in Target /\ Fat + FSize \in Target => cmd.who = "usb"
    <2>1. CASE cmd.who = "data"
      BY <2>1, SectorFacts DEF Command
    <2>2. CASE cmd.who \notin {"data", "usb"}
      BY <2>2, <1>1, <1>4, SectorFacts DEF Command, Types, Commands
    <2> QED
      BY <2>1, <2>2
  <1> QED
    BY <1>1, <1>2, <1>3, <1>5, <1>6

\* What a failed, finished or interrupted command of the chip does to one
\* sector at_prog_blk is writing leaves everything said of the others, of
\* acknowledged data and of the window.
LEMMA OneSector ==
    ASSUME Inv, Writing, NEW b \in Target,
           flash' = [flash EXCEPT ![b] = flash'[b]],
           missed \subseteq missed', UNCHANGED <<acked, win, hosted>>
    PROVE  Stored' /\ WindowFresh'
  <1> USE DEF Inv
  <1>1. b \in Sector /\ acked[b] = NULL
    BY Underway DEF Writing, Unacknowledged
  <1>2. \A s \in Sector : s # b => flash'[s] = flash[s]
    BY DEF Types
  <1>3. Stored'
    BY <1>1, <1>2 DEF Stored
  <1>4. win.sector = b => win.dirty \/ b \in hosted
    BY Underway DEF Writing
  <1>5. WindowFresh'
    <2>1. win.sector # NULL => win.sector \in Sector
      BY SectorFacts DEF Types
    <2> QED
      BY <1>2, <1>4, <2>1 DEF WindowFresh
  <1> QED
    BY <1>3, <1>5

\* How a command of the chip ends.
LEMMA OutcomeEffect ==
    ASSUME Types, NEW ok \in BOOLEAN, Outcome(ok)
    PROVE  /\ ok => epe' = FALSE /\ faults' = faults
           /\ ~ok => epe' = TRUE /\ faults' = faults + 1
           /\ epe' \in BOOLEAN /\ faults' \in Nat
  <1>1. CASE ok = TRUE
    BY <1>1 DEF Outcome, Types
  <1>2. CASE ok = FALSE
    <2>1. epe' = TRUE
      BY <1>2 DEF Outcome
    <2>2. faults' = faults + 1
      BY <1>2 DEF Outcome
    <2> QED
      BY <1>2, <2>1, <2>2 DEF Types
  <1> QED
    BY <1>1, <1>2

LEMMA StepErase == ASSUME Inv, Erase PROVE Inv'
  <1> USE DEF Inv
  <1> DEFINE b == cmd.blk + cmd.i
  <1>1. PICK ok \in BOOLEAN, left \in {"erased", "bad"} :
            /\ Outcome(ok)
            /\ flash' = [flash EXCEPT ![b] = IF ok THEN Filled("erased")
                                             ELSE IF left = "bad" THEN Filled("bad") ELSE @]
            /\ cmd' = [cmd EXCEPT !.i = @ + 1, !.failed = EraseStatus(ok)]
            /\ missed' = IF ~ok /\ cmd.i < cmd.num - 1 THEN missed \cup {b} ELSE missed
    BY DEF Erase
  <1>2. /\ cmd.step = "erase" /\ cmd.i < cmd.num
        /\ UNCHANGED <<win, call, usb, acked, hosted>>
    BY DEF Erase
  <1>3. /\ cmd.blk \in Nat /\ cmd.i \in Nat /\ cmd.num \in 1 .. 2
        /\ cmd.who # "none"
        /\ Target \subseteq Sector /\ b \in Target /\ b \in Sector
    BY <1>2, Underway DEF Types, Commands
  <1>4. /\ cmd'.who = cmd.who /\ cmd'.step = cmd.step /\ cmd'.blk = cmd.blk
        /\ cmd'.num = cmd.num /\ cmd'.src = cmd.src /\ cmd'.i = cmd.i + 1
        /\ Target' = Target
    BY <1>1 DEF Types, Target
  <1>12. cmd'.failed \in BOOLEAN /\ (cmd'.failed <=> ~ok)
    <2>1. CASE ok = TRUE
      BY <1>1, <2>1 DEF Types, Commands, EraseStatus
    <2>2. CASE ok = FALSE
      BY <1>1, <2>2 DEF Types, Commands, EraseStatus
    <2> QED
      BY <2>1, <2>2
  <1>5. Types'
    <2>1. flash' \in [Sector -> Content]
      BY <1>1, FilledType DEF Types
    <2>2. cmd' \in Commands
      <3>1. EraseStatus(ok) \in BOOLEAN /\ cmd.i + 1 \in Nat
        BY <1>3 DEF EraseStatus
      <3> QED
        BY <1>1, <3>1 DEF Types, Commands
    <2>3. epe' \in BOOLEAN /\ faults' \in Nat
      BY <1>1, OutcomeEffect
    <2> QED
      BY <1>1, <1>2, <1>3, <2>1, <2>2, <2>3 DEF Types
  <1>6. Command'
    BY <1>2, <1>3, <1>4 DEF Command
  <1>7. ErasedSoFar'
    <2> SUFFICES ASSUME NEW c \in Target \ missed', c < cmd.blk + (cmd.i + 1),
                        cmd.i + 1 < cmd.num \/ ok
                 PROVE  flash'[c] = Filled("erased")
      <3>1. cmd'.i <= cmd'.num
        BY <1>2, <1>3, <1>4
      <3>2. cmd'.failed <=> ~ok
        BY <1>12
      <3> HIDE DEF Inv
      <3> QED
        BY <1>4, <3>1, <3>2 DEF ErasedSoFar
    <2>1. CASE c = b
      <3>1. ok
        BY <1>1, <1>3, <2>1
      <3> QED
        BY <1>1, <1>3, <2>1, <3>1 DEF Types
    <2>2. CASE c # b
      <3>1. c \in Target \ missed /\ c < cmd.blk + cmd.i
        BY <1>1, <1>3, <2>2, SectorFacts
      <3> QED
        BY <1>1, <1>2, <1>3, <2>2, <3>1 DEF ErasedSoFar, Types
    <2> QED
      BY <2>1, <2>2
  <1>8. ProgrammedSoFar' /\ Done'
    BY <1>2, <1>4 DEF ProgrammedSoFar, Done
  <1>9. Unacknowledged'
    BY <1>2, <1>4 DEF Unacknowledged, Writing
  <1>10. Stored' /\ WindowFresh'
    <2>1. flash' = [flash EXCEPT ![b] = flash'[b]] /\ missed \subseteq missed'
      BY <1>1, <1>3 DEF Types
    <2> QED
      BY <1>2, <1>3, <2>1, OneSector DEF Writing
  <1>11. NoFaultYet'
    <2> SUFFICES ASSUME faults' = 0
                 PROVE  NoFaultYet'
      BY DEF NoFaultYet
    <2>1. /\ ok => epe' = FALSE /\ faults' = faults
          /\ ~ok => faults' = faults + 1
          /\ faults \in Nat
      BY <1>1, OutcomeEffect DEF Types
    <2>3. ok
      <3> HIDE DEF Inv
      <3> QED
        BY <2>1
    <2>4. ok /\ faults = 0 /\ ~epe' /\ ~cmd'.failed
      BY <2>1, <2>3, <1>12
    <2>2. \A s \in Sector : s # b => flash'[s] = flash[s]
      BY <1>1 DEF Types
    <2> QED
      BY <1>1, <1>2, <1>3, <1>4, <2>4, <2>2 DEF NoFaultYet, Writing, Whole
  <1> QED
    BY <1>5, <1>6, <1>7, <1>8, <1>9, <1>10, <1>11

LEMMA StepErased == ASSUME Inv, Erased PROVE Inv'
  <1> USE DEF Inv, Erased, chipVars
  <1>1. /\ cmd.blk \in Nat /\ cmd.num \in 1 .. 2 /\ cmd.who # "none"
        /\ cmd'.who = cmd.who /\ cmd'.blk = cmd.blk /\ cmd'.num = cmd.num
        /\ cmd'.src = cmd.src /\ cmd'.i = 0 /\ cmd'.failed = cmd.failed
        /\ cmd'.step = IF cmd.failed THEN "return" ELSE "program"
        /\ Target' = Target /\ cmd.i = cmd.num /\ cmd.step = "erase"
    BY Underway DEF Types, Commands, Target
  <1>2. Types'
    <2>1. cmd' \in Commands
      BY DEF Types, Commands
    <2> QED
      BY <2>1 DEF Types
  <1>3. Command'
    BY <1>1 DEF Command
  <1>4. ErasedSoFar' /\ Done'
    BY <1>1 DEF ErasedSoFar, Done
  <1>5. ProgrammedSoFar'
    <2> SUFFICES ASSUME ~cmd.failed,
                        NEW j \in 0 .. cmd.num * Pages - 1,
                        (cmd.blk + j \div Pages) \notin missed
                 PROVE  flash[cmd.blk + j \div Pages][j % Pages] = "erased"
      BY <1>1, SectorFacts DEF ProgrammedSoFar, PageAt
    <2>1. j \div Pages \in 0 .. cmd.num - 1 /\ j % Pages \in Page
      BY <1>1, PageNumbers
    <2>2. cmd.blk + j \div Pages \in Target \ missed
      BY <1>1, <2>1, Underway
    <2>3. cmd.blk + j \div Pages < cmd.blk + cmd.i
      BY <1>1, <2>1
    <2>4. flash[cmd.blk + j \div Pages] = Filled("erased")
      BY <1>1, <2>2, <2>3 DEF ErasedSoFar
    <2> QED
      BY <2>1, <2>4 DEF Filled
  <1>6. Unacknowledged' /\ Stored'
    BY <1>1 DEF Unacknowledged, Stored, Writing
  <1>7. WindowFresh'
    BY DEF WindowFresh
  <1>8. NoFaultYet'
    BY <1>1 DEF NoFaultYet, Writing, Whole
  <1> QED
    BY <1>2, <1>3, <1>4, <1>5, <1>6, <1>7, <1>8

LEMMA StepProgram == ASSUME Inv, Program PROVE Inv'
  <1> USE DEF Inv
  <1> DEFINE b == cmd.blk + cmd.i \div Pages
             p == cmd.i % Pages
             N == cmd.num * Pages
  <1>1. PICK ok \in BOOLEAN :
            /\ Outcome(ok)
            /\ flash' = [flash EXCEPT ![b][p] = IF ok THEN Over(@, cmd.src[p]) ELSE "bad"]
            /\ missed' = IF ~ok /\ cmd.i < N - 1 THEN missed \cup {b} ELSE missed
            /\ cmd' = [cmd EXCEPT !.i = @ + 1]
    BY DEF Program
  <1>2. /\ cmd.step = "program" /\ cmd.i < N
        /\ UNCHANGED <<win, call, usb, acked, hosted>>
    BY DEF Program
  <1>3. /\ cmd.blk \in Nat /\ cmd.i \in Nat /\ cmd.num \in 1 .. 2 /\ cmd.who # "none"
        /\ cmd.src \in Content /\ N \in Nat /\ cmd.i \in 0 .. N - 1
    BY <1>2, Underway, FlashAssumption DEF Types, Commands
  <1>4. cmd.i \div Pages \in 0 .. cmd.num - 1 /\ p \in Page
    BY <1>3, PageNumbers
  <1>5. Target \subseteq Sector /\ b \in Target /\ b \in Sector
    BY <1>2, <1>4, Underway
  <1>6. /\ cmd'.who = cmd.who /\ cmd'.step = cmd.step /\ cmd'.blk = cmd.blk
        /\ cmd'.num = cmd.num /\ cmd'.src = cmd.src /\ cmd'.i = cmd.i + 1
        /\ cmd'.failed = cmd.failed
        /\ Target' = Target
    BY <1>1 DEF Types, Target
  <1>7. /\ ok => epe' = FALSE /\ faults' = faults
        /\ ~ok => epe' = TRUE /\ faults' = faults + 1
        /\ epe' \in BOOLEAN /\ faults' \in Nat /\ faults \in Nat
    BY <1>1, OutcomeEffect DEF Types
  <1>8. /\ \A s \in Sector, q \in Page :
              s # b \/ q # p => flash'[s][q] = flash[s][q]
        /\ flash'[b][p] = IF ok THEN Over(flash[b][p], cmd.src[p]) ELSE "bad"
        /\ \A s \in Sector : s # b => flash'[s] = flash[s]
    BY <1>1, <1>4, <1>5 DEF Types, Content
  <1>9. Types'
    <2>1. cmd.src[p] \in Val \cup {"erased", "bad"}
      BY <1>3, <1>4 DEF Content
    <2>2. flash[b] \in Content /\ flash[b][p] \in Val \cup {"erased", "bad"}
      BY <1>4, <1>5 DEF Types, Content
    <2>3. flash' \in [Sector -> Content]
      <3> DEFINE x == IF ok THEN Over(flash[b][p], cmd.src[p]) ELSE "bad"
      <3>1. x \in Val \cup {"erased", "bad"}
        BY <2>1, <2>2 DEF Over
      <3>2. [flash[b] EXCEPT ![p] = x] \in Content
        BY <2>2, <3>1 DEF Content
      <3>3. flash' = [flash EXCEPT ![b] = [flash[b] EXCEPT ![p] = x]]
        BY <1>1, <1>4, <1>5 DEF Types, Content
      <3> QED
        BY <3>2, <3>3 DEF Types
    <2>4. cmd' \in Commands
      BY <1>1, <1>3 DEF Types, Commands
    <2>5. missed' \subseteq Sector
      BY <1>1, <1>5 DEF Types
    <2> QED
      BY <1>2, <1>7, <2>3, <2>4, <2>5 DEF Types
  <1>10. Command'
    BY <1>2, <1>3, <1>6 DEF Command
  <1>11. ErasedSoFar' /\ Done'
    BY <1>2, <1>6 DEF ErasedSoFar, Done
  <1>12. ProgrammedSoFar'
    <2> SUFFICES ASSUME NEW j \in 0 .. N - 1, cmd.blk + j \div Pages \notin missed',
                        cmd.i + 1 < N \/ ~epe'
                 PROVE  flash'[cmd.blk + j \div Pages][j % Pages] =
                           IF j < cmd.i + 1 THEN cmd.src[j % Pages] ELSE "erased"
      <3>1. cmd'.i <= cmd'.num * Pages
        BY <1>2, <1>3, <1>6
      <3>2. cmd'.num * Pages = N /\ cmd'.i = cmd.i + 1
        BY <1>6
      <3> HIDE DEF Inv, N
      <3> QED
        BY <1>6, <3>1, <3>2 DEF ProgrammedSoFar, PageAt
    <2>1. j \div Pages \in 0 .. cmd.num - 1 /\ j % Pages \in Page
      BY <1>3, PageNumbers
    <2>2. cmd.blk + j \div Pages \in Target /\ cmd.blk + j \div Pages \in Sector
      BY <1>2, <1>5, <2>1, Underway
    <2>3. cmd.blk + j \div Pages \notin missed
      BY <1>1
    <2>4. flash[cmd.blk + j \div Pages][j % Pages] =
             IF j < cmd.i THEN cmd.src[j % Pages] ELSE "erased"
      BY <1>2, <2>3 DEF ProgrammedSoFar, PageAt
    <2>5. CASE j = cmd.i
      <3>1. ok
        BY <1>1, <1>3, <1>7, <2>5
      <3>2. flash[b][p] = "erased"
        BY <1>3, <2>4, <2>5
      <3>3. flash'[b][p] = cmd.src[p]
        BY <1>8, <3>1, <3>2 DEF Over
      <3> QED
        BY <1>3, <2>5, <3>3
    <2>6. CASE j # cmd.i
      <3>1. cmd.blk + j \div Pages # b \/ j % Pages # p
        <4> SUFFICES ASSUME cmd.blk + j \div Pages = b, j % Pages = p
                     PROVE  FALSE
          OBVIOUS
        <4>1. j \div Pages = cmd.i \div Pages
          BY <1>3, <1>4, <2>1
        <4> QED
          BY <1>3, <2>6, <4>1, PageNumbersDiffer
      <3>2. flash'[cmd.blk + j \div Pages][j % Pages] = flash[cmd.blk + j \div Pages][j % Pages]
        BY <1>8, <2>1, <2>2, <3>1
      <3>3. j < cmd.i + 1 <=> j < cmd.i
        BY <1>3, <2>6
      <3> QED
        BY <2>4, <3>2, <3>3
    <2> QED
      BY <2>5, <2>6
  <1>13. Unacknowledged'
    BY <1>2, <1>6 DEF Unacknowledged, Writing
  <1>14. Stored' /\ WindowFresh'
    <2>1. flash' = [flash EXCEPT ![b] = flash'[b]]
      BY <1>5, <1>8, <1>9 DEF Types
    <2>2. missed \subseteq missed'
      BY <1>1
    <2> QED
      BY <1>2, <1>5, <2>1, <2>2, OneSector DEF Writing
  <1>15. NoFaultYet'
    <2> SUFFICES ASSUME faults' = 0
                 PROVE  NoFaultYet'
      BY DEF NoFaultYet
    <2>1. ok
      <3> HIDE DEF Inv
      <3> QED
        BY <1>7
    <2>2. faults = 0 /\ ~epe' /\ missed' = missed
      BY <1>1, <1>7, <2>1
    <2> QED
      BY <1>2, <1>5, <1>6, <1>8, <2>2 DEF NoFaultYet, Writing, Whole
  <1> QED
    BY <1>9, <1>10, <1>11, <1>12, <1>13, <1>14, <1>15

\* When the loops are through without an error in the last page, every sector
\* that was not missed holds what was to be written.
LEMMA AllProgrammed ==
    ASSUME Inv, cmd.step = "program", cmd.i = cmd.num * Pages, ~epe,
           NEW b \in Target \ missed
    PROVE  flash[b] = cmd.src
  <1> USE DEF Inv
  <1>1. PICK c \in 0 .. cmd.num - 1 : b = cmd.blk + c
    BY Underway
  <1>2. cmd.num \in 1 .. 2 /\ b \in Sector /\ flash[b] \in Content /\ cmd.src \in Content
    BY Underway DEF Types, Commands
  <1>3. ASSUME NEW p \in Page
        PROVE  flash[b][p] = cmd.src[p]
    <2>1. PICK j \in 0 .. cmd.num * Pages - 1 : j \div Pages = c /\ j % Pages = p
      BY <1>2, PageNumbered
    <2>2. j < cmd.i
      BY <1>2, <2>1, FlashAssumption
    <2>3. PageAt(j) = cmd.src[j % Pages]
      BY <1>1, <2>1, <2>2 DEF ProgrammedSoFar
    <2> QED
      BY <1>1, <2>1, <2>3 DEF PageAt
  <1> QED
    BY <1>2, <1>3 DEF Content

LEMMA StepProgrammed == ASSUME Inv, Programmed PROVE Inv'
  <1> USE DEF Inv
  <1>1. /\ cmd.step = "program" /\ cmd.i = cmd.num * Pages
        /\ cmd' = [cmd EXCEPT !.step = "return", !.failed = epe]
        /\ acked' = [s \in Sector |->
                        IF s \in Range(cmd.blk, cmd.num) /\ ~epe THEN cmd.src ELSE acked[s]]
        /\ UNCHANGED <<flash, epe, missed, faults, win, call, usb, hosted>>
    BY DEF Programmed, LastStatus, chipVars
  <1>2. /\ cmd.num \in 1 .. 2 /\ cmd.who # "none" /\ Target \subseteq Sector
        /\ cmd'.who = cmd.who /\ cmd'.step = "return" /\ cmd'.blk = cmd.blk
        /\ cmd'.num = cmd.num /\ cmd'.src = cmd.src /\ cmd'.failed = epe
        /\ Target' = Target
    BY <1>1, Underway DEF Types, Target
  <1>3. Types'
    <2>1. cmd' \in Commands
      BY <1>1 DEF Types, Commands
    <2>2. acked' \in [Sector -> Content \cup {NULL}]
      BY <1>1 DEF Types, Commands
    <2> QED
      BY <1>1, <2>1, <2>2 DEF Types
  <1>4. Command'
    BY <1>1, <1>2 DEF Command
  <1>5. ErasedSoFar' /\ ProgrammedSoFar'
    BY <1>2 DEF ErasedSoFar, ProgrammedSoFar
  <1>6. Done'
    BY <1>1, <1>2, AllProgrammed DEF Done
  <1>7. Unacknowledged'
    BY <1>1, <1>2 DEF Unacknowledged, Writing, Target
  <1>8. Stored'
    <2> SUFFICES ASSUME NEW s \in Sector \ missed, acked'[s] # NULL
                 PROVE  flash[s] = acked'[s]
      BY <1>1 DEF Stored
    <2>1. CASE s \in Target /\ ~epe
      BY <1>1, <2>1, AllProgrammed DEF Target
    <2>2. CASE ~ (s \in Target /\ ~epe)
      BY <1>1, <2>2 DEF Target, Stored
    <2> QED
      BY <2>1, <2>2
  <1>9. WindowFresh'
    BY <1>1 DEF WindowFresh
  <1>10. NoFaultYet'
    BY <1>1, <1>2, AllProgrammed DEF NoFaultYet, Writing, Whole
  <1> QED
    BY <1>3, <1>4, <1>5, <1>6, <1>7, <1>8, <1>9, <1>10

-----------------------------------------------------------------------------
\* at_prog_blk has returned to a caller that asks for nothing else.
LEMMA StepReturned ==
    ASSUME Inv, CopyReturned \/ DataReturned \/ UsbReturned
    PROVE  Inv'
  <1> USE DEF Inv
  <1>1. /\ cmd.step = "return" /\ cmd.who # "window"
        /\ cmd' = NoCmd
        /\ call' = call \/ call' = "none"
        /\ UNCHANGED <<flash, epe, missed, faults, win, usb, acked, hosted>>
    BY DEF CopyReturned, DataReturned, UsbReturned, chipVars
  <1>2. /\ NoCmd.who = "none" /\ NoCmd.step = "none" /\ NoCmd.failed = FALSE
    BY DEF NoCmd
  <1>3. Types'
    <2>1. NoCmd \in Commands
      BY NoCmdFacts
    <2> QED
      BY <1>1, <2>1 DEF Types
  <1>4. Command'
    BY <1>1, <1>2 DEF Command
  <1>5. ErasedSoFar' /\ ProgrammedSoFar' /\ Done' /\ Unacknowledged'
    BY <1>1, <1>2 DEF ErasedSoFar, ProgrammedSoFar, Done, Unacknowledged, Writing
  <1>6. Stored' /\ WindowFresh'
    BY <1>1 DEF Stored, WindowFresh
  <1>7. NoFaultYet'
    BY <1>1, <1>2 DEF NoFaultYet, Writing, Whole
  <1> QED
    BY <1>3, <1>4, <1>5, <1>6, <1>7

\* It has returned to sync_window, which goes on with the second FAT only
\* when the first is written.
LEMMA StepWindowReturned == ASSUME Inv, WindowReturned PROVE Inv'
  <1> USE DEF Inv
  <1>1. /\ cmd.step = "return" /\ cmd.who = "window"
        /\ cmd.num = 1 /\ cmd.blk = win.sector /\ cmd.src = win.data
        /\ win.dirty /\ win.sector \in {Fat, Dir}
        /\ Target = {win.sector}
        /\ UNCHANGED <<flash, epe, faults, usb, hosted>>
    BY SectorFacts DEF WindowReturned, Command, Types, Target, Range
  <1>2. CASE cmd.failed
    <2>1. /\ call' = "none" /\ cmd' = NoCmd /\ UNCHANGED win
          /\ NoCmd.who = "none" /\ NoCmd.step = "none" /\ NoCmd.failed = FALSE
      BY <1>2 DEF WindowReturned, Synced, NoCmd
    <2>2. missed' = missed /\ acked' = acked
      BY <2>1 DEF WindowReturned, Types
    <2>3. Types'
      <3>1. NoCmd \in Commands
        BY NoCmdFacts
      <3> QED
        BY <1>1, <2>1, <2>2, <3>1 DEF Types
    <2>4. Command'
      BY <1>1, <2>1 DEF Command
    <2>5. ErasedSoFar' /\ ProgrammedSoFar' /\ Done' /\ Unacknowledged'
      BY <2>1 DEF ErasedSoFar, ProgrammedSoFar, Done, Unacknowledged, Writing
    <2>6. Stored' /\ WindowFresh'
      BY <1>1, <2>1, <2>2 DEF Stored, WindowFresh
    <2>7. NoFaultYet'
      BY <1>1, <2>1, <2>2 DEF NoFaultYet, Writing, Whole
    <2> QED
      BY <2>3, <2>4, <2>5, <2>6, <2>7
  <1>3. CASE ~cmd.failed
    <2>1. win.sector \notin missed => flash[win.sector] = win.data
      BY <1>1, <1>3 DEF Done
    <2>2. /\ win' = [win EXCEPT !.dirty = FALSE] /\ call' = call
          /\ win'.sector = win.sector /\ win'.data = win.data /\ win'.dirty = FALSE
      BY <1>3 DEF WindowReturned, Synced, Types
    <2>3. CASE win.sector = Dir
      <3>1. cmd' = NoCmd /\ NoCmd.who = "none" /\ NoCmd.step = "none" /\ NoCmd.failed = FALSE
        BY <1>3, <2>3, SectorFacts DEF WindowReturned, Synced, NoCmd
      <3>2. missed' = missed /\ acked' = acked
        BY <3>1 DEF WindowReturned, Types
      <3>3. Types'
        <4>1. NoCmd \in Commands
          BY NoCmdFacts
        <4> QED
          BY <1>1, <2>2, <3>1, <3>2, <4>1 DEF Types
      <3>4. Command'
        BY <1>1, <2>2, <3>1 DEF Command
      <3>5. ErasedSoFar' /\ ProgrammedSoFar' /\ Done' /\ Unacknowledged'
        BY <3>1 DEF ErasedSoFar, ProgrammedSoFar, Done, Unacknowledged, Writing
      <3>6. Stored' /\ WindowFresh'
        BY <1>1, <2>1, <2>2, <3>2 DEF Stored, WindowFresh
      <3>7. NoFaultYet'
        BY <1>1, <2>2, <3>1, <3>2 DEF NoFaultYet, Writing, Whole
      <3> QED
        BY <3>3, <3>4, <3>5, <3>6, <3>7
    <2>4. CASE win.sector = Fat
      <3>1. cmd' = [cmd EXCEPT !.who = "copy", !.step = "erase", !.blk = Fat + FSize,
                               !.i = 0, !.failed = FALSE]
        BY <1>3, <2>4 DEF WindowReturned, Synced
      <3>2. /\ cmd'.who = "copy" /\ cmd'.step = "erase" /\ cmd'.blk = FSize /\ cmd'.i = 0
            /\ cmd'.failed = FALSE /\ cmd'.num = 1 /\ cmd'.src = win.data
            /\ Target' = {FSize}
        BY <1>1, <3>1, SectorFacts DEF Types, Target, Range
      <3>3. /\ missed' = missed \ {FSize}
            /\ acked' = [s \in Sector |-> IF s = FSize THEN NULL ELSE acked[s]]
        BY <3>2, SectorFacts DEF WindowReturned
      <3>4. Types'
        <4>1. cmd' \in Commands
          BY <3>1, SectorFacts DEF Types, Commands
        <4>2. win' \in [sector : {Fat, Dir, NULL}, data : Content, dirty : BOOLEAN]
          BY <2>2 DEF Types
        <4> QED
          BY <1>1, <2>2, <3>3, <4>1, <4>2 DEF Types
      <3>5. Command'
        BY <2>2, <2>4, <3>2, SectorFacts DEF Command
      <3>6. ErasedSoFar'
        BY <3>2, SectorFacts DEF ErasedSoFar
      <3>7. ProgrammedSoFar' /\ Done'
        BY <3>2 DEF ProgrammedSoFar, Done
      <3>8. Unacknowledged'
        BY <3>2, <3>3, SectorFacts DEF Unacknowledged
      <3>9. Stored'
        BY <1>1, <3>3 DEF Stored
      <3>10. WindowFresh'
        BY <1>1, <2>1, <2>2, <2>4, <3>3, SectorFacts DEF WindowFresh
      <3>11. NoFaultYet'
        BY <1>1, <2>2, <2>4, <3>2, <3>3, SectorFacts DEF NoFaultYet, Writing, Whole
      <3> QED
        BY <3>4, <3>5, <3>6, <3>7, <3>8, <3>9, <3>10, <3>11
    <2> QED
      BY <1>1, <2>3, <2>4
  <1> QED
    BY <1>2, <1>3

\* What a loss of power leaves: at most one sector changes, one that
\* at_prog_blk was writing.
LEMMA PowerLossEffect ==
    ASSUME Inv, PowerLoss
    PROVE  /\ flash' \in [Sector -> Content]
           /\ \/ flash' = flash
              \/ Writing /\ \E b \in Target : \A s \in Sector : s # b => flash'[s] = flash[s]
  <1> USE DEF Inv
  <1>1. CASE cmd.step = "erase" /\ cmd.i < cmd.num
    <2> DEFINE b == cmd.blk + cmd.i
    <2>1. b \in Target /\ b \in Sector
      BY <1>1, Underway DEF Types, Commands
    <2>2. flash' = flash \/ \E x \in {"erased", "bad"} : flash' = [flash EXCEPT ![b] = Filled(x)]
      BY <1>1 DEF PowerLoss
    <2>3. flash' \in [Sector -> Content]
      BY <2>2, FilledType DEF Types
    <2>4. flash' = flash \/ \A s \in Sector : s # b => flash'[s] = flash[s]
      BY <2>2 DEF Types
    <2> QED
      BY <1>1, <2>1, <2>3, <2>4 DEF Writing
  <1>2. CASE cmd.step = "program" /\ cmd.i < cmd.num * Pages
    <2> DEFINE b == cmd.blk + cmd.i \div Pages
               p == cmd.i % Pages
    <2>1. /\ cmd.num \in 1 .. 2 /\ cmd.i \in 0 .. cmd.num * Pages - 1
          /\ cmd.src \in Content
      BY <1>2, Underway, FlashAssumption DEF Types, Commands
    <2>2. cmd.i \div Pages \in 0 .. cmd.num - 1 /\ p \in Page
      BY <2>1, PageNumbers
    <2>3. b \in Target /\ b \in Sector
      BY <1>2, <2>2, Underway
    <2>4. flash' = flash \/ \E x \in {"bad", cmd.src[p]} : flash' = [flash EXCEPT ![b][p] = x]
      BY <1>2 DEF PowerLoss
    <2>5. CASE flash' = flash
      BY <2>5 DEF Types
    <2>6. CASE flash' # flash
      <3>1. PICK x \in {"bad", cmd.src[p]} : flash' = [flash EXCEPT ![b][p] = x]
        BY <2>4, <2>6
      <3>2. x \in Val \cup {"erased", "bad"} /\ flash[b] \in Content
        BY <2>1, <2>2, <2>3 DEF Types, Content
      <3>3. [flash[b] EXCEPT ![p] = x] \in Content
        BY <3>2 DEF Content
      <3>4. flash' = [flash EXCEPT ![b] = [flash[b] EXCEPT ![p] = x]]
        BY <2>2, <2>3, <3>1 DEF Types
      <3>5. flash' \in [Sector -> Content] /\ \A s \in Sector : s # b => flash'[s] = flash[s]
        BY <3>3, <3>4 DEF Types
      <3> QED
        BY <1>2, <2>3, <3>5 DEF Writing
    <2> QED
      BY <2>5, <2>6
  <1>3. CASE /\ ~ (cmd.step = "erase" /\ cmd.i < cmd.num)
             /\ ~ (cmd.step = "program" /\ cmd.i < cmd.num * Pages)
    BY <1>3 DEF PowerLoss, Types
  <1> QED
    BY <1>1, <1>2, <1>3

LEMMA StepPowerLoss == ASSUME Inv, PowerLoss PROVE Inv'
  <1> USE DEF Inv
  <1>1. /\ epe' = FALSE /\ faults' = faults + 1 /\ win' = NoWindow /\ call' = "none"
        /\ usb' = FALSE /\ cmd' = NoCmd /\ hosted' = {}
        /\ UNCHANGED <<acked, missed>>
    BY DEF PowerLoss
  <1>2. /\ NoCmd.who = "none" /\ NoCmd.step = "none"
        /\ NoWindow.sector = NULL /\ NoWindow.dirty = FALSE
    BY DEF NoCmd, NoWindow
  <1>3. Types'
    <2>1. NoCmd \in Commands
      BY NoCmdFacts
    <2>2. NoWindow \in [sector : {Fat, Dir, NULL}, data : Content, dirty : BOOLEAN]
      BY FilledType DEF NoWindow
    <2>3. flash' \in [Sector -> Content]
      BY PowerLossEffect
    <2>4. faults' \in Nat
      BY <1>1 DEF Types
    <2>5. acked' \in [Sector -> Content \cup {NULL}] /\ missed' \subseteq Sector
      BY <1>1 DEF Types
    <2> HIDE DEF Inv
    <2> QED
      BY <1>1, <2>1, <2>2, <2>3, <2>4, <2>5 DEF Types
  <1>4. Command'
    BY <1>1, <1>2 DEF Command
  <1>5. ErasedSoFar' /\ ProgrammedSoFar' /\ Done' /\ Unacknowledged'
    BY <1>1, <1>2 DEF ErasedSoFar, ProgrammedSoFar, Done, Unacknowledged, Writing
  <1>6. Stored'
    <2>1. CASE flash' = flash
      BY <1>1, <2>1 DEF Stored
    <2>2. CASE flash' # flash
      <3>1. PICK b \in Target : Writing /\ \A s \in Sector : s # b => flash'[s] = flash[s]
        BY <2>2, PowerLossEffect
      <3>2. acked[b] = NULL
        BY <3>1 DEF Unacknowledged
      <3> QED
        BY <1>1, <3>1, <3>2 DEF Stored
    <2> QED
      BY <2>1, <2>2
  <1>7. WindowFresh'
    BY <1>1, <1>2 DEF WindowFresh
  <1>8. NoFaultYet'
    BY <1>1 DEF NoFaultYet, Types
  <1> QED
    BY <1>3, <1>4, <1>5, <1>6, <1>7, <1>8

LEMMA StepUnchanged == ASSUME Inv, UNCHANGED vars PROVE Inv'
  <1> USE DEF Inv, vars, chipVars
  <1>1. Types' /\ Command'
    BY DEF Types, Command, Target
  <1>2. WindowFresh' /\ NoFaultYet'
    BY DEF WindowFresh, NoFaultYet, Writing, Target, Whole
  <1> QED
    BY <1>1, <1>2, StepStill

LEMMA StepInv == Inv /\ [Next]_vars => Inv'
  BY StepErase, StepErased, StepProgram, StepProgrammed, StepOpen, StepReadWindow, StepChange,
     StepSyncWindow, StepWindowReturned, StepReturned, StepWriteData, StepClose,
     StepUsbSession, StepUsbWrite, StepPowerLoss, StepUnchanged
  DEF Next

-----------------------------------------------------------------------------
\* The inductive invariant holds in every reachable state.
THEOREM Invariance == Spec => []Inv
  BY InitInv, StepInv, PTL DEF Spec

\* What at_prog_blk has answered RES_OK for is in the chip and stays there,
\* but for the sectors with an error that a later command overwrote, for any
\* number of pages, sectors, failures and losses of power.
THEOREM AcknowledgedStored == Spec => []Stored
  <1>1. Inv => Stored
    BY DEF Inv
  <1> QED
    BY <1>1, Invariance, PTL

\* The clean window of FatFs holds what the chip holds, but for the sectors
\* of the host and those of Stored.
THEOREM WindowKeptFresh == Spec => []WindowFresh
  <1>1. Inv => WindowFresh
    BY DEF Inv
  <1> QED
    BY <1>1, Invariance, PTL

\* The first loss of power leaves one of the two FATs whole, unless a host was
\* writing both in one call.
THEOREM FirstLossLeavesFat == Spec => OneFatLeft
  <1>1. Inv /\ [Next]_vars => [(PowerLoss /\ faults = 0 /\ ~HostWritesBothFats)
                                  => (Whole(Fat)' \/ Whole(Fat + FSize)')]_vars
    <2> SUFFICES ASSUME Inv, PowerLoss, faults = 0, ~HostWritesBothFats
                 PROVE  Whole(Fat)' \/ Whole(Fat + FSize)'
      OBVIOUS
    <2> USE DEF Inv
    <2>1. \A s \in Sector : Whole(s) \/ (Writing /\ s \in Target)
      BY DEF NoFaultYet
    <2>2. CASE ~Writing
      BY <2>1, <2>2, PowerLossEffect, SectorFacts DEF Whole
    <2>3. CASE Writing
      <3>1. PICK s \in {Fat, FSize} : s \notin Target
        BY <2>3, Underway, SectorFacts DEF Writing, HostWritesBothFats, Target
      <3>2. s \in Sector /\ flash'[s] = flash[s]
        BY <3>1, PowerLossEffect, SectorFacts
      <3>3. Whole(s)'
        BY <2>1, <3>1, <3>2 DEF Whole
      <3> QED
        BY <3>1, <3>3, SectorFacts
    <2> QED
      BY <2>2, <2>3
  <1> QED
    BY <1>1, Invariance, PTL DEF Spec, OneFatLeft

=============================================================================
