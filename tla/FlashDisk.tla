----------------------------- MODULE FlashDisk -----------------------------
(***************************************************************************)
(* The serial flash behind the file system.  at_prog_blk and at_read_blk   *)
(* (device/src/flash_disk_int.c) are called by FatFs, which keeps one      *)
(* sector in a window and writes it back before it moves the window, and   *)
(* by the USB mass storage class while the file system is handed to a      *)
(* host.  A write erases all its blocks, then programs them page by page;  *)
(* the chip tells an error of its LAST command only, the window survives   *)
(* the USB session, and the power may fail between any two commands or     *)
(* during one.                                                             *)
(***************************************************************************)
EXTENDS Naturals

CONSTANTS Pages,      \* pages of a block (AT_BLOCK_LEN / AT_PAGE_LEN, 16)
          Sectors,    \* blocks of the disk
          Val,        \* what a page can hold
          HostSector, \* bound: the sectors the USB host writes
          NULL,
          MaxFaults   \* bound: failed commands and power losses

ASSUME FlashAssumption ==
    /\ Pages \in Nat \ {0}
    /\ Sectors \in Nat \ {0, 1, 2}
    /\ NULL \notin 0 .. Sectors
    /\ HostSector \subseteq 0 .. Sectors - 1
    /\ MaxFaults \in Nat

\* The layout FatFs reads from the volume: sector 0 is in the first copy of
\* the FAT, sector 1 the same in the second (fs->fatbase = 0, fs->fsize = 1,
\* fs->n_fats = 2), sector 2 holds a directory, the others file data.
Sector == 0 .. Sectors - 1
Fat == 0
FSize == 1
Dir == 2
Data == 3 .. Sectors - 1

Page == 0 .. Pages - 1

\* An erased page, and a page whose last command failed or was cut short.
Content == [Page -> Val \cup {"erased", "bad"}]
Filled(x) == [p \in Page |-> x]

VARIABLES flash,      \* what the chip holds
          epe,        \* EPE of its status register
          win,        \* FATFS: win, winsect, wflag
          call,       \* the call of FatFs in progress
          usb,        \* the file system is the USB host's
          cmd,        \* the at_prog_blk in progress
          acked,      \* history: what at_prog_blk returned RES_OK for
          missed,     \* history: sectors with an error nobody was told of
          hosted,     \* history: sectors the host has written behind the window
          faults      \* failed commands and power losses so far

chipVars == <<flash, epe, missed, faults>>
vars == <<chipVars, win, call, usb, cmd, acked, hosted>>

NoCmd == [who |-> "none", step |-> "none", blk |-> 0, num |-> 0, i |-> 0,
          failed |-> FALSE, src |-> Filled("erased")]

NoWindow == [sector |-> NULL, data |-> Filled("erased"), dirty |-> FALSE]

\* A formatted disk; which of the values it holds is no matter.
Init ==
    /\ \E v \in Val : flash = [s \in Sector |-> Filled(v)]
    /\ epe = FALSE
    /\ win = NoWindow
    /\ call = "none"
    /\ usb = FALSE
    /\ cmd = NoCmd
    /\ acked = [s \in Sector |-> NULL]
    /\ missed = {}
    /\ hosted = {}
    /\ faults = 0

Range(b, n) == b .. b + n - 1

-----------------------------------------------------------------------------
\* at_prog_blk is called.  While it runs its caller waits.
Begin(who, b, n, data) ==
    /\ cmd = NoCmd
    /\ cmd' = [who |-> who, step |-> "erase", blk |-> b, num |-> n, i |-> 0,
               failed |-> FALSE, src |-> data]
    /\ acked' = [s \in Sector |-> IF s \in Range(b, n) THEN NULL ELSE acked[s]]
    /\ missed' = missed \ Range(b, n)
    /\ UNCHANGED <<flash, epe, faults>>

\* A command of the chip ends well or not; EPE tells until the next one ends.
Outcome(ok) ==
    /\ ok \/ faults < MaxFaults
    /\ epe' = ~ok
    /\ faults' = IF ok THEN faults ELSE faults + 1

\* One turn of the erase loop.  Each turn overwrites status.
EraseStatus(ok) == ~ok

Erase ==
    /\ cmd.step = "erase"
    /\ cmd.i < cmd.num
    /\ \E ok \in BOOLEAN, left \in {"erased", "bad"} :
        LET b == cmd.blk + cmd.i IN
        /\ Outcome(ok)
        /\ flash' = [flash EXCEPT ![b] = IF ok THEN Filled("erased")
                                         ELSE IF left = "bad" THEN Filled("bad") ELSE @]
        /\ cmd' = [cmd EXCEPT !.i = @ + 1, !.failed = EraseStatus(ok)]
        /\ missed' = IF ~ok /\ cmd.i < cmd.num - 1 THEN missed \cup {b} ELSE missed
    /\ UNCHANGED <<win, call, usb, acked, hosted>>

\* if (status != RES_OK) return: no page is programmed.
Erased ==
    /\ cmd.step = "erase"
    /\ cmd.i = cmd.num
    /\ cmd' = [cmd EXCEPT !.step = IF cmd.failed THEN "return" ELSE "program", !.i = 0]
    /\ UNCHANGED <<chipVars, win, call, usb, acked, hosted>>

\* A page takes what is programmed only when it is erased.
Over(x, y) == IF x = "erased" THEN y ELSE IF x = y THEN x ELSE "bad"

\* One turn of the program loop.
Program ==
    /\ cmd.step = "program"
    /\ cmd.i < cmd.num * Pages
    /\ \E ok \in BOOLEAN :
        LET b == cmd.blk + cmd.i \div Pages
            p == cmd.i % Pages
        IN
        /\ Outcome(ok)
        /\ flash' = [flash EXCEPT ![b][p] = IF ok THEN Over(@, cmd.src[p]) ELSE "bad"]
        /\ missed' = IF ~ok /\ cmd.i < cmd.num * Pages - 1 THEN missed \cup {b} ELSE missed
        /\ cmd' = [cmd EXCEPT !.i = @ + 1]
    /\ UNCHANGED <<win, call, usb, acked, hosted>>

\* reg = at_read_status(), after the last page only.
LastStatus_Not == FALSE
LastStatus == epe

Programmed ==
    /\ cmd.step = "program"
    /\ cmd.i = cmd.num * Pages
    /\ cmd' = [cmd EXCEPT !.step = "return", !.failed = LastStatus]
    /\ acked' = [s \in Sector |->
                    IF s \in Range(cmd.blk, cmd.num) /\ ~LastStatus THEN cmd.src ELSE acked[s]]
    /\ UNCHANGED <<chipVars, win, call, usb, hosted>>

-----------------------------------------------------------------------------
\* A call of FatFs: find_volume refuses to write when the status register
\* shows an error (STA_PROTECT).
Open(mode) ==
    /\ call = "none" /\ ~usb
    /\ mode = "write" => ~epe
    /\ call' = mode
    /\ UNCHANGED <<chipVars, win, usb, cmd, acked, hosted>>

\* move_window to a sector that is not in the window, when it is clean.
\* at_read_blk refuses to read after an error: FR_DISK_ERR, no window.
ReadWindow(s) ==
    /\ call # "none" /\ cmd = NoCmd
    /\ s # win.sector
    /\ ~win.dirty
    /\ IF epe THEN win' = NoWindow /\ call' = "none"
              ELSE /\ win' = [sector |-> s, data |-> flash[s], dirty |-> FALSE]
                   /\ UNCHANGED call
    /\ hosted' = hosted \ {s}
    /\ UNCHANGED <<chipVars, usb, cmd, acked>>

\* FatFs changes the sector in the window: wflag = 1.
Change(p, v) ==
    /\ call = "write" /\ cmd = NoCmd
    /\ win.sector # NULL
    /\ win' = [win EXCEPT !.data[p] = v, !.dirty = TRUE]
    /\ UNCHANGED <<chipVars, call, usb, cmd, acked, hosted>>

\* sync_window of a dirty window, by move_window or by sync_fs.
SyncBlocks_Both == IF win.sector = Fat THEN 2 ELSE 1
SyncBlocks == 1

SyncWindow ==
    /\ call # "none"
    /\ win.dirty
    /\ Begin("window", win.sector, SyncBlocks, win.data)
    /\ UNCHANGED <<win, call, usb, hosted>>

\* f_write of whole sectors of a file.
WriteData(b, n, v) ==
    /\ call = "write"
    /\ Range(b, n) \subseteq Data
    /\ Begin("data", b, n, Filled(v))
    /\ UNCHANGED <<win, call, usb, hosted>>

\* sync_window, back from disk_write: wflag is cleared and a sector of the
\* FAT written to the second copy, or the call ends with FR_DISK_ERR.
Synced_Anyway(failed) == TRUE
Synced(failed) == ~failed

WindowReturned ==
    /\ cmd.step = "return" /\ cmd.who = "window"
    /\ IF Synced(cmd.failed)
       THEN /\ win' = [win EXCEPT !.dirty = FALSE]
            /\ cmd' = IF win.sector = Fat
                      THEN [cmd EXCEPT !.who = "copy", !.step = "erase", !.blk = Fat + FSize,
                                       !.i = 0, !.failed = FALSE]
                      ELSE NoCmd
            /\ UNCHANGED call
       ELSE /\ call' = "none"
            /\ cmd' = NoCmd
            /\ UNCHANGED win
    /\ LET copied == IF cmd'.who = "copy" THEN {Fat + FSize} ELSE {} IN
        /\ acked' = [s \in Sector |-> IF s \in copied THEN NULL ELSE acked[s]]
        /\ missed' = missed \ copied
    /\ UNCHANGED <<flash, epe, faults, usb, hosted>>

\* What disk_write returned for the second FAT is not looked at.
CopyReturned ==
    /\ cmd.step = "return" /\ cmd.who = "copy"
    /\ cmd' = NoCmd
    /\ UNCHANGED <<chipVars, win, call, usb, acked, hosted>>

DataReturned ==
    /\ cmd.step = "return" /\ cmd.who = "data"
    /\ cmd' = NoCmd
    /\ call' = IF cmd.failed THEN "none" ELSE call
    /\ UNCHANGED <<chipVars, win, usb, acked, hosted>>

\* The call returns; one that writes ends in sync_fs.
Close ==
    /\ call # "none" /\ cmd = NoCmd
    /\ call = "write" => ~win.dirty
    /\ call' = "none"
    /\ UNCHANGED <<chipVars, win, usb, cmd, acked, hosted>>

-----------------------------------------------------------------------------
\* label_usb takes FILE_SYSTEM_LOCK_ID, which every call of FatFs but one
\* holds, and lUsbDisconnect gives it back.  The one, updateAudio called by
\* explorer_app, comes to an end before main_app, which has called it, runs
\* again and can show its alert.  FatFs is told of neither.
UsbConnect ==
    /\ call = "none" /\ ~usb
    /\ usb' = TRUE
    /\ UNCHANGED <<chipVars, win, call, cmd, acked, hosted>>

UsbDisconnect ==
    /\ usb /\ cmd = NoCmd
    /\ usb' = FALSE
    /\ UNCHANGED <<chipVars, win, call, cmd, acked, hosted>>

\* Blocks that fit into the buffer of the mass storage class
\* (MSC_MEDIA_PACKET / STORAGE_BLK_SIZ).
MediaBlocks == 2

\* STORAGE_Write, in the USB interrupt; the result is dropped.
UsbWrite(b, n, v) ==
    /\ usb
    /\ Range(b, n) \subseteq HostSector
    /\ Begin("usb", b, n, Filled(v))
    /\ hosted' = hosted \cup Range(b, n)
    /\ UNCHANGED <<win, call, usb>>

UsbReturned ==
    /\ cmd.step = "return" /\ cmd.who = "usb"
    /\ cmd' = NoCmd
    /\ UNCHANGED <<chipVars, win, call, usb, acked, hosted>>

-----------------------------------------------------------------------------
\* The power fails.  The block being erased or the page being programmed
\* keeps what it had, is bad, or is done; everything in RAM is lost.
PowerLoss ==
    /\ faults < MaxFaults
    /\ flash' \in
        IF cmd.step = "erase" /\ cmd.i < cmd.num
        THEN {flash} \cup {[flash EXCEPT ![cmd.blk + cmd.i] = Filled(x)] : x \in {"erased", "bad"}}
        ELSE IF cmd.step = "program" /\ cmd.i < cmd.num * Pages
        THEN {flash} \cup {[flash EXCEPT ![cmd.blk + cmd.i \div Pages][cmd.i % Pages] = x]
                              : x \in {"bad", cmd.src[cmd.i % Pages]}}
        ELSE {flash}
    /\ epe' = FALSE
    /\ faults' = faults + 1
    /\ win' = NoWindow
    /\ call' = "none"
    /\ usb' = FALSE
    /\ cmd' = NoCmd
    /\ hosted' = {}
    /\ UNCHANGED <<acked, missed>>

Next ==
    \/ Erase \/ Erased \/ Program \/ Programmed
    \/ \E mode \in {"read", "write"} : Open(mode)
    \/ \E s \in {Fat, Dir} : ReadWindow(s)
    \/ \E p \in Page, v \in Val : Change(p, v)
    \/ SyncWindow \/ WindowReturned \/ CopyReturned
    \/ \E b \in Data, n \in 1 .. 2, v \in Val : WriteData(b, n, v)
    \/ DataReturned \/ Close
    \/ UsbConnect \/ UsbDisconnect \/ UsbReturned
    \/ \E b \in HostSector, n \in 1 .. MediaBlocks, v \in Val : UsbWrite(b, n, v)
    \/ PowerLoss

Spec == Init /\ [][Next]_vars

-----------------------------------------------------------------------------
\* RES_OK means that the data are in the chip, but for the sectors in which a
\* command before the last of its loop has failed: only the last erase and
\* the last page of at_prog_blk are checked.  No later write, failure or loss
\* of power takes back what was acknowledged.
Stored ==
    \A s \in Sector \ missed : acked[s] # NULL => flash[s] = acked[s]

\* A clean window holds what the chip holds: a failed write-back leaves it
\* dirty, and a failed read empties it.  Two ways round this remain, the
\* errors of Stored and the sectors the USB host writes while FatFs keeps the
\* old one in its window.
WindowFresh ==
    (win.sector # NULL /\ ~win.dirty /\ win.sector \notin missed \cup hosted)
    => win.data = flash[win.sector]

\* A sector whose pages have all been written.
Whole(s) == flash[s] \in [Page -> Val]

\* The USB host writes both FATs in one call: both are erased before the
\* first page is programmed.
HostWritesBothFats == cmd.who = "usb" /\ {Fat, Fat + FSize} \subseteq Range(cmd.blk, cmd.num)

\* Why there are two FATs: the first loss of power leaves one of them whole,
\* because FatFs erases, programs and checks a FAT before its copy is touched.
\* The one call this is not true of is a host's, of two blocks.
OneFatLeft ==
    [][(PowerLoss /\ faults = 0 /\ ~HostWritesBothFats)
          => (Whole(Fat)' \/ Whole(Fat + FSize)')]_vars

=============================================================================
