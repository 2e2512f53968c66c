------------------------------ MODULE FatMount ------------------------------
(***************************************************************************)
(* Mounting and revalidation of the FatFs volume (fatfs/ff.c: f_mount,     *)
(* chk_mounted, check_fs, validate, move_window, sync) over the card       *)
(* driver, with cards pulled and exchanged at any moment.  A file is one   *)
(* directory entry and two neighbouring sectors; FatFile has the rest of   *)
(* the file calls.  A step handles the answer to one disk_* call.          *)
(***************************************************************************)
EXTENDS SdCard, FatVolume

CONSTANTS Handles,      \* open file objects; a positive number each
          Image,        \* Image[k]: the sectors of card k that are not blank
          IdMod,        \* mount numbers before fs->id wraps; 65536 in the code
          MaxCalls, MaxSwaps

VARIABLES FatFs,        \* whether the work area is registered (FatFs[0] # NULL)
          fs,           \* the FATFS object
          Fsid,
          hs,           \* the FIL objects
          call,         \* the f_* call in progress
          n,            \* calls and swaps so far
          seen          \* what the caller was told: values written and synced

vars == <<sdVars, FatFs, fs, Fsid, hs, call, n, seen>>
fatVars == <<FatFs, fs, Fsid, hs, call, n, seen>>

-----------------------------------------------------------------------------
(* The boot sector.                                                        *)

\* check_fs on the contents of a sector: 0 FAT boot record, 1 other boot record, 2 neither.
check_fs(x) == CASE x.t \notin {"boot", "mbr"} -> 2 [] x.t = "boot" -> 0 [] OTHER -> 1

\* Sectors of the client's files: the entry is in the first sector of the root directory.
DirSect(g) == IF g.fs_type = "FAT32" THEN g.database + (g.dirbase - 2) * g.csize ELSE g.dirbase
DataSect(g, h) == g.database + h * g.csize

-----------------------------------------------------------------------------
(* Calls.  call.pc is where the code waits for io, call.then what follows  *)
(* move_window, call.to its sector.                                        *)

NoFsCall == [f |-> "none", pc |-> "ret", h |-> 0, v |-> <<>>, to |-> 0, then |-> "", res |-> ""]
Closed == [id |-> -1, card |-> 0, dsect |-> 0, written |-> FALSE, error |-> FALSE, failed |-> FALSE]
Unmounted == [geo |-> NoVolume, id |-> 0, winsect |-> 0, wflag |-> FALSE, win |-> Blank]

\* bash registers the work area before anything else (shell/bash.c:453).
Init == /\ SdInit /\ shelf = Image
        /\ FatFs = TRUE /\ fs = Unmounted /\ Fsid = 0
        /\ hs = [h \in Handles |-> Closed]
        /\ call = NoFsCall /\ n = [calls |-> 0, swaps |-> 0]
        /\ seen = [last |-> [h \in Handles |-> <<>>], synced |-> {}, got |-> <<>>]

Mounted == fs.geo.fs_type # "0"
DiskSame == UNCHANGED <<slot, shelf, faults, Stat, CardType>>
Ask(req) == io' = req
Goto(p) == call' = [call EXCEPT !.pc = p]

\* The end of a call; a failure marks the handle, for the statements below only.
Finish(r) == call' = [call EXCEPT !.pc = "ret", !.res = r]
FailedHandle(r) == IF call.h = 0 \/ r = "FR_OK" THEN hs ELSE [hs EXCEPT ![call.h].failed = TRUE]
Leave(r) == Finish(r) /\ hs' = FailedHandle(r)
Abort(r) == /\ Finish(r) /\ hs' = [hs EXCEPT ![call.h].error = TRUE, ![call.h].failed = TRUE]

\* The sectors a caller gives to a write: the value says whose data it is.
Data(h, k, i) == [t |-> "data", h |-> h, of |-> k, v |-> i]

Start(f, h, v) ==
  /\ call.pc = "ret" /\ n.calls < MaxCalls
  /\ n' = [n EXCEPT !.calls = @ + 1]
  /\ call' = [NoFsCall EXCEPT !.f = f, !.h = h, !.v = v,
                              !.pc = IF f = "f_open" THEN "chk" ELSE IF f = "capacity" THEN "cap" ELSE "val"]
  /\ io' = NoCall
  /\ hs' = IF f = "f_open" THEN [hs EXCEPT ![h] = Closed] ELSE hs
  /\ UNCHANGED <<slot, shelf, faults, Stat, CardType, FatFs, fs, Fsid, seen>>

f_mount(reg) ==
  /\ call.pc = "ret" /\ n.calls < MaxCalls /\ (reg \/ FatFs)
  /\ n' = [n EXCEPT !.calls = @ + 1]
  /\ FatFs' = reg
  /\ fs' = [fs EXCEPT !.geo = NoVolume]
  /\ call' = NoFsCall /\ io' = NoCall
  /\ UNCHANGED <<slot, shelf, faults, Stat, CardType, Fsid, hs, seen>>

\* Files are numbered in the order they are first opened, and the size is asked for once.
Begin == \/ \E h \in Handles : (\A g \in Handles : g < h => hs[g].id # -1) /\ Start("f_open", h, <<>>)
         \/ \E h \in Handles, f \in {"f_read", "f_sync"}, z \in {1, 2} :
              hs[h].id # -1 /\ (f = "f_sync" => z = 1) /\ Start(f, h, [i \in 1 .. z |-> Blank])
         \/ \E h \in Handles, z \in {1, 2} :
              hs[h].id # -1 /\ Start("f_write", h, [i \in 1 .. z |-> Data(h, hs[h].card, n.calls)])
         \/ n.calls = 1 /\ Start("capacity", 0, <<>>)

-----------------------------------------------------------------------------
(* chk_mounted and validate.                                               *)

Body == Goto("body")

\* Mutant: the window of the volume before stays.
MountAs_keep(g, x) == /\ fs' = [fs EXCEPT !.geo = g, !.id = (Fsid + 1) % IdMod, !.win = x]
                      /\ Fsid' = (Fsid + 1) % IdMod /\ Body

MountAs(g, x) == /\ fs' = [geo |-> g, id |-> (Fsid + 1) % IdMod, winsect |-> 0, wflag |-> FALSE, win |-> x]
                 /\ Fsid' = (Fsid + 1) % IdMod /\ Body

\* After a boot record has been read into the window.
Examine(bsect, x) ==
  LET g == Geometry(x, bsect)
  IN IF g = NoVolume THEN /\ fs' = [fs EXCEPT !.win = x] /\ Leave("FR_NO_FILESYSTEM")
                          /\ UNCHANGED <<Fsid, io>>
     ELSE IF g.fs_type = "FAT32"
     THEN /\ fs' = [fs EXCEPT !.win = x] /\ call' = [call EXCEPT !.pc = "chk_fsi", !.to = bsect, !.v = <<g>>]
          /\ Ask(Request("disk_read", g.fsi_sector, 1, <<>>)) /\ UNCHANGED <<Fsid, hs>>
     ELSE MountAs(g, x) /\ UNCHANGED <<io, hs>>

Initialise == /\ fs' = [fs EXCEPT !.geo = NoVolume] /\ Goto("chk_init")
              /\ Ask(Request("disk_initialize", 0, 0, <<>>)) /\ UNCHANGED <<Fsid, hs>>

chk_mounted ==
  /\ Returned /\ call.pc \in {"chk", "chk_stat", "chk_init", "chk_boot", "chk_part", "chk_fsi"}
  /\ CASE call.pc = "chk" ->
          IF ~ FatFs THEN Leave("FR_NOT_ENABLED") /\ UNCHANGED <<fs, Fsid, io>>
          ELSE IF Mounted THEN Goto("chk_stat") /\ Ask(Request("disk_status", 0, 0, <<>>)) /\ UNCHANGED <<fs, Fsid, hs>>
          ELSE Initialise
       [] call.pc = "chk_stat" ->
          IF io.res # NOINIT THEN Body /\ UNCHANGED <<fs, Fsid, io, hs>> ELSE Initialise
       [] call.pc = "chk_init" ->
          IF io.res = NOINIT THEN Leave("FR_NOT_READY") /\ UNCHANGED <<fs, Fsid, io>>
          ELSE Goto("chk_boot") /\ Ask(Request("disk_read", 0, 1, <<>>)) /\ UNCHANGED <<fs, Fsid, hs>>
       [] call.pc \in {"chk_boot", "chk_part"} ->
          IF io.res # "RES_OK" THEN Leave("FR_DISK_ERR") /\ UNCHANGED <<fs, Fsid, io>>
          ELSE LET x == io.buf[1] IN
               IF check_fs(x) = 0 THEN Examine(io.sector, x)
               ELSE IF call.pc = "chk_boot" /\ check_fs(x) = 1 /\ x.type # 0
               THEN /\ fs' = [fs EXCEPT !.win = x] /\ Goto("chk_part")
                    /\ Ask(Request("disk_read", x.start, 1, <<>>)) /\ UNCHANGED <<Fsid, hs>>
               ELSE fs' = [fs EXCEPT !.win = x] /\ Leave("FR_NO_FILESYSTEM") /\ UNCHANGED <<Fsid, io>>
       [] call.pc = "chk_fsi" ->             \* a missing FSInfo sector is no error
          MountAs(call.v[1], IF io.res = "RES_OK" THEN io.buf[1] ELSE fs.win) /\ UNCHANGED <<io, hs>>
  /\ DiskSame /\ UNCHANGED <<FatFs, n, seen>>

\* The file object belongs to the volume as it is mounted now.
Current(h) == Mounted /\ fs.id = hs[h].id

validate ==
  /\ Returned /\ call.pc \in {"val", "val_stat"}
  /\ IF call.pc = "val"
     THEN IF ~ Current(call.h) THEN Leave("FR_INVALID_OBJECT") /\ UNCHANGED io
          ELSE Goto("val_stat") /\ Ask(Request("disk_status", 0, 0, <<>>)) /\ UNCHANGED hs
     ELSE IF io.res = NOINIT THEN Leave("FR_NOT_READY") /\ UNCHANGED io
          ELSE IF call.f # "f_sync" /\ hs[call.h].error THEN Leave("FR_INT_ERR") /\ UNCHANGED io
          ELSE Body /\ UNCHANGED <<io, hs>>
  /\ DiskSame /\ UNCHANGED <<FatFs, fs, Fsid, n, seen>>

-----------------------------------------------------------------------------
(* The window.  The copies of a FAT sector are in FatDisk.                 *)

Fetch == IF call.to = 0 THEN Goto(call.then) /\ UNCHANGED io
         ELSE Goto("mw_read") /\ Ask(Request("disk_read", call.to, 1, <<>>))
WindowError == IF call.f \in {"f_read", "f_write"} THEN Abort("FR_DISK_ERR") ELSE Leave("FR_DISK_ERR")

move_window ==
  /\ Returned /\ call.pc \in {"mw", "mw_flush", "mw_read"}
  /\ CASE call.pc = "mw" ->
          IF fs.winsect = call.to THEN Goto(call.then) /\ UNCHANGED <<fs, io, hs>>
          ELSE IF fs.wflag
          THEN Goto("mw_flush") /\ Ask(Request("disk_write", fs.winsect, 1, <<fs.win>>)) /\ UNCHANGED <<fs, hs>>
          ELSE Fetch /\ UNCHANGED <<fs, hs>>
       [] call.pc = "mw_flush" ->
          IF io.res # "RES_OK" THEN WindowError /\ UNCHANGED <<fs, io>>
          ELSE fs' = [fs EXCEPT !.wflag = FALSE] /\ Fetch /\ UNCHANGED hs
       [] call.pc = "mw_read" ->
          IF io.res # "RES_OK" THEN WindowError /\ UNCHANGED <<fs, io>>
          ELSE /\ fs' = [fs EXCEPT !.win = io.buf[1], !.winsect = call.to]
               /\ Goto(call.then) /\ UNCHANGED <<io, hs>>
  /\ DiskSame /\ UNCHANGED <<FatFs, Fsid, n, seen>>

Window(s, p) == call' = [call EXCEPT !.pc = "mw", !.to = s, !.then = p]

-----------------------------------------------------------------------------
(* The rest of the calls: what f_open, f_read, f_write and f_sync do once  *)
(* the volume or the handle is accepted.                                   *)

In(f, p) == Returned /\ call.f = f /\ call.pc = p

f_open ==
  /\ call.f = "f_open"
  /\ \/ /\ In("f_open", "body") /\ Window(DirSect(fs.geo), "entry") /\ UNCHANGED <<hs, seen>>
     \/ /\ In("f_open", "entry") /\ Finish("FR_OK")
        /\ hs' = [hs EXCEPT ![call.h] = [Closed EXCEPT !.id = fs.id, !.card = slot.id]]
        /\ seen' = [seen EXCEPT !.last[call.h] = <<>>]
  /\ DiskSame /\ UNCHANGED <<io, FatFs, fs, Fsid, n>>

Dsect == DataSect(fs.geo, call.h)
Size == Len(call.v)

\* A sector that is newer in the window than on the card.
Patched(b) == IF fs.wflag /\ fs.winsect \in Dsect .. Dsect + 1
              THEN [b EXCEPT ![fs.winsect - Dsect + 1] = fs.win] ELSE b

\* Two whole sectors go straight to the buffer, one sector (a part of it) through the window.
f_read ==
  /\ call.f = "f_read"
  /\ \/ /\ In("f_read", "body") /\ Size = 1 /\ Window(Dsect, "copy") /\ UNCHANGED <<hs, seen, io>>
     \/ /\ In("f_read", "body") /\ Size = 2
        /\ Goto("direct") /\ Ask(Request("disk_read", Dsect, 2, <<>>)) /\ UNCHANGED <<hs, seen>>
     \/ /\ In("f_read", "copy") /\ Leave("FR_OK")
        /\ seen' = [seen EXCEPT !.got = <<fs.win>>] /\ UNCHANGED io
     \/ /\ In("f_read", "direct")
        /\ IF io.res # "RES_OK" THEN Abort("FR_DISK_ERR") /\ UNCHANGED seen
           ELSE Leave("FR_OK") /\ seen' = [seen EXCEPT !.got = Patched(io.buf)]
        /\ UNCHANGED io
  /\ DiskSame /\ UNCHANGED <<FatFs, fs, Fsid, n>>

\* The promise p is about the sectors of this file.
Covers(p) == p[1] = hs[call.h].card /\ p[2] \in Dsect .. Dsect + 1

\* What the caller may now expect to read back; nothing it has not written is promised.
Wrote == /\ hs' = [hs EXCEPT ![call.h].written = TRUE]
         /\ seen' = [seen EXCEPT !.last[call.h] = call.v \o SubSeq(@, Size + 1, Len(@))]

\* Mutant: the window keeps what the sector held before.
Refreshed_not == fs

\* The window follows a sector written past it.
Refreshed == IF fs.winsect \in Dsect .. Dsect + 1
             THEN [fs EXCEPT !.win = call.v[fs.winsect - Dsect + 1], !.wflag = FALSE] ELSE fs

f_write ==
  /\ call.f = "f_write"
  /\ \/ /\ In("f_write", "body")
        /\ IF fs.winsect = hs[call.h].dsect THEN Window(0, "sector") ELSE Goto("sector")
        /\ seen' = [seen EXCEPT !.synced = {p \in @ : ~ Covers(p)}] /\ UNCHANGED <<hs, fs, io>>
     \/ /\ In("f_write", "sector") /\ Size = 1 /\ Window(Dsect, "copy")
        /\ hs' = [hs EXCEPT ![call.h].dsect = Dsect] /\ UNCHANGED <<seen, fs, io>>
     \/ /\ In("f_write", "copy")
        /\ fs' = [fs EXCEPT !.win = call.v[1], !.wflag = TRUE]
        /\ Wrote /\ Finish("FR_OK") /\ UNCHANGED io
     \/ /\ In("f_write", "sector") /\ Size = 2
        /\ Goto("direct") /\ Ask(Request("disk_write", Dsect, 2, call.v)) /\ UNCHANGED <<hs, seen, fs>>
     \/ /\ In("f_write", "direct")
        /\ IF io.res # "RES_OK" THEN Abort("FR_DISK_ERR") /\ UNCHANGED <<fs, seen>>
           ELSE /\ fs' = Refreshed
                /\ Wrote /\ Finish("FR_OK")
        /\ UNCHANGED io
  /\ DiskSame /\ UNCHANGED <<FatFs, Fsid, n>>

Entry(h) == [t |-> "entry", h |-> h, of |-> hs[h].card]
Promised == {<<hs[call.h].card, Dsect + i - 1, seen.last[call.h][i]>> : i \in 1 .. Len(seen.last[call.h])}

f_sync ==
  /\ call.f = "f_sync"
  /\ \/ /\ In("f_sync", "body")
        /\ IF hs[call.h].written THEN Window(DirSect(fs.geo), "entry") /\ UNCHANGED hs ELSE Leave("FR_OK")
        /\ UNCHANGED <<seen, fs, io>>
     \/ /\ In("f_sync", "entry")
        /\ fs' = [fs EXCEPT !.win = Entry(call.h), !.wflag = TRUE]
        /\ hs' = [hs EXCEPT ![call.h].written = FALSE]
        /\ Window(0, "sync") /\ UNCHANGED <<seen, io>>
     \/ /\ In("f_sync", "sync")
        /\ Goto("sync2") /\ Ask(Request("CTRL_SYNC", 0, 0, <<>>)) /\ UNCHANGED <<hs, seen, fs>>
     \/ /\ In("f_sync", "sync2")
        /\ IF io.res # "RES_OK" THEN Leave("FR_DISK_ERR") /\ UNCHANGED seen
           ELSE /\ Leave("FR_OK")
                /\ seen' = IF hs[call.h].failed THEN seen
                           ELSE [seen EXCEPT !.synced = @ \cup Promised]
        /\ UNCHANGED <<fs, io>>
  /\ DiskSame /\ UNCHANGED <<FatFs, Fsid, n>>

\* disk_ioctl(0, GET_SECTOR_COUNT), as an application asks for the size of the card.
capacity ==
  /\ Returned /\ call.f = "capacity" /\ call.pc \in {"cap", "cap2"}
  /\ IF call.pc = "cap" THEN Goto("cap2") /\ Ask(Request("GET_SECTOR_COUNT", 0, 0, <<>>))
     ELSE Finish(io.res) /\ UNCHANGED io
  /\ DiskSame /\ UNCHANGED <<FatFs, fs, Fsid, hs, n, seen>>

-----------------------------------------------------------------------------
FatStep == chk_mounted \/ validate \/ move_window \/ f_open \/ f_read \/ f_write \/ f_sync \/ capacity
Disk == DiskStep /\ UNCHANGED fatVars
Swap == /\ n.swaps < MaxSwaps /\ n' = [n EXCEPT !.swaps = @ + 1]
        /\ (Pull \/ \E k \in Cards : Plug(k))
        /\ UNCHANGED <<FatFs, fs, Fsid, hs, call, seen>>

Next == Begin \/ (\E reg \in BOOLEAN : f_mount(reg)) \/ FatStep \/ Disk \/ Swap
Spec == Init /\ [][Next]_vars /\ WF_vars(FatStep) /\ WF_vars(Disk)

-----------------------------------------------------------------------------
(* Properties.                                                             *)

MemOf(k) == IF slot # NoCard /\ slot.id = k THEN slot.mem ELSE shelf[k]

\* The driver's copies agree in type: states and results are the ones of diskio.h and ff.h.
TypeOK == /\ Stat \in {NOINIT, "0"} /\ CardType \in {"none", "MMC", "SD1", "SD2", "SD2_BLOCK"}
          /\ slot = NoCard \/ (slot.id \in Cards /\ slot.mode \in {"native", "idle", "ready"})
          /\ faults \in 0 .. MaxFaults /\ FatFs \in BOOLEAN /\ fs.wflag \in BOOLEAN
          /\ io.res \in {"", NOINIT, "0", "RES_OK", "RES_ERROR", "RES_NOTRDY"}
          /\ call.res \in {"", "FR_OK", "FR_DISK_ERR", "FR_NOT_READY", "FR_NOT_ENABLED", "FR_NO_FILESYSTEM",
                           "FR_INVALID_OBJECT", "FR_INT_ERR", "RES_OK", "RES_ERROR", "RES_NOTRDY"}

Transferring == /\ io.fn \in {"disk_read", "disk_write"} /\ io.pc = "data"
                /\ slot # NoCard /\ slot.xfer # "none"

\* The block the card transfers is the sector the file system asked for, whatever cards were
\* exchanged since the card type was stored: the address has the unit of the card in the slot.
RightBlock == Transferring => slot.blk = io.sector + io.count - io.k

\* A call on an open file only ever moves data of the card the file was opened on, however the
\* cards were exchanged and the volume mounted again in between (fs->id and disk_status).
OwnCard == (Transferring /\ call.h # 0 /\ call.f # "f_open") => slot.id = hs[call.h].card

\* Nothing read or written for one card ends on another: every sector holds what it was made
\* with, or data of a file of this card in the sectors of that file.
NoForeignData ==
  \A k \in Cards : \A s \in DOMAIN MemOf(k) :
    \/ s \in DOMAIN Image[k] /\ MemOf(k)[s] = Image[k][s]
    \/ MemOf(k)[s].t \in {"data", "entry"} /\ MemOf(k)[s].of = k

Idling == slot # NoCard /\ slot.mode = "ready" /\ Stat = "0" /\ Mounted /\ call.pc = "ret"

\* Between calls the window is what the card has at winsect, or is marked to be written back:
\* a read that fails half way leaves no other contents behind it.  (A file whose write failed
\* half way is the exception; its handle is marked and refuses further transfers.)
WindowTrue == (Idling /\ fs.winsect # 0 /\ ~ fs.wflag /\ \A h \in Handles : ~ hs[h].error)
                => fs.win = At(Settled(slot).mem, fs.winsect)

\* A read that reports success on a handle that never failed returns what was last written.
ReadLatest ==
  (call.f = "f_read" /\ call.pc = "ret" /\ call.res = "FR_OK" /\ ~ hs[call.h].failed) =>
    \A i \in 1 .. Len(seen.got) :
      i <= Len(seen.last[call.h]) => seen.got[i] = seen.last[call.h][i]

\* Data a successful f_sync covered survive: pulling the card in any later state keeps them.
SyncDurable == \A p \in seen.synced : At(MemOf(p[1]), p[2]) = p[3]

\* An accepted volume has its areas in order, a FAT with an entry for every cluster and its last
\* cluster inside the volume.
GeometrySound ==
  Mounted => LET g == fs.geo
                 bits == CASE g.fs_type = "FAT12" -> 12 [] g.fs_type = "FAT16" -> 16 [] OTHER -> 32
             IN /\ g.fatbase > g.bsect /\ g.fatbase + g.n_fats * g.fsize <= g.database
                /\ g.fsize * SS * 8 >= g.n_fatent * bits
                /\ g.database + (g.n_fatent - 2) * g.csize <= g.bsect + g.tsect
                /\ g.fs_type # "FAT32" =>
                     g.dirbase + g.n_rootdir \div (SS \div 32) = g.database

\* The number of sectors the driver reports is the capacity of the card that answered.
CapacityTrue == (call.f = "capacity" /\ call.res = "RES_OK" /\ n.swaps = 1) => io.buf[1] = Capacity(slot.id)

\* Every call returns: lost commands and a card that is pulled end in an error, not in a hang.
CallsReturn == (call.pc # "ret") ~> (call.pc = "ret")

\* Every transfer is to the block and the card it is meant for, no card holds
\* what was written for another, and what a mount and disk_ioctl say of a card
\* is true of the card in the slot (chk_mounted, disk_read, disk_write).
CardInv == TypeOK /\ RightBlock /\ OwnCard /\ NoForeignData /\ GeometrySound /\ CapacityTrue

\* What a program reads is what it wrote last, and what it synchronised is on
\* the card: window and card agree (move_window, f_sync, disk_ioctl CTRL_SYNC).
DataCurrent == WindowTrue /\ ReadLatest /\ SyncDurable
=============================================================================
