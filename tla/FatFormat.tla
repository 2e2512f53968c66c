------------------------------ MODULE FatFormat -----------------------------
(***************************************************************************)
(* Dividing and formatting a drive (fatfs/ff.c: f_fdisk, f_mkfs, in the    *)
(* configuration that has them) and mounting what they made.  A drive is   *)
(* one volume ("one", LD2PT is 0) or is divided first ("multi", logical    *)
(* drive i is partition i).  A step is one kind of sector being written;   *)
(* the sectors a mount looks at are kept, the others are cleared or not.   *)
(***************************************************************************)
EXTENDS FatVolume, Sequences, SequencesExt

CONSTANTS Capacities,   \* sectors of a drive that is one volume
          Dividable,    \* sectors of a drive that is divided
          Shares,       \* sizes a caller asks of f_fdisk: percent or sectors
          AuSizes,      \* allocation units a caller asks for, 0 for any
          EraseBlocks   \* what GET_BLOCK_SIZE answers

VARIABLES drive,   \* capacity, erase block, configuration
          disk,    \* the boot records and the FSInfo sector, by sector
          fm,      \* the call in progress
          mnt,     \* the geometry each logical drive is mounted with
          made     \* the volumes made, by partition

formatVars == <<drive, disk, fm, mnt, made>>

N_ROOTDIR == 512
N_FATS == 1
BLANK_SECTOR == [t |-> "blank"]
Sector(s) == IF s \in DOMAIN disk THEN disk[s] ELSE BLANK_SECTOR
Drives == IF drive.cfg = "one" THEN {0} ELSE {1, 2}
NoPartition == [type |-> 0, start |-> 0, size |-> 0]
NoVols == [p \in 0 .. 4 |-> NoVolume]
Ready == [f |-> "none", pc |-> "ret", res |-> ""]

\* A divided drive has erase blocks that fit in its partitions: f_mkfs moves the
\* data area to the next one and does not notice that it left the partition.
FormatInit ==
    /\ drive \in [cap : Capacities, blk : EraseBlocks, cfg : {"one"}]
                 \cup [cap : Dividable, blk : EraseBlocks \cap 1 .. 64, cfg : {"multi"}]
    /\ disk = <<>> /\ fm = [Ready EXCEPT !.f = "init"] /\ mnt = NoVols /\ made = NoVols

-----------------------------------------------------------------------------
(* f_fdisk.                                                                *)

\* Heads, so that there are at most 1024 cylinders if possible.
Heads(sz) == LET fit == {n \in {16, 32, 64, 128} : (sz \div n) \div 63 <= 1024}
             IN  IF fit = {} THEN 255 ELSE CHOOSE n \in fit : \A m \in fit : n <= m
sz_cyl == 63 * Heads(drive.cap)
tot_cyl == drive.cap \div sz_cyl

Give(f, r) == fm' = [f |-> f, pc |-> "ret", res |-> r]

f_fdisk(stat) ==
    /\ fm.f = "init" /\ drive.cfg = "multi"
    /\ CASE stat = "noinit" -> Give("f_fdisk", "FR_NOT_READY")
         [] stat = "protect" -> Give("f_fdisk", "FR_WRITE_PROTECTED")
         [] OTHER -> fm' = [f |-> "f_fdisk", pc |-> "entry", res |-> "", tbl |-> <<>>, b_cyl |-> 0]
    /\ UNCHANGED <<drive, disk, mnt, made>>

\* The last cylinder of a partition is not on the drive.
PastEnd(e) == e >= tot_cyl

\* Callers give the first partition something: else the second would begin at
\* sector 0, where the table is.
FirstTaken(p_cyl) == fm.tbl = <<>> => p_cyl # 0

\* One turn of the loop: a partition of the size asked for, after the one before;
\* the first leaves out the first track.
FdiskEntry(szt) ==
    LET i     == Len(fm.tbl)
        p_cyl == IF szt <= 100 THEN (tot_cyl * szt) \div 100 ELSE szt \div sz_cyl
        skip  == IF i = 0 THEN 63 ELSE 0
    IN  /\ fm.pc = "entry" /\ FirstTaken(p_cyl)
        /\ CASE p_cyl = 0 -> fm' = [fm EXCEPT !.tbl = Append(@, NoPartition),
                                              !.pc = IF i = 3 THEN "table" ELSE "entry"]
             [] p_cyl # 0 /\ PastEnd(fm.b_cyl + p_cyl - 1) -> Give("f_fdisk", "FR_INVALID_PARAMETER")
             [] OTHER -> fm' = [fm EXCEPT !.tbl = Append(@, [type |-> 6, start |-> sz_cyl * fm.b_cyl + skip,
                                                             size |-> sz_cyl * p_cyl - skip]),
                                          !.b_cyl = @ + p_cyl, !.pc = IF i = 3 THEN "table" ELSE "entry"]
        /\ UNCHANGED <<drive, disk, mnt, made>>

\* A sector is written; one whose write failed may have been.
Put1(s, x) == disk' = [q \in DOMAIN disk \cup {s} |-> IF q = s THEN x ELSE disk[q]]
Write(s, x, ok) == Put1(s, x) \/ (~ ok /\ UNCHANGED disk)

FdiskTable(ok) == /\ fm.pc = "table" /\ Write(0, [t |-> "mbr", tbl |-> fm.tbl], ok)
                  /\ Give("f_fdisk", IF ok THEN "FR_OK" ELSE "FR_DISK_ERR")
                  /\ UNCHANGED <<drive, mnt, made>>

-----------------------------------------------------------------------------
(* f_mkfs: the layout.                                                     *)

vst == <<1024, 512, 256, 128, 64, 32, 16, 8, 4, 2, 0>>
cst == <<32768, 16384, 8192, 4096, 2048, 16384, 8192, 4096, 2048, 1024, 512>>

\* Sectors per cluster.
Cluster(n_vol, au) ==
    LET bytes == IF au # 0 THEN au ELSE cst[SelectInSeq(vst, LAMBDA v : n_vol \div 2000 >= v)]
        secs  == bytes \div SS
    IN  IF secs = 0 THEN 1 ELSE IF secs > 128 THEN 128 ELSE secs

RoundUp(n, k) == ((n + k - 1) \div k) * k

\* Bytes of a FAT for n clusters and the two entries before them.
FatBytes(fmt, n) == CASE fmt = "FAT32" -> n * 4 + 8 [] fmt = "FAT16" -> n * 2 + 4
                      [] OTHER -> (n * 3 + 1) \div 2 + 3

\* A difference of sector counts that would be negative wraps to a very large one.
HUGE == 2147483647

\* Where everything goes in the n_vol sectors from b_vol; the data area begins at
\* an erase block, which moves the FAT of a FAT32 volume and stretches the others'.
Layout(b_vol, n_vol, au) ==
    LET csz   == Cluster(n_vol, au)
        pre   == n_vol \div csz
        fmt   == IF pre >= MIN_FAT32 THEN "FAT32" ELSE IF pre >= MIN_FAT16 THEN "FAT16" ELSE "FAT12"
        fat0  == (FatBytes(fmt, pre) + SS - 1) \div SS
        rsv0  == IF fmt = "FAT32" THEN 32 ELSE 1
        n_dir == IF fmt = "FAT32" THEN 0 ELSE (N_ROOTDIR * 32) \div SS
        data0 == b_vol + rsv0 + fat0 * N_FATS + n_dir
        blk   == IF drive.blk \in 1 .. 32768 THEN drive.blk ELSE 1
        n     == (RoundUp(data0, blk) - data0) \div N_FATS
        n_rsv == IF fmt = "FAT32" THEN rsv0 + n ELSE rsv0
        n_fat == IF fmt = "FAT32" THEN fat0 ELSE fat0 + n
        room  == n_vol - n_rsv - n_fat * N_FATS - n_dir
        clst  == IF room < 0 THEN HUGE ELSE room \div csz
        fits  == /\ n_vol >= data0 + csz - b_vol
                 /\ fmt = "FAT16" => clst >= MIN_FAT16
                 /\ fmt = "FAT32" => clst >= MIN_FAT32
    IN  [fits |-> fits, fmt |-> fmt, csz |-> csz, b_vol |-> b_vol, n_vol |-> n_vol, n_rsv |-> n_rsv,
         n_fat |-> n_fat, n_dir |-> n_dir, n_clst |-> clst, b_fat |-> b_vol + n_rsv, room |-> room]

sys(l) == CASE l.fmt = "FAT12" -> 1 [] l.fmt = "FAT16" -> (IF l.n_vol < 65536 THEN 4 ELSE 6) [] OTHER -> 12

\* The BIOS parameter block, each number in the width of its field.
BPB(l) == [t |-> "boot", BytsPerSec |-> SS, SecPerClus |-> l.csz % 256, RsvdSecCnt |-> l.n_rsv % 65536,
           NumFATs |-> N_FATS, RootEntCnt |-> IF l.fmt = "FAT32" THEN 0 ELSE N_ROOTDIR,
           TotSec16 |-> IF l.n_vol < 65536 THEN l.n_vol ELSE 0, TotSec32 |-> IF l.n_vol < 65536 THEN 0 ELSE l.n_vol,
           FATSz16 |-> IF l.fmt = "FAT32" THEN 0 ELSE l.n_fat % 65536,
           FATSz32 |-> IF l.fmt = "FAT32" THEN l.n_fat ELSE 0,
           RootClus |-> IF l.fmt = "FAT32" THEN 2 ELSE 0, FSInfo |-> IF l.fmt = "FAT32" THEN 1 ELSE 0]

-----------------------------------------------------------------------------
(* f_mkfs: the writes.                                                     *)

\* What the code looks at before it writes: the drive, the partition, the sizes.
Refusal(stat, part, au) ==
    LET tbl == Sector(0) IN
    CASE au # 0 /\ ~ \E e \in 0 .. 30 : au = 2 ^ e -> "FR_INVALID_PARAMETER"
      [] stat = "noinit" -> "FR_NOT_READY"
      [] stat = "protect" -> "FR_WRITE_PROTECTED"
      [] part # 0 /\ tbl.t # "mbr" -> "FR_MKFS_ABORTED"
      [] part = 0 /\ drive.cap < 128 -> "FR_DISK_ERR"
      [] OTHER -> ""

\* The volume that is formatted no longer counts as mounted.
Unmounted(p) == [mnt EXCEPT ![p] = NoVolume]

Begin(l, part, sfd) ==
    IF ~ l.fits THEN Give("f_mkfs", "FR_MKFS_ABORTED")
    ELSE fm' = [f |-> "f_mkfs", pc |-> IF part = 0 /\ sfd THEN "vbr" ELSE "mbr", res |-> "", l |-> l, part |-> part]

f_mkfs(part, sfd, au, stat) ==
    LET r   == Refusal(stat, part, au)
        tbl == Sector(0).tbl[part]
        b   == IF sfd THEN 0 ELSE 63
    IN  /\ fm.pc = "ret" /\ fm.f # "init"
        /\ part \in Drives /\ (part # 0 => ~ sfd)
        /\ mnt' = IF r = "FR_INVALID_PARAMETER" THEN mnt ELSE Unmounted(part)
        /\ CASE r # "" -> Give("f_mkfs", r)
             [] r = "" /\ part = 0 -> Begin(Layout(b, drive.cap - b, au), 0, sfd)
             [] r = "" /\ part # 0 -> IF tbl.type = 0 THEN Give("f_mkfs", "FR_MKFS_ABORTED")
                                      ELSE Begin(Layout(tbl.start, tbl.size, au), part, FALSE)
        /\ UNCHANGED <<drive, disk, made>>

AtPc(p) == fm.f = "f_mkfs" /\ fm.pc = p
To(p) == fm' = [fm EXCEPT !.pc = p]

\* A volume is made, or none is known while the writes go on.
Making == made' = [made EXCEPT ![fm.part] = NoVolume]

\* The writes in their order; a backup record and the FSInfo sector may fail
\* unnoticed.  FAT and root directory are cleared after the records are there.
WriteMbr(ok) ==
    /\ AtPc("mbr") /\ Making
    /\ Write(0, IF fm.part = 0
                THEN [t |-> "mbr", tbl |-> <<[type |-> sys(fm.l), start |-> 63, size |-> fm.l.n_vol],
                                             NoPartition, NoPartition, NoPartition>>]
                ELSE [Sector(0) EXCEPT !.tbl[fm.part].type = sys(fm.l)], ok)
    /\ IF ok THEN To("vbr") ELSE Give("f_mkfs", "FR_DISK_ERR")
    /\ UNCHANGED <<drive, mnt>>

WriteVbr(ok) ==
    /\ AtPc("vbr") /\ Making /\ Write(fm.l.b_vol, BPB(fm.l), ok)
    /\ IF ok THEN To("fat") ELSE Give("f_mkfs", "FR_DISK_ERR")
    /\ UNCHANGED <<drive, mnt>>

\* The sectors that are cleared: the FAT from b_fat, then the root directory.
FatEnd(l) == l.b_fat + l.n_fat * N_FATS
RootEnd(l) == FatEnd(l) + (IF l.fmt = "FAT32" THEN l.csz ELSE l.n_dir)

ClearAreas(ok) ==
    /\ AtPc("fat")
    /\ disk' = [s \in {q \in DOMAIN disk : q < fm.l.b_fat \/ q >= RootEnd(fm.l)} |-> disk[s]]
    /\ IF ok THEN To("info") ELSE Give("f_mkfs", "FR_DISK_ERR")
    /\ UNCHANGED <<drive, mnt, made>>

WriteInfo(ok) ==
    /\ AtPc("info") /\ To("sync")
    /\ IF ok /\ fm.l.fmt = "FAT32"
       THEN Put1(fm.l.b_vol + 1, [t |-> "info", Free_Count |-> fm.l.n_clst - 1, Nxt_Free |-> 2]) ELSE UNCHANGED disk
    /\ UNCHANGED <<drive, mnt, made>>

MkfsSync(ok) ==
    /\ AtPc("sync") /\ Give("f_mkfs", IF ok THEN "FR_OK" ELSE "FR_DISK_ERR")
    /\ made' = IF ok THEN [made EXCEPT ![fm.part] = fm.l] ELSE made
    /\ UNCHANGED <<drive, disk, mnt>>

-----------------------------------------------------------------------------
(* Mounting.                                                               *)

\* The sector chk_mounted finds the boot record of a logical drive at, or -1.
BootAt(part) ==
    LET x == Sector(0)
        e == x.tbl[IF part = 0 THEN 1 ELSE part]
    IN  CASE part = 0 /\ x.t = "boot" -> 0
          [] x.t = "mbr" -> IF e.type # 0 /\ Sector(e.start).t = "boot" THEN e.start ELSE -1
          [] OTHER -> -1

GeometryOf(part) == LET b == BootAt(part) IN IF b = -1 THEN NoVolume ELSE Geometry(Sector(b), b)

chk_mounted(part) == /\ fm.pc = "ret" /\ fm.f # "init" /\ part \in Drives /\ mnt[part] = NoVolume
                     /\ mnt' = [mnt EXCEPT ![part] = GeometryOf(part)] /\ mnt' # mnt
                     /\ UNCHANGED <<drive, disk, fm, made>>

Single == /\ fm.f = "init" /\ drive.cfg = "one" /\ fm' = Ready
          /\ UNCHANGED <<drive, disk, mnt, made>>

Stats == {"ok", "noinit", "protect"}   \* what disk_initialize answers

FormatNext ==
    \/ Single \/ (\E stat \in Stats : f_fdisk(stat)) \/ \E s \in Shares : FdiskEntry(s)
    \/ \E part \in 0 .. 2, sfd \in BOOLEAN, au \in AuSizes, stat \in Stats :
         \* A drive that is not ready refuses whatever was asked: one form is enough.
         (stat # "ok" => ~ sfd /\ au = 0) /\ f_mkfs(part, sfd, au, stat)
    \/ \E ok \in BOOLEAN : \/ FdiskTable(ok) \/ WriteMbr(ok) \/ WriteVbr(ok) \/ ClearAreas(ok)
                           \/ WriteInfo(ok) \/ MkfsSync(ok)
    \/ \E part \in 0 .. 2 : chk_mounted(part)

-----------------------------------------------------------------------------
\* The data area kept a cluster after it was moved to an erase block.  A drive
\* smaller than its erase block has none, and f_mkfs does not notice.
Roomy(l) == l.room >= l.csz

\* A volume f_mkfs reports as made mounts as what was meant: the same FAT type and
\* number of clusters, the FAT and the root directory where they were cleared, the
\* data area at an erase block and its last cluster on the drive, whatever was
\* done to the other partitions since (f_mkfs, f_fdisk, chk_mounted).
FormatMounts ==
    \A p \in Drives : (made[p] # NoVolume /\ Roomy(made[p])) =>
        LET l == made[p]  g == GeometryOf(p)
        IN  /\ g.fs_type = l.fmt /\ g.n_fatent = l.n_clst + 2 /\ g.bsect = l.b_vol
            /\ g.fatbase = l.b_fat /\ g.fatbase + g.fsize * g.n_fats = FatEnd(l)
            /\ IF l.fmt = "FAT32" THEN g.database = FatEnd(l) ELSE g.dirbase = FatEnd(l) /\ g.database = RootEnd(l)
            /\ g.database % drive.blk = 0
            /\ g.database + l.n_clst * g.csize <= drive.cap

\* A logical drive that counts as mounted is mounted with what the disk has now:
\* neither formatting it nor formatting another leaves it with an old geometry.
MountTrue == \A p \in Drives : mnt[p] # NoVolume => mnt[p] = GeometryOf(p)

\* The partitions of a divided drive lie on it, after the partition table, and
\* apart from each other, and formatting one moves none (f_fdisk, f_mkfs).
PartitionsApart ==
    (drive.cfg = "multi" /\ 0 \in DOMAIN disk) =>
        LET used == {i \in 1 .. 4 : disk[0].tbl[i].type # 0}
            End(i) == disk[0].tbl[i].start + disk[0].tbl[i].size
        IN  /\ \A i \in used : disk[0].tbl[i].start > 0 /\ End(i) <= drive.cap
            /\ \A i, j \in used : i < j => End(i) <= disk[0].tbl[j].start
=============================================================================
