----------------------------- MODULE FatVolume ------------------------------
(***************************************************************************)
(* The layout of a FAT volume as chk_mounted derives it from the boot      *)
(* record (fatfs/ff.c): FatMount mounts it over the card driver, FatFormat *)
(* makes it.                                                               *)
(***************************************************************************)
EXTENDS Integers

SS == 512
MIN_FAT16 == 4086
MIN_FAT32 == 65526

NoVolume == [fs_type |-> "0"]
Either(a, b) == IF a # 0 THEN a ELSE b
PowerOf2(b) == \E e \in 0 .. 7 : b = 2 ^ e

\* A FAT of fsize sectors has room for szbfat bytes.
FatFits(fsize, szbfat) == fsize >= (szbfat + SS - 1) \div SS

\* The geometry a BIOS parameter block describes, or NoVolume where chk_mounted refuses it.
Geometry(b, bsect) ==
  LET fsize == Either(b.FATSz16, b.FATSz32)
      fasize == fsize * b.NumFATs
      tsect == Either(b.TotSec16, b.TotSec32)
      sysect == b.RsvdSecCnt + fasize + b.RootEntCnt \div (SS \div 32)
      nclst == (tsect - sysect) \div b.SecPerClus
      fmt == IF nclst >= MIN_FAT32 THEN "FAT32" ELSE IF nclst >= MIN_FAT16 THEN "FAT16" ELSE "FAT12"
      ent == nclst + 2
      szbfat == CASE fmt = "FAT32" -> ent * 4 [] fmt = "FAT16" -> ent * 2
                  [] OTHER -> (ent * 3) \div 2 + (ent % 2)
      fatbase == bsect + b.RsvdSecCnt
  IN IF \/ b.BytsPerSec # SS
        \/ b.NumFATs \notin {1, 2}
        \/ ~ PowerOf2(b.SecPerClus)
        \/ b.RootEntCnt % (SS \div 32) # 0
        \/ b.RsvdSecCnt = 0
     THEN NoVolume
     ELSE IF tsect < sysect THEN NoVolume
     ELSE IF \/ nclst = 0
             \/ (fmt = "FAT32") # (b.RootEntCnt = 0)
             \/ ~ FatFits(fsize, szbfat)
     THEN NoVolume
     ELSE [fs_type |-> fmt, bsect |-> bsect, fsize |-> fsize, n_fats |-> b.NumFATs, csize |-> b.SecPerClus,
           n_rootdir |-> b.RootEntCnt, n_fatent |-> ent, tsect |-> tsect,
           fatbase |-> fatbase, database |-> bsect + sysect,
           dirbase |-> IF fmt = "FAT32" THEN b.RootClus ELSE fatbase + fasize,
           fsi_sector |-> bsect + b.FSInfo]
=============================================================================
