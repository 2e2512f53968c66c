----------------------------- MODULE MCFatMount -----------------------------
(* 1: byte addressed, FAT16 in a partition that starts at sector 512; 2: block addressed, FAT32; *)
(* 3: an old SD card with a boot record whose FAT is too small for its clusters.               *)
EXTENDS FatMount

MCKind == [k \in Cards |-> <<"SD2", "SDHC", "SD1">>[k]]
MCCSD == [k \in Cards |-> IF k = 2 THEN [v |-> 1, c_size |-> 199, mult |-> 0, bl_len |-> 0]
                          ELSE [v |-> 0, c_size |-> 255, mult |-> 5, bl_len |-> 9]]

Boot(spc, rsvd, root, fatsz, tot, fats) ==
  [t |-> "boot", BytsPerSec |-> 512, SecPerClus |-> spc, RsvdSecCnt |-> rsvd, NumFATs |-> fats,
   RootEntCnt |-> root, TotSec16 |-> IF tot < 65536 THEN tot ELSE 0, TotSec32 |-> IF tot < 65536 THEN 0 ELSE tot,
   FATSz16 |-> IF root = 0 THEN 0 ELSE fatsz, FATSz32 |-> IF root = 0 THEN fatsz ELSE 0, RootClus |-> 2, FSInfo |-> 1]

Partitioned == [q \in {0, 512} |-> IF q = 0 THEN [t |-> "mbr", type |-> 6, start |-> 512]
                                   ELSE Boot(2, 1, 16, 17, 8300, 2)]
MCImage == [k \in Cards |-> CASE k = 1 -> Partitioned
                              [] k = 2 -> [q \in {0} |-> Boot(2, 32, 0, 512, 132000, 1)]
                              [] OTHER -> [q \in {0} |-> Boot(4, 1, 32, 6, 8300, 2)]]
=============================================================================
