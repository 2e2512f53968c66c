------------------------------- MODULE MCFatFs -------------------------------
(* FatFs on a small volume that already holds a file (1) of five units and a    *)
(* directory (3) with an empty file (5), made by the calls themselves.          *)
EXTENDS FatFs

SymHandle == Permutations(Handle)

P(names) == [abs |-> TRUE, names |-> names]
R(names) == [abs |-> FALSE, names |-> names]

Formatted(type) ==
  LET fat32 == type = "FAT32"
  IN  [disk |-> [s \in 0 .. LastSector |->
                  IF s = FsiSector THEN <<NFatEnt - 2 - (IF fat32 THEN 1 ELSE 0), 2>>
                  ELSE IF s >= FatBase /\ s < DirBase
                       THEN [i \in 0 .. FSS - 1 |->
                               IF (s - FatBase) % FSize # 0 THEN 0
                               ELSE CASE type = "FAT12" /\ i < 3 -> 255     \* entries 0 and 1
                                      [] type = "FAT16" /\ i < 2 -> 65535
                                      [] fat32 /\ i < 3 -> EOC              \* and the root
                                      [] OTHER -> 0]
                  ELSE Blank],
       left |-> 0, fault |-> "none", fs_type |-> type, winsect |-> 0, win |-> Blank, wflag |-> FALSE,
       last_clust |-> 0, free_clust |-> ERR, fsi_flag |-> FALSE, cdir |-> 0, mounted |-> FALSE,
       ready |-> FALSE, id |-> 0]

MCVolume(type) == LET a == f_mkdir(Formatted(type), P(<<3>>))
                      b == f_open(a.d, P(<<1>>), {"W", "NEW"})
                      c == f_write(b.d, b.f, Data(5, 0))
                      e == f_close(c.d, c.f)
                      f == f_open(e.d, P(<<3, 5>>), {"W", "NEW"})
                  IN  f_close(f.d, f.f).d

Prog(type, ops, paths, dirs, modes, sizes, fault, left) ==
  [type |-> type, ops |-> ops, paths |-> paths, dirs |-> dirs, modes |-> modes, sizes |-> sizes,
   fault |-> fault, left |-> left]

MCPrograms ==
  {Prog("FAT12", {"open", "write", "read", "close", "seek"}, {P(<<1>>), P(<<2>>)}, {}, {{"R", "W", "OPEN"}}, {1, 4}, "none", 0),
   Prog("FAT32", {"open", "write", "truncate", "seek", "sync", "getfree"}, {P(<<1>>)}, {}, {{"W"}}, {1, 6}, "none", 0),
   Prog("FAT32", {"open", "close", "unlink", "mkdir", "chmod", "stat", "getfree"}, {P(<<1>>), P(<<3, 1>>), P(<<3, 2>>)}, {},
        {{"W", "ALWAYS"}, {"W", "NEW"}}, {}, "none", 0),
   Prog("FAT16", {"mkdir", "rename", "chdir", "getcwd", "opendir"}, {P(<<1>>), R(<<2>>), P(<<3, 4>>), R(<<DOTDOT, 2>>)},
        {P(<<3>>), P(<<3, 4>>), R(<<2>>), R(<<DOTDOT>>)}, {}, {}, "none", 0)}
  \cup {Prog("FAT12", {"open", "write", "close", "unlink", "mkdir"}, {P(<<1>>), P(<<3, 1>>)}, {}, {{"W", "ALWAYS"}}, {5}, kind, k)
        : kind \in {"glitch", "gone"}, k \in 0 .. 6}
=============================================================================
