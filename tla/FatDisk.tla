------------------------------- MODULE FatDisk -------------------------------
(***************************************************************************)
(* The lower half of FatFs (fatfs/ff.c) as it is configured for LEDOS: one *)
(* volume, one sector buffer for everything (_FS_TINY), no long names.     *)
(* The volume and the memory that belongs to it are one record d, and each *)
(* operator returns what the C function leaves behind.                     *)
(*                                                                         *)
(*   disk     contents of every sector                                     *)
(*   left     writes that still succeed before the fault, and fault: what  *)
(*            happens then: "none" (nothing), "glitch" (one write fails),  *)
(*            "gone" (no transfer succeeds until the next mount)           *)
(*   fs_type  "FAT12", "FAT16" or "FAT32"                                  *)
(*   winsect, win, wflag     the sector window                             *)
(*   last_clust, free_clust, fsi_flag, cdir     as in FATFS                *)
(*                                                                         *)
(* A sector of a FAT is a function to bytes (FAT12) or to entries; any     *)
(* other sector has cells that are directory entries or units of data.     *)
(***************************************************************************)
EXTENDS Integers, Sequences, SequencesExt, FiniteSets, FiniteSetsExt

CONSTANTS NFats,      \* FAT copies
          NFatEnt,    \* n_fatent: clusters + 2
          FSS,        \* bytes (FAT12) or entries of one FAT sector
          SS,         \* cells of any other sector
          CSize,      \* sectors of a cluster
          NRootDir    \* n_rootdir of FAT12 and FAT16; FAT32 leaves the sectors unused

ASSUME GeometryAssumption ==
  /\ NFats \in 1 .. 2 /\ NFatEnt > 2 /\ FSS > 0 /\ SS > 1 /\ CSize > 0 /\ NRootDir % SS = 0

ERR == -1                                \* 0xFFFFFFFF
EOC == 268435455                         \* 0x0FFFFFFF
FSize == ((NFatEnt * 3) \div 2 + (NFatEnt % 2) + FSS - 1) \div FSS   \* enough for every type
FsiSector == 1
FatBase == 2
DirBase == FatBase + NFats * FSize
DataBase == DirBase + NRootDir \div SS
RootClust(d) == IF d.fs_type = "FAT32" THEN 2 ELSE 0
LastSector == DataBase + (NFatEnt - 2) * CSize - 1

\* What a function goes on to do with the result of a call.
After(call, Rest(_)) == Rest(call)

Cell(name, attr, clust, size) == [name |-> name, attr |-> attr, clust |-> clust, size |-> size]
Zero == Cell(0, {}, 0, 0)
Junk == Cell(-8, {}, 0, 0)               \* contents nobody wrote
DDE == -7                                \* mark of a deleted entry
DOT == -2
DOTDOT == -3
Blank == [i \in 0 .. SS - 1 |-> Zero]

-----------------------------------------------------------------------------
(* Transfers and the sector window.                                        *)

Up(d) == ~(d.fault = "gone" /\ d.left = 0)

\* Whether the next write succeeds, and what is left of the fault after it.
Fails(d) == d.fault # "none" /\ d.left = 0
Spent(d) == CASE d.fault = "none" -> d
              [] d.left > 0 -> [d EXCEPT !.left = @ - 1]
              [] d.fault = "glitch" -> [d EXCEPT !.fault = "none"]
              [] OTHER -> d
Put(d, s, x) == [Spent(d) EXCEPT !.disk[s] = IF Fails(d) THEN @ ELSE x]

\* The FATs after the first; a failure is not looked at.
Mirror(d, s) == IF s < FatBase + FSize /\ s >= FatBase /\ NFats = 2 THEN Put(d, s + FSize, d.win) ELSE d

\* Write the window back if it is dirty, then read sector s; s = 0 only writes.
move_window(d, s) ==
  IF d.winsect = s THEN [d |-> d, ok |-> TRUE]
  ELSE IF d.wflag /\ Fails(d) THEN [d |-> Spent(d), ok |-> FALSE]
  ELSE After(IF d.wflag THEN Mirror([Put(d, d.winsect, d.win) EXCEPT !.wflag = FALSE], d.winsect) ELSE d, LAMBDA w :
         CASE s = 0 -> [d |-> w, ok |-> TRUE]
           [] s # 0 /\ ~Up(w) -> [d |-> w, ok |-> FALSE]
           [] OTHER -> [d |-> [w EXCEPT !.winsect = s, !.win = w.disk[s]], ok |-> TRUE])

\* Flush, and for FAT32 the FSInfo sector through the same window.
sync(d) ==
  After(move_window(d, 0), LAMBDA w :
    IF ~w.ok THEN w
    ELSE After(IF d.fs_type = "FAT32" /\ w.d.fsi_flag
               THEN [Put(w.d, FsiSector, <<w.d.free_clust, w.d.last_clust>>)
                       EXCEPT !.winsect = 0, !.fsi_flag = FALSE, !.win = Blank]
               ELSE w.d, LAMBDA f : [d |-> f, ok |-> Up(f)]))

clust2sect(c) == IF c < 2 \/ c >= NFatEnt THEN 0 ELSE (c - 2) * CSize + DataBase

-----------------------------------------------------------------------------
(* The file allocation table.                                              *)

Byte(c) == c + c \div 2                  \* offset of the first byte of a FAT12 entry
Sec(b) == FatBase + b \div FSS

\* What a FAT12 entry is, from its two bytes.
Fat12Value(c, lo, hi) == IF c % 2 = 1 THEN (lo + 256 * hi) \div 16 ELSE (lo + 256 * hi) % 4096

get_fat(d, c) ==
  LET two == d.fs_type = "FAT12"
      b == IF two THEN Byte(c) ELSE c
  IN  IF c < 2 \/ c >= NFatEnt THEN [d |-> d, v |-> 1]
      ELSE After(move_window(d, Sec(b)), LAMBDA l :
           After(IF two /\ l.ok THEN move_window(l.d, Sec(b + 1)) ELSE l, LAMBDA h :
             [d |-> h.d, v |-> CASE ~h.ok -> ERR
                                 [] h.ok /\ two -> Fat12Value(c, l.d.win[b % FSS], h.d.win[(b + 1) % FSS])
                                 [] OTHER -> l.d.win[b % FSS]]))

\* The bytes of a FAT12 entry, keeping the half that belongs to its neighbour.
LowByte(c, old, val) == IF c % 2 = 1 THEN (old % 16) + (val % 16) * 16 ELSE val % 256
HighByte(c, old, val) == IF c % 2 = 1 THEN (val \div 16) % 256 ELSE (old \div 16) * 16 + ((val \div 256) % 16)

Store(w, i, x) == [w.d EXCEPT !.win[i] = x, !.wflag = TRUE]

\* wflag is set whatever happened.
put_fat(d, c, val) ==
  LET two == d.fs_type = "FAT12"
      b == IF two THEN Byte(c) ELSE c
      i == (b + 1) % FSS
  IN  IF c < 2 \/ c >= NFatEnt THEN [d |-> d, r |-> "INT_ERR"]
      ELSE After(move_window(d, Sec(b)), LAMBDA l :
           After(IF two /\ l.ok THEN move_window(Store(l, b % FSS, LowByte(c, l.d.win[b % FSS], val)), Sec(b + 1))
                 ELSE l, LAMBDA h :
             CASE ~h.ok -> [d |-> [h.d EXCEPT !.wflag = TRUE], r |-> "DISK_ERR"]
               [] h.ok /\ two -> [d |-> Store(h, i, HighByte(c, h.d.win[i], val)), r |-> "OK"]
               [] OTHER -> [d |-> Store(l, b % FSS, IF d.fs_type = "FAT16" THEN val % 65536 ELSE val), r |-> "OK"]))

Count(d, n) == IF d.free_clust = ERR THEN d
               ELSE [d EXCEPT !.free_clust = @ + n, !.fsi_flag = TRUE]

RECURSIVE remove_chain(_, _)
remove_chain(d, c) ==
  IF c < 2 \/ c >= NFatEnt THEN [d |-> d, r |-> "INT_ERR"]
  ELSE After(get_fat(d, c), LAMBDA g :
         CASE g.v = 0 -> [d |-> g.d, r |-> "OK"]
           [] g.v = 1 -> [d |-> g.d, r |-> "INT_ERR"]
           [] g.v = ERR -> [d |-> g.d, r |-> "DISK_ERR"]
           [] OTHER -> After(put_fat(g.d, c, 0), LAMBDA p :
                         CASE p.r # "OK" -> p
                           [] p.r = "OK" /\ g.v >= NFatEnt -> [d |-> Count(p.d, 1), r |-> "OK"]
                           [] OTHER -> remove_chain(Count(p.d, 1), g.v)))

\* The first free cluster after scl, cyclically: 0 when there is none.
RECURSIVE FreeAfter(_, _, _)
FreeAfter(d, scl, prev) ==
  LET n == IF prev + 1 >= NFatEnt THEN 2 ELSE prev + 1
  IN  IF prev + 1 >= NFatEnt /\ 2 > scl THEN [d |-> d, v |-> 0]
      ELSE After(get_fat(d, n), LAMBDA g :
             CASE g.v = 0 -> [d |-> g.d, v |-> n]
               [] g.v \in {ERR, 1} -> g
               [] g.v \notin {0, ERR, 1} /\ n = scl -> [d |-> g.d, v |-> 0]
               [] OTHER -> FreeAfter(g.d, scl, n))

\* Mutant: the link from the old end is written before the new end is marked, and
\* the new cluster stays free.
Link_unmarked(d, c, n) == IF c # 0 THEN put_fat(d, c, n) ELSE [d |-> d, r |-> "OK"]

\* The new cluster n becomes an end of chain and the old end c points to it.
Link(d, c, n) == After(put_fat(d, n, EOC), LAMBDA p : IF p.r = "OK" /\ c # 0 THEN put_fat(p.d, c, n) ELSE p)

\* A free cluster, linked to c.
Allocate(d, c, from) ==
  After(FreeAfter(d, from, from), LAMBDA f :
    IF f.v < 2 THEN f
    ELSE After(Link(f.d, c, f.v), LAMBDA p :
           CASE p.r = "OK" -> [d |-> Count([p.d EXCEPT !.last_clust = f.v], -1), v |-> f.v]
             [] p.r = "DISK_ERR" -> [d |-> p.d, v |-> ERR]
             [] OTHER -> [d |-> p.d, v |-> 1]))

\* A cluster after c, or a first one for c = 0; v is 0 when the volume is full, 1
\* or ERR on failure.  An entry that could not be read (ERR is the largest DWORD)
\* is taken for the end of the chain.
create_chain(d, c) ==
  After(IF c = 0 THEN [d |-> d, v |-> EOC] ELSE get_fat(d, c), LAMBDA g :
    CASE g.v \in {0, 1} -> [d |-> g.d, v |-> 1]
      [] g.v \in 2 .. NFatEnt - 1 -> g
      [] OTHER -> Allocate(g.d, c, CASE c # 0 -> c
                                     [] c = 0 /\ (d.last_clust = 0 \/ d.last_clust >= NFatEnt) -> 1
                                     [] OTHER -> d.last_clust))

-----------------------------------------------------------------------------
(* Directories.  A DIR is [sclust, clust, sect, index, fn, null]; its entry is *)
(* cell index % SS of the window.                                             *)

IC == SS * CSize                         \* entries of a cluster
At(j) == j.index % SS
Here(d, j) == d.win[At(j)]

\* The cluster that holds entry idx of the chain from c.
RECURSIVE Walk(_, _, _)
Walk(d, c, idx) ==
  IF idx < IC THEN [d |-> d, c |-> c, i |-> idx, r |-> "OK"]
  ELSE After(get_fat(d, c), LAMBDA g :
         CASE g.v = ERR -> [d |-> g.d, c |-> c, i |-> idx, r |-> "DISK_ERR"]
           [] g.v # ERR /\ (g.v < 2 \/ g.v >= NFatEnt) -> [d |-> g.d, c |-> c, i |-> idx, r |-> "INT_ERR"]
           [] OTHER -> Walk(g.d, g.v, idx - IC))

dir_sdi(d, j0, idx) ==
  LET j == [j0 EXCEPT !.index = idx, !.null = FALSE]
      c == IF j.sclust = 0 THEN RootClust(d) ELSE j.sclust
  IN  CASE j.sclust = 1 \/ j.sclust >= NFatEnt -> [d |-> d, j |-> j, r |-> "INT_ERR"]
        [] c = 0 -> IF idx >= NRootDir THEN [d |-> d, j |-> j, r |-> "INT_ERR"]
                    ELSE [d |-> d, j |-> [j EXCEPT !.clust = 0, !.sect = DirBase + idx \div SS], r |-> "OK"]
        [] OTHER -> After(Walk(d, c, idx), LAMBDA w :
                      [d |-> w.d, r |-> w.r,
                       j |-> [j EXCEPT !.clust = w.c, !.sect = clust2sect(w.c) + w.i \div SS]])

\* The window cleared and written over each sector of cluster c, n to go.
RECURSIVE Clear(_, _, _)
Clear(d, s, n) ==
  IF n = 0 THEN [d |-> d, ok |-> TRUE]
  ELSE After(move_window([d EXCEPT !.winsect = s, !.wflag = TRUE], 0), LAMBDA w :
         IF w.ok THEN Clear([w.d EXCEPT !.win = Blank], s + 1, n - 1) ELSE w)

\* Mutant: a new cluster of a directory keeps its old contents.
Stretch_dirty(d, c) == create_chain(d, c)

\* A directory grows by a cleared cluster.
Stretch(d, c) ==
  After(create_chain(d, c), LAMBDA n :
    IF n.v < 2 THEN n
    ELSE After(move_window(n.d, 0), LAMBDA m :
         IF ~m.ok THEN [d |-> m.d, v |-> ERR]
         ELSE After(Clear([m.d EXCEPT !.win = Blank], clust2sect(n.v), CSize), LAMBDA z :
              IF ~z.ok THEN [d |-> z.d, v |-> ERR]
              ELSE [d |-> [z.d EXCEPT !.winsect = clust2sect(n.v)], v |-> n.v])))

\* The next entry is the first of cluster g.v, if that is one: zero is what 0 means.
Enter(g, j, zero) ==
  IF g.v \in 2 .. NFatEnt - 1
  THEN [d |-> g.d, r |-> "OK", j |-> [j EXCEPT !.index = @ + 1, !.clust = g.v, !.sect = clust2sect(g.v)]]
  ELSE [d |-> g.d, j |-> j, r |-> CASE g.v = ERR -> "DISK_ERR" [] g.v = 0 -> zero [] g.v = 1 -> "INT_ERR"
                                    [] OTHER -> "END"]

\* The entry after j; "END" behind the last cluster, where it depends on the
\* argument stretch: NoMore without, Stretched with it.
dir_next(d, j) ==
  LET i == j.index + 1
      Same(k) == [d |-> d, j |-> [j EXCEPT !.index = i, !.sect = @ + k], r |-> "OK"]
  IN  CASE j.sect = 0 -> [d |-> d, j |-> j, r |-> "NO_FILE"]
        [] j.sect # 0 /\ i % SS # 0 -> Same(0)
        [] j.sect # 0 /\ i % SS = 0 /\ j.clust = 0 ->
             IF i >= NRootDir THEN [d |-> d, j |-> j, r |-> "NO_FILE"] ELSE Same(1)
        [] j.sect # 0 /\ i % SS = 0 /\ j.clust # 0 /\ (i \div SS) % CSize # 0 -> Same(1)
        [] OTHER -> Enter(get_fat(d, j.clust), j, "INT_ERR")

NoMore(x) == IF x.r = "END" THEN [x EXCEPT !.r = "NO_FILE"] ELSE x
Stretched(x) == Enter(Stretch(x.d, x.j.clust), x.j, "DENIED")

\* The entries each search stops at: the name looked for, the next to list, a free one.
Stops(what, e, fn) == CASE what = "find" -> e.name = fn /\ "VOL" \notin e.attr
                        [] what = "read" -> e.name # DDE /\ "VOL" \notin e.attr
                        [] what = "free" -> e.name = DDE

\* From where j is on: the first entry the search stops at.  An entry never used
\* (name 0) ends it, and is a free one.
RECURSIVE Scan(_, _, _)
Scan(d, j, what) ==
  After(move_window(d, j.sect), LAMBDA w :
    CASE ~w.ok -> [d |-> w.d, j |-> j, r |-> "DISK_ERR"]
      [] w.ok /\ Here(w.d, j).name = 0 -> [d |-> w.d, j |-> j, r |-> IF what = "free" THEN "OK" ELSE "NO_FILE"]
      [] w.ok /\ Here(w.d, j).name # 0 /\ Stops(what, Here(w.d, j), j.fn) -> [d |-> w.d, j |-> j, r |-> "OK"]
      [] OTHER -> After(dir_next(w.d, j), LAMBDA n : IF n.r = "OK" THEN Scan(n.d, n.j, what) ELSE n))

dir_find(d, j0) == After(dir_sdi(d, j0, 0), LAMBDA s : IF s.r # "OK" THEN s ELSE NoMore(Scan(s.d, s.j, "find")))

\* The entry at j or after it, for listings; sect = 0 marks the end.
dir_read(d, j) ==
  IF j.sect = 0 THEN [d |-> d, j |-> j, r |-> "NO_FILE"]
  ELSE After(NoMore(Scan(d, j, "read")), LAMBDA s : IF s.r = "OK" THEN s ELSE [s EXCEPT !.j.sect = 0])

\* The first free entry, in a stretched directory if need be.
FreeEntry(d, j) ==
  After(Scan(d, j, "free"), LAMBDA x :
    IF x.r # "END" THEN x
    ELSE After(Stretched(x), LAMBDA y : IF y.r = "OK" THEN Scan(y.d, y.j, "free") ELSE y))

\* A free entry gets the name.
dir_register(d, j0) ==
  After(dir_sdi(d, j0, 0), LAMBDA s :
    IF s.r # "OK" THEN s
    ELSE After(FreeEntry(s.d, s.j), LAMBDA f :
         IF f.r # "OK" THEN f
         ELSE After(move_window(f.d, f.j.sect), LAMBDA w :
              IF ~w.ok THEN [d |-> w.d, j |-> f.j, r |-> "DISK_ERR"]
              ELSE [d |-> Store(w, At(f.j), Cell(j0.fn, {}, 0, 0)), j |-> f.j, r |-> "OK"])))

dir_remove(d, j0) ==
  After(dir_sdi(d, j0, j0.index), LAMBDA s :
    IF s.r # "OK" THEN s
    ELSE After(move_window(s.d, s.j.sect), LAMBDA w :
         IF ~w.ok THEN [d |-> w.d, j |-> s.j, r |-> "DISK_ERR"]
         ELSE [d |-> Store(w, At(s.j), [Here(w.d, s.j) EXCEPT !.name = DDE]), j |-> s.j, r |-> "OK"]))

\* A path is [abs, names]; a name is a number, DOT, DOTDOT or Bad.  In the root,
\* which has no entries for DOT and DOTDOT, both mean the root.
Bad == -9
RECURSIVE Follow(_, _, _)
Follow(d, j0, names) ==
  LET j == [j0 EXCEPT !.fn = Head(names)]
      dot == Head(names) \in {DOT, DOTDOT}
      final == Len(names) = 1
  IN  IF Head(names) = Bad THEN [d |-> d, j |-> j, r |-> "INVALID_NAME"]
      ELSE After(dir_find(d, j), LAMBDA f :
             CASE f.r = "NO_FILE" /\ dot ->
                    LET k == [f.j EXCEPT !.sclust = 0, !.null = TRUE]
                    IN  IF final THEN [d |-> f.d, j |-> k, r |-> "OK"] ELSE Follow(f.d, k, Tail(names))
               [] f.r = "NO_FILE" /\ ~dot /\ ~final -> [f EXCEPT !.r = "NO_PATH"]
               [] f.r = "OK" /\ ~final ->
                    IF "DIR" \notin Here(f.d, f.j).attr THEN [f EXCEPT !.r = "NO_PATH"]
                    ELSE Follow(f.d, [f.j EXCEPT !.sclust = Here(f.d, f.j).clust], Tail(names))
               [] OTHER -> f)

NoDir == [sclust |-> 0, clust |-> 0, sect |-> 0, index |-> 0, fn |-> 0, null |-> FALSE]

follow_path(d, path) ==
  LET j == [NoDir EXCEPT !.sclust = IF path.abs THEN 0 ELSE d.cdir]
  IN  IF path.names = <<>> THEN [dir_sdi(d, j, 0) EXCEPT !.j.null = TRUE] ELSE Follow(d, j, path.names)
=============================================================================
