-------------------------------- MODULE FatFs --------------------------------
(***************************************************************************)
(* A program that uses FatFs on a card that may fail.  Each call is one    *)
(* step: FatFs is built without locks and LEDOS calls it from one thread.  *)
(* What comes in between are faults of the card: a write that fails once,  *)
(* or a card that stops answering in the middle of a call, is put back and *)
(* is mounted again by the next call.                                      *)
(*                                                                         *)
(* The program does not open a file twice and does not unlink, rename or   *)
(* empty an open one: without _FS_SHARE FatFs leaves that to its caller.   *)
(* Nor does it move a directory below itself, which f_rename would do.     *)
(***************************************************************************)
EXTENDS FatFile

CONSTANTS Handle,     \* file objects
          MaxCalls,   \* bound on the calls of one behaviour
          MaxMounts,  \* bound on the mounts
          Volume(_),  \* the volume of each type a behaviour starts with
          Programs    \* records [type, ops, paths, dirs, modes, sizes, fault, left]: the
                      \* volume, the calls and arguments and the fault of a behaviour

VARIABLES d,          \* the volume and its FATFS
          fil,        \* file objects
          dj,         \* a directory object
          last,       \* the last call: [op, r, out, loc]
          n, prog

vars == <<d, fil, dj, last, n, prog>>

NoCall == [op |-> "none", r |-> "OK", out |-> 0, loc |-> {}]

Init == /\ prog \in Programs /\ d = [Volume(prog.type) EXCEPT !.fault = prog.fault, !.left = prog.left] /\ n = 0 /\ last = NoCall
        /\ fil = [h \in Handle |-> Closed] /\ dj = [NoDir EXCEPT !.null = TRUE]

-----------------------------------------------------------------------------
(* What the volume holds, seen through the window.                         *)

Cur(v, s) == IF v.winsect = s THEN v.win ELSE v.disk[s]

FatVal(v, c) == IF v.fs_type = "FAT12"
                THEN Fat12Value(c, Cur(v, Sec(Byte(c)))[Byte(c) % FSS], Cur(v, Sec(Byte(c) + 1))[(Byte(c) + 1) % FSS])
                ELSE Cur(v, Sec(c))[c % FSS]

RECURSIVE ChainFrom(_, _, _)
ChainFrom(v, c, fuel) == IF c < 2 \/ c >= NFatEnt \/ fuel = 0 THEN <<>>
                         ELSE <<c>> \o ChainFrom(v, FatVal(v, c), fuel - 1)
Chain(v, c) == ChainFrom(v, c, NFatEnt)

SectorsOf(v, c) == LET ch == Chain(v, c)
                   IN  [i \in 1 .. Len(ch) * CSize |-> clust2sect(ch[(i - 1) \div CSize + 1]) + ((i - 1) % CSize)]
DirSectors(v, c) == IF c = 0 /\ v.fs_type # "FAT32" THEN [i \in 1 .. NRootDir \div SS |-> DirBase + i - 1]
                    ELSE SectorsOf(v, IF c = 0 THEN RootClust(v) ELSE c)
Cells(v, secs) == [i \in 1 .. Len(secs) * SS |->
                     [sect |-> secs[(i - 1) \div SS + 1], i |-> (i - 1) % SS,
                      e |-> Cur(v, secs[(i - 1) \div SS + 1])[(i - 1) % SS]]]
Live(v, c) == LET cs == Cells(v, DirSectors(v, c))
                  k == SelectInSeq(cs, LAMBDA x : x.e.name = 0)
              IN  {x \in Range(IF k = 0 THEN cs ELSE SubSeq(cs, 1, k - 1)) : x.e.name \notin {DDE, DOT, DOTDOT}}

\* All entries of the volume but the dot entries, to a depth.
RECURSIVE TreeFrom(_, _, _)
TreeFrom(v, c, depth) ==
  LET l == Live(v, c)
  IN  l \cup UNION {TreeFrom(v, x.e.clust, depth - 1) : x \in {y \in l : depth > 0 /\ "DIR" \in y.e.attr}}

Valid(v, f) == f.open /\ v.mounted /\ f.id = v.id

\* The files, each as its open file object knows it or else as its entry says.
Files(v, fl) ==
  {LET hs == {h \in Handle : Valid(v, fl[h]) /\ fl[h].dir_sect = x.sect /\ fl[h].dir_ptr = x.i}
       f == fl[CHOOSE h \in hs : TRUE]
   IN  [loc |-> <<x.sect, x.i>>, name |-> x.e.name, attr |-> x.e.attr \ {"ARC"},
        clust |-> IF hs = {} THEN x.e.clust ELSE f.sclust, size |-> IF hs = {} THEN x.e.size ELSE f.fsize]
   : x \in TreeFrom(v, 0, 3)}

\* The contents of a file.
View(v, clust, size) == LET cs == Cells(v, SectorsOf(v, clust))
                        IN  [i \in 1 .. Lesser(size, Len(cs)) |-> cs[i].e]
Seen(v, x) == IF "DIR" \in x.attr THEN <<>> ELSE View(v, x.clust, x.size)

LocOf(v, path) == After(Find(v, path), LAMBDA p : IF p.r = "OK" /\ ~p.j.null THEN {<<p.d.winsect, At(p.j)>>} ELSE {})
LocH(h) == {<<fil[h].dir_sect, fil[h].dir_ptr>>}
Busy(loc) == \E h \in Handle : Valid(d, fil[h]) /\ LocH(h) = loc

-----------------------------------------------------------------------------
(* Calls.                                                                  *)

Call(op) == op \in prog.ops /\ n < MaxCalls /\ n' = n + 1 /\ UNCHANGED prog
Ans(op, r, out, loc) == last' = [op |-> op, r |-> r, out |-> out, loc |-> loc]

Open(h, path, mode) ==
  /\ Call("open") /\ ~Valid(d, fil[h])
  /\ \E loc \in {LocOf(d, path)}, x \in {f_open(d, path, mode)} :
       /\ ~Busy(loc)
       /\ d' = x.d /\ fil' = [fil EXCEPT ![h] = x.f] /\ Ans("open", x.r, 0, loc)
  /\ UNCHANGED dj

OnFile(op, h, x, out) == /\ d' = x.d /\ fil' = [fil EXCEPT ![h] = x.f]
                         /\ Ans(op, x.r, out, LocH(h)) /\ UNCHANGED dj

Read(h, k) == Call("read") /\ fil[h].open /\ \E x \in {f_read(d, fil[h], k)} : OnFile("read", h, x, x.out)
Data(k, v) == [i \in 1 .. k |-> Cell(10 + v, {"data"}, 0, 0)]
Write(h, k) == Call("write") /\ fil[h].open
               /\ \E x \in {f_write(d, fil[h], Data(k, n + 1))} : OnFile("write", h, x, x.out)
Sync(h) == Call("sync") /\ fil[h].open /\ OnFile("sync", h, f_sync(d, fil[h]), 0)
Close(h) == Call("close") /\ fil[h].open /\ OnFile("close", h, f_close(d, fil[h]), 0)
Seek(h, ofs) == Call("seek") /\ fil[h].open /\ OnFile("seek", h, f_lseek(d, fil[h], ofs), 0)
Truncate(h) == Call("truncate") /\ fil[h].open /\ OnFile("truncate", h, f_truncate(d, fil[h]), 0)

OnPath(op, x, loc) == /\ d' = x.d /\ Ans(op, x.r, 0, loc) /\ UNCHANGED <<fil, dj>>

Unlink(path) == Call("unlink") /\ \E loc \in {LocOf(d, path)} : ~Busy(loc) /\ OnPath("unlink", f_unlink(d, path), loc)
Mkdir(path) == Call("mkdir") /\ OnPath("mkdir", f_mkdir(d, path), {})
Chmod(path, rdo) == Call("chmod") /\ OnPath("chmod", f_chmod(d, path, rdo), LocOf(d, path))
\* Whether new lies in the directory old or below it.
Below(v, old, new) ==
  After(Find(v, old), LAMBDA p :
  After(Here(p.d, p.j), LAMBDA e :
    /\ p.r = "OK" /\ ~p.j.null /\ "DIR" \in e.attr
    /\ follow_path(p.d, new).j.sclust \in {e.clust} \cup {x.e.clust : x \in {y \in TreeFrom(v, e.clust, 3) : "DIR" \in y.e.attr}}))

Rename(old, new) == /\ Call("rename") /\ ~Below(d, old, new)
                    /\ \E loc \in {LocOf(d, old)} : ~Busy(loc) /\ OnPath("rename", f_rename(d, old, new), loc)
Chdir(path) == Call("chdir") /\ OnPath("chdir", f_chdir(d, path), {})
Getcwd == Call("getcwd") /\ \E x \in {f_getcwd(d)} : d' = x.d /\ Ans("getcwd", x.r, x.names, {}) /\ UNCHANGED <<fil, dj>>
Getfree == Call("getfree") /\ \E x \in {f_getfree(d)} : d' = x.d /\ Ans("getfree", x.r, x.out, {}) /\ UNCHANGED <<fil, dj>>
Stat(path) == Call("stat") /\ OnPath("stat", f_stat(d, path), {})
Opendir(path) == /\ Call("opendir")
                 /\ \E x \in {f_opendir(d, path)} :
                      d' = x.d /\ dj' = [x.j EXCEPT !.null = x.r # "OK", !.fn = x.d.id] /\ Ans("opendir", x.r, 0, {})
                 /\ UNCHANGED fil
Readdir == /\ Call("opendir") /\ ~dj.null
           /\ \E r \in {validate(d, [Closed EXCEPT !.open = TRUE, !.id = dj.fn])} :
                \/ r = "OK" /\ \E x \in {f_readdir(d, dj)} :
                     d' = x.d /\ dj' = [x.j EXCEPT !.null = x.r # "OK", !.fn = dj.fn] /\ Ans("readdir", x.r, x.out, {})
                \/ r # "OK" /\ d' = Gone(d) /\ UNCHANGED dj /\ Ans("readdir", r, 0, {})
           /\ UNCHANGED fil

\* A card that is gone is put back.
Reinsert == /\ ~Up(d) /\ d.id < MaxMounts
            /\ d' = [d EXCEPT !.fault = "none", !.ready = FALSE]
            /\ last' = NoCall /\ UNCHANGED <<fil, dj, n, prog>>

Next == \/ \E h \in Handle : \/ \E path \in prog.paths, mode \in prog.modes : Open(h, path, mode)
                             \/ \E k \in prog.sizes : Read(h, k) \/ Write(h, k) \/ Seek(h, k - 1)
                             \/ Sync(h) \/ Close(h) \/ Truncate(h)
        \/ \E path \in prog.paths : \/ Unlink(path) \/ Mkdir(path) \/ Stat(path)
                                    \/ Chmod(path, {}) \/ Chmod(path, {"RDO"})
                                    \/ \E new \in prog.paths : Rename(path, new)
        \/ \E path \in prog.dirs : Chdir(path) \/ Opendir(path)
        \/ Getcwd \/ Getfree \/ Readdir \/ Reinsert

Spec == Init /\ [][Next]_vars

-----------------------------------------------------------------------------
(* Properties.                                                             *)

Faultless == prog.fault = "none"
Now == Files(d, fil)
Clusters(x) == Range(Chain(d, x.clust))

ChainOK(x) == LET ch == Chain(d, x.clust)
              IN  IF x.clust \in {0, 1, ERR} THEN x.size = 0 /\ "DIR" \notin x.attr
                  ELSE /\ ch # <<>> /\ FatVal(d, Last(ch)) >= NFatEnt
                       /\ IsInjective(ch) /\ x.size <= Len(ch) * BCS

\* Every file and directory has a chain of its own that ends, holds no free
\* cluster and is long enough for its size: create_chain, remove_chain and the
\* order in which f_write, f_open, f_unlink and f_mkdir change FAT and directory
\* keep it so, whichever write fails or is the last one before the card is gone.
\* Truncated and renamed files are safe only while no write fails; an empty file
\* whose first cluster could not be had may keep the error code as its start.
VolumeSound ==
  (d.mounted /\ Up(d) /\ (Faultless \/ prog.ops \cap {"truncate", "rename"} = {})) =>
    /\ \A x \in Now : ChainOK(x)
    /\ \A x, y \in Now : x.loc # y.loc => Clusters(x) \cap Clusters(y) = {}

RootChain == Range(Chain(d, RootClust(d)))

\* No cluster is lost: without faults exactly the clusters of files, directories
\* and the FAT32 root are marked used, and the count kept of the others is right.
NoLostClusters ==
  Faultless => LET used == {c \in 2 .. NFatEnt - 1 : FatVal(d, c) # 0}
               IN  /\ used = RootChain \cup UNION {Clusters(x) : x \in Now}
                   /\ d.free_clust # ERR => d.free_clust = NFatEnt - 2 - Cardinality(used)

\* The second FAT is written with the first.
CopiesAgree == (Faultless /\ NFats = 2) => \A s \in FatBase .. FatBase + FSize - 1 : d.disk[s] = d.disk[s + FSize]

\* f_getcwd finds the names that lead back to the current directory, also after
\* it was moved.
CwdLeadsBack ==
  (last.op = "getcwd" /\ Faultless) =>
    last.r = "OK" /\ f_chdir(d, [abs |-> TRUE, names |-> last.out]).d.cdir = d.cdir

\* f_read returns what the file holds, whether it comes from the window or past it.
ReadExact ==
  \A h \in Handle : (Valid(d, fil[h]) /\ last'.op = "read" /\ last'.r = "OK" /\ last'.loc = LocH(h)) =>
    last'.out = SubSeq(View(d, fil[h].sclust, fil[h].fsize), fil[h].fptr + 1, fil'[h].fptr)

Over(old, at, new) == [i \in 1 .. (IF at + Len(new) > Len(old) THEN at + Len(new) ELSE Len(old)) |->
                         IF i > at /\ i <= at + Len(new) THEN new[i - at] ELSE old[i]]

\* f_write changes the file at fptr by the units it says it wrote, and nothing
\* else of it.
WriteExact ==
  \A h \in Handle : (Valid(d, fil[h]) /\ last'.op = "write" /\ last'.r = "OK" /\ last'.loc = LocH(h)) =>
    View(d', fil'[h].sclust, fil'[h].fsize) =
      Over(View(d, fil[h].sclust, fil[h].fsize), fil[h].fptr, Data(last'.out, n'))

\* A call leaves every other file as it was: name, attributes and contents, seen
\* through the one window all files share.  At most one entry appears.
OthersUntouched ==
  [][(d'.id = d.id /\ d.mounted /\ d'.mounted /\ (Faultless \/ prog.ops \cap {"truncate", "rename"} = {})) =>
       LET new == Files(d', fil')
       IN  /\ \A x \in Now : x.loc \notin last'.loc =>
                \E y \in new : y.loc = x.loc /\ y.name = x.name /\ y.attr = x.attr /\ Seen(d', y) = Seen(d, x)
           /\ Cardinality({y.loc : y \in new} \ {x.loc : x \in Now}) <= 1]_vars

\* Once f_close has stored the entry and says OK, the file is on the disk as the
\* program saw it, whatever becomes of the window.
CloseDurable ==
  \A h \in Handle : (Valid(d, fil[h]) /\ last'.op \in {"close", "sync"} /\ last'.r = "OK" /\ last'.loc = LocH(h) /\ "WRITTEN" \in fil[h].flag) =>
    \E x \in Files([d' EXCEPT !.winsect = 0], [g \in Handle |-> Closed]) :
      /\ x.loc \in LocH(h)
      /\ Seen([d' EXCEPT !.winsect = 0], x) = View(d, fil[h].sclust, fil[h].fsize)

\* f_readdir returns the next entry that is not deleted, skipping none.
ReaddirNext ==
  (last'.op = "readdir" /\ last'.r = "OK") =>
    LET cs == Cells(d, DirSectors(d, dj.sclust))
        stop == SelectInSeq(cs, LAMBDA x : x.e.name = 0)
        k == SelectInSubSeq(cs, dj.index + 1, IF stop = 0 THEN Len(cs) ELSE stop - 1, LAMBDA x : x.e.name # DDE)
    IN  dj.sect # 0 => last'.out = IF k = 0 THEN 0 ELSE cs[k].e.name

\* The volume is sound: chains end and are disjoint whatever write fails; without
\* a failure no cluster is lost, the copies of the FAT agree and the current
\* directory is found again (create_chain, remove_chain, put_fat, f_getcwd).
VolumeInv == VolumeSound /\ NoLostClusters /\ CopiesAgree /\ CwdLeadsBack

\* Each call does what it returned: reads and writes are exact, a closed file is
\* on the disk, a listing skips nothing (f_read, f_write, f_close, f_readdir).
CallsExact == [][ReadExact /\ WriteExact /\ CloseDurable /\ ReaddirNext]_vars
=============================================================================
