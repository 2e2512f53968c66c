------------------------------- MODULE FatFile -------------------------------
(***************************************************************************)
(* The functions of FatFs a program calls (fatfs/ff.c), over FatDisk: each  *)
(* operator takes the volume, a file object f (FIL) or directory object j   *)
(* (DIR) and the arguments, and returns what the call leaves behind, its    *)
(* result r and what it answers in out.                                     *)
(***************************************************************************)
EXTENDS FatDisk

Closed == [open |-> FALSE, id |-> 0, flag |-> {}, fptr |-> 0, fsize |-> 0, sclust |-> 0,
           clust |-> 0, dsect |-> 0, dir_sect |-> 0, dir_ptr |-> 0]

\* chk_mounted after the boot sector was accepted.
Mount(v) == [v EXCEPT !.mounted = TRUE, !.ready = TRUE, !.id = @ + 1, !.winsect = 0, !.wflag = FALSE,
                      !.win = Blank, !.cdir = 0, !.fsi_flag = FALSE,
                      !.free_clust = IF v.fs_type = "FAT32" THEN v.disk[FsiSector][1] ELSE ERR,
                      !.last_clust = IF v.fs_type = "FAT32" THEN v.disk[FsiSector][2] ELSE 0]

\* The card is asked for its state; one that lost its own is set up again and the
\* volume mounted anew.
chk_mounted(v) == IF v.mounted /\ v.ready /\ Up(v) THEN [d |-> v, r |-> "OK"]
                  ELSE IF ~Up(v) THEN [d |-> [v EXCEPT !.mounted = FALSE, !.ready = FALSE], r |-> "NOT_READY"]
                  ELSE [d |-> Mount(v), r |-> "OK"]

validate(v, f) == CASE ~f.open \/ ~v.mounted \/ f.id # v.id -> "INVALID_OBJECT"
                    [] ~v.ready \/ ~Up(v) -> "NOT_READY"
                    [] OTHER -> "OK"

Gone(v) == IF Up(v) THEN v ELSE [v EXCEPT !.ready = FALSE]

-----------------------------------------------------------------------------
(* Paths.                                                                  *)

\* chk_mounted and follow_path, the start of every call with a path.
Find(v, path) == After(chk_mounted(v), LAMBDA m :
                   IF m.r # "OK" THEN [d |-> m.d, j |-> NoDir, r |-> m.r] ELSE follow_path(m.d, path))

Dotted(p) == p.r = "OK" /\ p.j.fn \in {DOT, DOTDOT}

\* Find, for the calls that refuse a path that ends in a dot name and need an entry.
FindEntry(v, path) == After(Find(v, path), LAMBDA p :
                        IF Dotted(p) \/ (p.r = "OK" /\ p.j.null) THEN [p EXCEPT !.r = "INVALID_NAME"] ELSE p)

\* f_stat takes a dot name as well; it refuses only the root, which has no entry.
f_stat(v, path) == After(Find(v, path), LAMBDA p :
                     IF p.r = "OK" /\ p.j.null THEN [p EXCEPT !.r = "INVALID_NAME"] ELSE p)

f_chdir(v, path) ==
  After(Find(v, path), LAMBDA p :
    CASE p.r = "NO_FILE" -> [p EXCEPT !.r = "NO_PATH"]
      [] p.r = "OK" /\ p.j.null -> [p EXCEPT !.d.cdir = p.j.sclust]
      [] p.r = "OK" /\ ~p.j.null -> IF "DIR" \in Here(p.d, p.j).attr THEN [p EXCEPT !.d.cdir = Here(p.d, p.j).clust]
                                    ELSE [p EXCEPT !.r = "NO_PATH"]
      [] OTHER -> p)

\* The entry of the parent directory at j that leads to cluster c.
RECURSIVE Leads(_, _, _)
Leads(v, j, c) ==
  After(dir_read(v, j), LAMBDA s :
    IF s.r # "OK" \/ Here(s.d, s.j).clust = c THEN s
    ELSE After(NoMore(dir_next(s.d, s.j)), LAMBDA x : IF x.r # "OK" THEN x ELSE Leads(x.d, x.j, c)))

\* Upwards from directory c through its DOTDOT entry: the names, root first.
RECURSIVE Upwards(_, _, _)
Upwards(v, c, names) ==
  LET Failed(x, r) == [d |-> x.d, r |-> r, names |-> <<>>]
  IN  IF c = 0 THEN [d |-> v, r |-> "OK", names |-> names]
      ELSE After(dir_sdi(v, [NoDir EXCEPT !.sclust = c], 1), LAMBDA a :
           IF a.r # "OK" THEN Failed(a, a.r)
           ELSE After(dir_read(a.d, a.j), LAMBDA b :
           IF b.r # "OK" THEN Failed(b, b.r)
           ELSE After(Here(b.d, b.j).clust, LAMBDA up :
                After(dir_sdi(b.d, [b.j EXCEPT !.sclust = up], 0), LAMBDA s :
           IF s.r # "OK" THEN Failed(s, s.r)
           ELSE After(Leads(s.d, s.j, c), LAMBDA e :
           IF e.r # "OK" THEN Failed(e, IF e.r = "NO_FILE" THEN "INT_ERR" ELSE e.r)
           ELSE Upwards(e.d, up, <<Here(e.d, e.j).name>> \o names))))))

f_getcwd(v) == After(chk_mounted(v), LAMBDA m :
                 IF m.r = "OK" THEN Upwards(m.d, m.d.cdir, <<>>) ELSE [d |-> m.d, r |-> m.r, names |-> <<>>])

f_opendir(v, path) ==
  After(Find(v, path), LAMBDA p :
    CASE p.r = "NO_FILE" -> [p EXCEPT !.r = "NO_PATH"]
      [] p.r = "OK" /\ ~p.j.null /\ "DIR" \notin Here(p.d, p.j).attr -> [p EXCEPT !.r = "NO_PATH"]
      [] p.r \notin {"OK", "NO_FILE"} -> p
      [] OTHER -> After(dir_sdi(p.d, IF p.j.null THEN p.j ELSE [p.j EXCEPT !.sclust = Here(p.d, p.j).clust], 0),
                        LAMBDA s : [s EXCEPT !.r = IF @ = "NO_FILE" THEN "NO_PATH" ELSE @]))

\* One entry; an empty name at the end.
f_readdir(v, j) ==
  After(dir_read(v, j), LAMBDA s :
    CASE s.r = "NO_FILE" -> [d |-> s.d, j |-> [s.j EXCEPT !.sect = 0], r |-> "OK", out |-> 0]
      [] s.r = "OK" -> After(NoMore(dir_next(s.d, s.j)), LAMBDA x :
                         [d |-> x.d, r |-> IF x.r = "NO_FILE" THEN "OK" ELSE x.r,
                          j |-> IF x.r = "NO_FILE" THEN [x.j EXCEPT !.sect = 0] ELSE x.j,
                          out |-> Here(s.d, s.j).name])
      [] OTHER -> [d |-> s.d, j |-> s.j, r |-> s.r, out |-> 0])

\* Free clusters: the count kept, or all entries of the table looked at.  FAT12 is
\* asked cluster by cluster, the others are walked sector by sector from entry 0.
RECURSIVE CountSectors(_, _, _)
CountSectors(v, c, k) ==
  IF c = NFatEnt THEN [d |-> v, r |-> "OK", out |-> k]
  ELSE After(IF c % FSS = 0 THEN move_window(v, Sec(c)) ELSE [d |-> v, ok |-> TRUE], LAMBDA w :
         IF ~w.ok THEN [d |-> w.d, r |-> "DISK_ERR", out |-> k]
         ELSE CountSectors(w.d, c + 1, IF w.d.win[c % FSS] = 0 THEN k + 1 ELSE k))

RECURSIVE CountFree(_, _, _)
CountFree(v, c, k) ==
  IF c = NFatEnt THEN [d |-> v, r |-> "OK", out |-> k]
  ELSE After(get_fat(v, c), LAMBDA g :
         CASE g.v = ERR -> [d |-> g.d, r |-> "DISK_ERR", out |-> k]
           [] g.v = 1 -> [d |-> g.d, r |-> "INT_ERR", out |-> k]
           [] OTHER -> CountFree(g.d, c + 1, IF g.v = 0 THEN k + 1 ELSE k))

\* A count that failed half way is kept as well.
f_getfree(v) ==
  After(chk_mounted(v), LAMBDA m :
    CASE m.r # "OK" -> [d |-> m.d, r |-> m.r, out |-> 0]
      [] m.r = "OK" /\ m.d.free_clust \in 0 .. NFatEnt - 2 -> [d |-> m.d, r |-> "OK", out |-> m.d.free_clust]
      [] OTHER -> After(IF m.d.fs_type = "FAT12" THEN CountFree(m.d, 2, 0) ELSE CountSectors(m.d, 0, 0), LAMBDA c :
                    [c EXCEPT !.d.free_clust = c.out, !.d.fsi_flag = m.d.fs_type = "FAT32"]))

-----------------------------------------------------------------------------
(* Files.  mode is a subset of {"R", "W", "NEW", "ALWAYS", "OPEN"}.        *)

\* The existing file at p is emptied: entry first, then its chain.
Empty(p) ==
  After(Here(p.d, p.j), LAMBDA e :
  After(Store(p, At(p.j), [e EXCEPT !.attr = {}, !.size = 0, !.clust = 0]), LAMBDA z :
    IF e.clust = 0 THEN [p EXCEPT !.d = z]
    ELSE After(remove_chain(z, e.clust), LAMBDA c :
         IF c.r # "OK" THEN [p EXCEPT !.d = c.d, !.r = c.r]
         ELSE After(move_window([c.d EXCEPT !.last_clust = e.clust - 1], p.d.winsect), LAMBDA w :
              [p EXCEPT !.d = w.d, !.r = IF w.ok THEN "OK" ELSE "DISK_ERR"]))))

\* What f_open makes of the entry found at p.
Admit(p, mode) ==
  LET create == mode \cap {"NEW", "ALWAYS", "OPEN"} # {}
      attr == Here(p.d, p.j).attr
      Refuse(r) == [p EXCEPT !.r = r]
  IN  CASE create /\ p.r = "NO_FILE" -> After(dir_register(p.d, p.j), LAMBDA new : IF new.r = "OK" THEN Empty(new) ELSE new)
        [] create /\ p.r = "OK" /\ attr \cap {"RDO", "DIR"} # {} -> Refuse("DENIED")
        [] create /\ p.r = "OK" /\ attr \cap {"RDO", "DIR"} = {} /\ "NEW" \in mode -> Refuse("EXIST")
        [] create /\ p.r = "OK" /\ attr \cap {"RDO", "DIR"} = {} /\ "NEW" \notin mode /\ "ALWAYS" \in mode -> Empty(p)
        [] ~create /\ p.r = "OK" /\ "DIR" \in attr -> Refuse("NO_FILE")
        [] ~create /\ p.r = "OK" /\ "DIR" \notin attr /\ "W" \in mode /\ "RDO" \in attr -> Refuse("DENIED")
        [] OTHER -> p

f_open(v, path, mode) ==
  After(Find(v, path), LAMBDA p0 :
  After(IF p0.r = "OK" /\ p0.j.null THEN [p0 EXCEPT !.r = "INVALID_NAME"] ELSE p0, LAMBDA p :
  After(Admit(p, mode), LAMBDA q :
  After(Here(q.d, q.j), LAMBDA x :
    [d |-> q.d, r |-> q.r,
     f |-> IF q.r # "OK" THEN Closed
           ELSE [Closed EXCEPT !.open = TRUE, !.id = q.d.id, !.fsize = x.size, !.sclust = x.clust,
                               !.dir_sect = q.d.winsect, !.dir_ptr = At(q.j),
                               !.flag = (mode \cap {"R", "W"}) \cup
                                        (IF "ALWAYS" \in mode \/ (p.r # "OK" /\ mode \cap {"NEW", "OPEN"} # {})
                                         THEN {"WRITTEN"} ELSE {})]]))))

Abort(v, f, r) == [d |-> v, f |-> [f EXCEPT !.flag = @ \cup {"ERROR"}], r |-> r, k |-> 0]

Csect(f) == (f.fptr \div SS) % CSize
Lesser(a, b) == IF a < b THEN a ELSE b

\* The sectors s .. s + cc - 1 as the disk has them, under a dirty window.
Sectors(v, s, cc) ==
  [i \in 1 .. cc * SS |-> LET t == s + (i - 1) \div SS
                          IN  (IF v.wflag /\ v.winsect = t THEN v.win ELSE v.disk[t])[(i - 1) % SS]]

\* One round of the loop of f_read: k units, in out.
ReadRound(v, f, btr) ==
  LET first == f.fptr % SS = 0 /\ Csect(f) = 0
      cc == IF f.fptr % SS = 0 THEN Lesser(btr \div SS, CSize - Csect(f)) ELSE 0
      k == Lesser(SS - (f.fptr % SS), btr)
  IN  After(IF ~first THEN [d |-> v, v |-> f.clust]
            ELSE IF f.fptr = 0 THEN [d |-> v, v |-> f.sclust] ELSE get_fat(v, f.clust), LAMBDA g :
      After([f EXCEPT !.clust = g.v], LAMBDA f1 :
      After(clust2sect(g.v) + Csect(f), LAMBDA sect :
        CASE first /\ g.v = ERR -> Abort(g.d, f, "DISK_ERR")
          [] first /\ g.v # ERR /\ g.v < 2 -> Abort(g.d, f, "INT_ERR")
          [] f.fptr % SS = 0 /\ g.v >= 2 /\ clust2sect(g.v) = 0 -> Abort(g.d, f1, "INT_ERR")
          [] clust2sect(g.v) # 0 /\ cc > 0 ->
               IF ~Up(g.d) THEN Abort(g.d, f1, "DISK_ERR")
               ELSE [d |-> g.d, f |-> [f1 EXCEPT !.fptr = @ + SS * cc], r |-> "OK", k |-> SS * cc,
                     out |-> Sectors(g.d, sect, cc)]
          [] OTHER ->
               After([f1 EXCEPT !.dsect = IF f.fptr % SS = 0 THEN sect ELSE @], LAMBDA f2 :
               After(move_window(g.d, f2.dsect), LAMBDA w :
                 IF ~w.ok THEN Abort(w.d, f2, "DISK_ERR")
                 ELSE [d |-> w.d, f |-> [f2 EXCEPT !.fptr = @ + k], r |-> "OK", k |-> k,
                       out |-> [i \in 1 .. k |-> w.d.win[(f.fptr % SS) + i - 1]]])))))

RECURSIVE ReadLoop(_, _, _, _)
ReadLoop(v, f, btr, out) ==
  IF btr = 0 THEN [d |-> v, f |-> f, r |-> "OK", out |-> out]
  ELSE After(ReadRound(v, f, btr), LAMBDA x :
         IF x.r = "OK" THEN ReadLoop(x.d, x.f, btr - x.k, out \o x.out)
         ELSE [d |-> x.d, f |-> x.f, r |-> x.r, out |-> out])

\* What every call on a file object looks at first.
Refused(v, f, need) == LET r == validate(v, f)
                       IN  CASE r # "OK" -> r
                             [] r = "OK" /\ "ERROR" \in f.flag -> "INT_ERR"
                             [] r = "OK" /\ "ERROR" \notin f.flag /\ ~(need \subseteq f.flag) -> "DENIED"
                             [] OTHER -> "OK"

f_read(v, f, btr) ==
  LET r == Refused(v, f, {"R"})
  IN  IF r # "OK" THEN [d |-> Gone(v), f |-> f, r |-> r, out |-> <<>>]
      ELSE ReadLoop(v, f, Lesser(btr, f.fsize - f.fptr), <<>>)

\* cc sectors from s on written past the window, which takes over its own.
RECURSIVE WriteSectors(_, _, _, _)
WriteSectors(v, s, cells, cc) ==
  IF cc = 0 THEN [d |-> v, ok |-> TRUE]
  ELSE IF Fails(v) THEN [d |-> Spent(v), ok |-> FALSE]
  ELSE WriteSectors(Put(v, s, [i \in 0 .. SS - 1 |-> cells[i + 1]]), s + 1,
                    SubSeq(cells, SS + 1, Len(cells)), cc - 1)

\* Mutant: the window is not told that its sector was written past it.
Refresh_stale(v, s, cc) == v

Refresh(v, s, cc) == IF v.winsect \in s .. s + cc - 1 THEN [v EXCEPT !.win = v.disk[v.winsect], !.wflag = FALSE]
                     ELSE v

\* The cluster that holds fptr: looked up, or allocated at the end of the file.
\* A first cluster goes into sclust whatever create_chain answers.
NextClust(v, f) ==
  After(IF f.fptr = 0 /\ f.sclust # 0 THEN [d |-> v, v |-> f.sclust]
        ELSE create_chain(v, IF f.fptr = 0 THEN 0 ELSE f.clust), LAMBDA c :
    [d |-> c.d, v |-> c.v, f |-> IF f.fptr = 0 THEN [f EXCEPT !.sclust = c.v] ELSE f])

\* The units from fptr on that share a sector, through the window.
WritePart(v, f, cells) ==
  LET k == Lesser(SS - (f.fptr % SS), Len(cells))
  IN  After(move_window(v, f.dsect), LAMBDA w :
        IF ~w.ok THEN Abort(w.d, f, "DISK_ERR")
        ELSE [d |-> [w.d EXCEPT !.wflag = TRUE,
                                !.win = [i \in 0 .. SS - 1 |->
                                           IF i \in f.fptr % SS .. (f.fptr % SS) + k - 1
                                           THEN cells[i - (f.fptr % SS) + 1] ELSE @[i]]],
              f |-> [f EXCEPT !.fptr = @ + k], r |-> "OK", k |-> k])

\* A sector behind the end of the file is claimed for the window without reading it.
Claim(v, f, sect) ==
  IF f.fptr < f.fsize THEN [d |-> v, ok |-> TRUE]
  ELSE After(move_window(v, 0), LAMBDA z :
         IF z.ok THEN [d |-> [z.d EXCEPT !.winsect = sect, !.win = [i \in 0 .. SS - 1 |-> Junk]], ok |-> TRUE] ELSE z)

\* At the start of a sector: whole sectors directly, a part through the window.
WriteSector(v, f, cells) ==
  LET sect == clust2sect(f.clust) + Csect(f)
      cc == Lesser(Len(cells) \div SS, CSize - Csect(f))
  IN  After(IF v.winsect = f.dsect THEN move_window(v, 0) ELSE [d |-> v, ok |-> TRUE], LAMBDA m :
        CASE ~m.ok -> Abort(m.d, f, "DISK_ERR")
          [] m.ok /\ clust2sect(f.clust) = 0 -> Abort(m.d, f, "INT_ERR")
          [] m.ok /\ clust2sect(f.clust) # 0 /\ cc > 0 ->
               After(WriteSectors(m.d, sect, cells, cc), LAMBDA w :
                 IF ~w.ok THEN Abort(w.d, f, "DISK_ERR")
                 ELSE [d |-> Refresh(w.d, sect, cc), f |-> [f EXCEPT !.fptr = @ + SS * cc], r |-> "OK", k |-> SS * cc])
          [] OTHER -> After(Claim(m.d, f, sect), LAMBDA z :
                        IF ~z.ok THEN Abort(z.d, f, "DISK_ERR") ELSE WritePart(z.d, [f EXCEPT !.dsect = sect], cells)))

\* One round of the loop of f_write; r = "FULL" leaves the loop.
WriteRound(v, f, cells) ==
  IF f.fptr % SS # 0 THEN WritePart(v, f, cells)
  ELSE After(IF Csect(f) # 0 THEN [d |-> v, f |-> f, v |-> f.clust] ELSE NextClust(v, f), LAMBDA c :
         CASE Csect(f) = 0 /\ c.v = 0 -> [d |-> c.d, f |-> c.f, r |-> "FULL", k |-> 0]
           [] Csect(f) = 0 /\ c.v = 1 -> Abort(c.d, c.f, "INT_ERR")
           [] Csect(f) = 0 /\ c.v = ERR -> Abort(c.d, c.f, "DISK_ERR")
           [] OTHER -> WriteSector(c.d, [c.f EXCEPT !.clust = c.v], cells))

\* fsize and the mark for f_sync are not reached when a round fails.
RECURSIVE WriteLoop(_, _, _, _)
WriteLoop(v, f, cells, bw) ==
  LET Done(dd, ff) == [d |-> dd, r |-> "OK", out |-> bw,
                       f |-> [ff EXCEPT !.fsize = IF ff.fptr > @ THEN ff.fptr ELSE @, !.flag = @ \cup {"WRITTEN"}]]
  IN  IF cells = <<>> THEN Done(v, f)
      ELSE After(WriteRound(v, f, cells), LAMBDA x :
             CASE x.r = "OK" -> WriteLoop(x.d, x.f, SubSeq(cells, x.k + 1, Len(cells)), bw + x.k)
               [] x.r = "FULL" -> Done(x.d, x.f)
               [] OTHER -> [d |-> x.d, f |-> x.f, r |-> x.r, out |-> bw])

f_write(v, f, cells) ==
  LET r == Refused(v, f, {"W"})
  IN  IF r # "OK" THEN [d |-> Gone(v), f |-> f, r |-> r, out |-> 0] ELSE WriteLoop(v, f, cells, 0)

\* The directory entry as the file object knows the file.
Entry(f, e) == [e EXCEPT !.attr = @ \cup {"ARC"}, !.size = f.fsize, !.clust = f.sclust]

\* The mark is cleared before the flush is known to succeed.
f_sync(v, f) ==
  After(validate(v, f), LAMBDA r :
    CASE r # "OK" -> [d |-> Gone(v), f |-> f, r |-> r]
      [] r = "OK" /\ "WRITTEN" \notin f.flag -> [d |-> v, f |-> f, r |-> "OK"]
      [] OTHER -> After(move_window(v, f.dir_sect), LAMBDA w :
                    IF ~w.ok THEN [d |-> w.d, f |-> f, r |-> "DISK_ERR"]
                    ELSE After(sync(Store(w, f.dir_ptr, Entry(f, w.d.win[f.dir_ptr]))), LAMBDA s :
                         [d |-> s.d, f |-> [f EXCEPT !.flag = @ \ {"WRITTEN"}], r |-> IF s.ok THEN "OK" ELSE "DISK_ERR"])))

f_close(v, f) == After(f_sync(v, f), LAMBDA s : IF s.r = "OK" THEN [s EXCEPT !.f = Closed] ELSE s)

BCS == SS * CSize                        \* units of a cluster

\* The loop of f_lseek: whole clusters up to ofs, allocated when the file is
\* open for writing.
RECURSIVE SeekLoop(_, _, _)
SeekLoop(v, f, ofs) ==
  LET Failed(c, r) == [d |-> c.d, f |-> Abort(c.d, f, r).f, r |-> r, ofs |-> 0]
  IN  IF ofs <= BCS THEN [d |-> v, f |-> f, r |-> "OK", ofs |-> ofs]
      ELSE After(IF "W" \in f.flag THEN create_chain(v, f.clust) ELSE get_fat(v, f.clust), LAMBDA c :
             CASE c.v = 0 /\ "W" \in f.flag -> [d |-> c.d, f |-> f, r |-> "OK", ofs |-> BCS]
               [] c.v = ERR -> Failed(c, "DISK_ERR")
               [] c.v # ERR /\ (c.v = 1 \/ (c.v = 0 /\ "W" \notin f.flag) \/ c.v >= NFatEnt) -> Failed(c, "INT_ERR")
               [] OTHER -> SeekLoop(c.d, [f EXCEPT !.clust = c.v, !.fptr = @ + BCS], ofs - BCS))

\* Where f_lseek ends: s is what the loop left.
SeekEnd(s) ==
  After([s.f EXCEPT !.fptr = @ + s.ofs], LAMBDA f :
    CASE s.r # "OK" -> [d |-> s.d, f |-> s.f, r |-> s.r]
      [] s.r = "OK" /\ s.ofs % SS # 0 /\ clust2sect(f.clust) = 0 -> Abort(s.d, f, "INT_ERR")
      [] OTHER -> [d |-> s.d, r |-> "OK",
                   f |-> [f EXCEPT !.dsect = IF f.fptr % SS = 0 THEN @ ELSE IF s.ofs % SS = 0 THEN 0
                                             ELSE clust2sect(f.clust) + s.ofs \div SS,
                                   !.fsize = IF f.fptr > @ THEN f.fptr ELSE @,
                                   !.flag = IF f.fptr > f.fsize THEN @ \cup {"WRITTEN"} ELSE @]])

\* From the current cluster on when ofs is not before it, else from the first one,
\* which is allocated when there is none.
f_lseek(v, f, ofs0) ==
  LET r0 == Refused(v, f, {})
      ofs == IF ofs0 > f.fsize /\ "W" \notin f.flag THEN f.fsize ELSE ofs0
      near == f.fptr > 0 /\ (ofs - 1) \div BCS >= (f.fptr - 1) \div BCS
      base == ((f.fptr - 1) \div BCS) * BCS
  IN  CASE r0 # "OK" -> [d |-> Gone(v), f |-> f, r |-> r0]
        [] r0 = "OK" /\ ofs = 0 -> [d |-> v, f |-> [f EXCEPT !.fptr = 0], r |-> "OK"]
        [] r0 = "OK" /\ ofs # 0 /\ near -> SeekEnd(SeekLoop(v, [f EXCEPT !.fptr = base], ofs - base))
        [] OTHER ->
             After(IF f.sclust = 0 THEN create_chain(v, 0) ELSE [d |-> v, v |-> f.sclust], LAMBDA c :
             After([f EXCEPT !.fptr = 0, !.sclust = c.v, !.clust = c.v], LAMBDA g :
               CASE f.sclust = 0 /\ c.v = ERR -> Abort(c.d, [f EXCEPT !.fptr = 0], "DISK_ERR")
                 [] f.sclust = 0 /\ c.v = 1 -> Abort(c.d, [f EXCEPT !.fptr = 0], "INT_ERR")
                 [] c.v = 0 -> SeekEnd([d |-> c.d, f |-> g, r |-> "OK", ofs |-> 0])
                 [] OTHER -> SeekEnd(SeekLoop(c.d, g, ofs))))

\* The chain from fptr on is given back.
CutChain(v, f) ==
  IF f.fptr = 0 THEN remove_chain(v, f.sclust)
  ELSE After(get_fat(v, f.clust), LAMBDA g :
         CASE g.v = ERR -> [d |-> g.d, r |-> "DISK_ERR"]
           [] g.v = 1 -> [d |-> g.d, r |-> "INT_ERR"]
           [] g.v >= NFatEnt -> [d |-> g.d, r |-> "OK"]
           [] OTHER -> After(put_fat(g.d, f.clust, EOC), LAMBDA p : IF p.r = "OK" THEN remove_chain(p.d, g.v) ELSE p))

\* The chain is cut before the entry on the disk is changed.
f_truncate(v, f) ==
  After(Refused(v, f, {"W"}), LAMBDA r0 :
    CASE r0 # "OK" -> [d |-> Gone(v), f |-> f, r |-> r0]
      [] r0 = "OK" /\ f.fsize <= f.fptr -> [d |-> v, f |-> f, r |-> "OK"]
      [] OTHER -> After(CutChain(v, f), LAMBDA cut :
                    [d |-> cut.d, r |-> cut.r,
                     f |-> [f EXCEPT !.fsize = f.fptr, !.sclust = IF f.fptr = 0 THEN 0 ELSE @,
                                     !.flag = @ \cup {"WRITTEN"} \cup (IF cut.r = "OK" THEN {} ELSE {"ERROR"})]]))

-----------------------------------------------------------------------------
(* Entries.                                                                *)

FromSync(s) == [d |-> s.d, r |-> IF s.ok THEN "OK" ELSE "DISK_ERR"]

\* The entry goes first, then the chain.
Erase(p, c) ==
  After(dir_remove(p.d, p.j), LAMBDA x :
    IF x.r # "OK" THEN [d |-> x.d, r |-> x.r]
    ELSE After(IF c = 0 THEN [d |-> x.d, r |-> "OK"] ELSE remove_chain(x.d, c), LAMBDA y :
         IF y.r # "OK" THEN y ELSE FromSync(sync(y.d))))

\* A directory has to be empty, and not the current one, before it goes.
Vacant(p, c) ==
  IF c < 2 THEN [d |-> p.d, r |-> "INT_ERR"]
  ELSE After(dir_sdi(p.d, [p.j EXCEPT !.sclust = c], 2), LAMBDA s :
         IF s.r # "OK" THEN [d |-> s.d, r |-> s.r]
         ELSE After(dir_read(s.d, s.j), LAMBDA x :
                CASE x.r = "OK" \/ c = x.d.cdir -> [d |-> x.d, r |-> "DENIED"]
                  [] x.r = "NO_FILE" /\ c # x.d.cdir -> [d |-> x.d, r |-> "OK"]
                  [] OTHER -> [d |-> x.d, r |-> x.r]))

f_unlink(v, path) ==
  After(FindEntry(v, path), LAMBDA p :
  After(Here(p.d, p.j), LAMBDA e :
    CASE p.r # "OK" -> [d |-> p.d, r |-> p.r]
      [] p.r = "OK" /\ "RDO" \in e.attr -> [d |-> p.d, r |-> "DENIED"]
      [] OTHER -> After(IF "DIR" \in e.attr THEN Vacant(p, e.clust) ELSE [d |-> p.d, r |-> "OK"], LAMBDA x :
                    IF x.r = "OK" THEN Erase([p EXCEPT !.d = x.d], e.clust) ELSE x)))

\* The new directory's sectors, cluster c of the directory parent.
Furnish(v, c, parent) ==
  After(move_window(v, 0), LAMBDA m :
    IF m.ok THEN Clear([m.d EXCEPT !.win = [Blank EXCEPT ![0] = Cell(DOT, {"DIR"}, c, 0),
                                                         ![1] = Cell(DOTDOT, {"DIR"}, parent, 0)]], clust2sect(c), CSize)
    ELSE m)

\* They are written before the entry in the parent; a failure gives the cluster back.
f_mkdir(v, path) ==
  After(Find(v, path), LAMBDA p :
    CASE p.r = "OK" -> [d |-> p.d, r |-> "EXIST"]
      [] p.r \notin {"OK", "NO_FILE"} -> [d |-> p.d, r |-> p.r]
      [] OTHER ->
           After(create_chain(p.d, 0), LAMBDA c :
             CASE c.v = 0 -> [d |-> c.d, r |-> "DENIED"]
               [] c.v = 1 -> [d |-> c.d, r |-> "INT_ERR"]
               [] c.v = ERR -> [d |-> c.d, r |-> "DISK_ERR"]
               [] OTHER -> After(Furnish(c.d, c.v, p.j.sclust), LAMBDA z :
                           After(IF z.ok THEN dir_register(z.d, p.j) ELSE [d |-> z.d, j |-> p.j, r |-> "DISK_ERR"], LAMBDA g :
                             IF g.r # "OK" THEN [d |-> remove_chain(g.d, c.v).d, r |-> g.r]
                             ELSE FromSync(sync(Store(g, At(g.j), [Here(g.d, g.j) EXCEPT !.attr = {"DIR"}, !.clust = c.v])))))))

\* f_chmod for the read-only bit; f_utime is the same call on the time fields.
f_chmod(v, path, rdo) ==
  After(FindEntry(v, path), LAMBDA p :
    IF p.r # "OK" THEN [d |-> p.d, r |-> p.r]
    ELSE FromSync(sync(Store(p, At(p.j), [Here(p.d, p.j) EXCEPT !.attr = (@ \ {"RDO"}) \cup rdo]))))

\* A moved directory gets its new parent in DOTDOT.
Reparent(v, c, parent) ==
  IF clust2sect(c) = 0 THEN [d |-> v, r |-> "INT_ERR"]
  ELSE After(move_window(v, clust2sect(c)), LAMBDA w :
         IF ~w.ok THEN [d |-> w.d, r |-> "DISK_ERR"]
         ELSE [d |-> IF w.d.win[1].name = DOTDOT THEN Store(w, 1, [w.d.win[1] EXCEPT !.clust = parent]) ELSE w.d,
               r |-> "OK"])

\* The new entry at q, a copy of the old one e at o, exists before the old one is
\* removed.
Move(o, e, q) ==
  After(dir_register(q.d, q.j), LAMBDA g :
    IF g.r # "OK" THEN [d |-> g.d, r |-> g.r]
    ELSE After(Store(g, At(g.j), [e EXCEPT !.name = q.j.fn, !.attr = @ \cup {"ARC"}]), LAMBDA x :
         After(IF "DIR" \in e.attr /\ o.j.sclust # q.j.sclust THEN Reparent(x, e.clust, q.j.sclust)
               ELSE [d |-> x, r |-> "OK"], LAMBDA y :
         IF y.r # "OK" THEN y
         ELSE After(dir_remove(y.d, o.j), LAMBDA z :
              IF z.r # "OK" THEN [d |-> z.d, r |-> z.r] ELSE FromSync(sync(z.d))))))

f_rename(v, path_old, path_new) ==
  After(Find(v, path_old), LAMBDA o :
    CASE Dotted(o) -> [d |-> o.d, r |-> "INVALID_NAME"]
      [] ~Dotted(o) /\ o.r = "OK" /\ o.j.null -> [d |-> o.d, r |-> "NO_FILE"]
      [] o.r # "OK" -> [d |-> o.d, r |-> o.r]
      [] OTHER -> After(follow_path(o.d, path_new), LAMBDA q :
                    CASE q.r = "OK" -> [d |-> q.d, r |-> "EXIST"]
                      [] q.r = "NO_FILE" -> Move(o, Here(o.d, o.j), q)
                      [] OTHER -> [d |-> q.d, r |-> q.r]))
=============================================================================
