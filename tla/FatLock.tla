------------------------------ MODULE FatLock -------------------------------
(***************************************************************************)
(* File sharing control of FatFs (fatfs/ff.c: chk_lock, enq_lock,          *)
(* inc_lock, dec_lock, clear_lock and their callers, in the configuration  *)
(* that has them): a table of open files that f_open, f_close, f_unlink,   *)
(* f_rename and f_mount keep.  A file is the place of its entry.           *)
(***************************************************************************)
EXTENDS Naturals, FiniteSets

CONSTANTS Places,      \* directory entries
          Share,       \* _FS_SHARE, slots of the table
          FilObjs,     \* file objects of the callers
          WriteMode,   \* counter of a file open for writing, 0x100
          MaxMounts,   \* bound: times the volume is mounted
          IdMod        \* values of the mount identifier, a WORD: 2^16

NoFile == "nofile"
ASSUME PlacesAreFiles == NoFile \notin Places

\* A counter of readers never gets to look like WriteMode.
ASSUME ReadersFit == /\ Share \in Nat \ {0} /\ WriteMode \in Nat
                     /\ IsFiniteSet(FilObjs) /\ Cardinality(FilObjs) < WriteMode

\* A file object is not kept over so many mounts that its identifier comes back.
ASSUME IdsFit == MaxMounts \in Nat /\ IdMod \in Nat /\ MaxMounts < IdMod

VARIABLE lk   \* sem: the table Files; fil: the file objects; type, id: of the
              \* FATFS object; used: entries in use; int_err: the last call found
              \* the table inconsistent

NoFil == [f |-> NoFile, id |-> 0, lockid |-> 0, acc |-> 0]
LockInit == lk = [sem |-> [i \in 1 .. Share |-> [f |-> NoFile, ctr |-> 0]],
                  fil |-> [h \in FilObjs |-> NoFil],
                  type |-> FALSE, id |-> 0, used |-> {}, int_err |-> FALSE]

Slots == 1 .. Share
SlotsOf(l, f) == {i \in Slots : l.sem[i].f = f}
LowestSlot(S) == CHOOSE i \in S : \A j \in S : i <= j

\* Mutant: a reader is let in next to a writer.
chk_lock_write(l, f, acc) ==
    IF SlotsOf(l, f) = {} THEN IF SlotsOf(l, NoFile) # {} \/ acc = 2 THEN "FR_OK" ELSE "FR_TOO_MANY_OPEN_FILES"
    ELSE IF acc > 0 THEN "FR_LOCKED" ELSE "FR_OK"

\* acc: 0 to read, 1 to write, 2 to remove or rename.
chk_lock(l, f, acc) ==
    IF SlotsOf(l, f) = {} THEN IF SlotsOf(l, NoFile) # {} \/ acc = 2 THEN "FR_OK" ELSE "FR_TOO_MANY_OPEN_FILES"
    ELSE IF acc > 0 \/ l.sem[LowestSlot(SlotsOf(l, f))].ctr = WriteMode THEN "FR_LOCKED" ELSE "FR_OK"

enq_lock(l) == SlotsOf(l, NoFile) # {}

\* The slot taken, 0 if none is free or the access is refused.
inc_slot(l, f, acc) ==
    LET S == IF SlotsOf(l, f) # {} THEN SlotsOf(l, f) ELSE SlotsOf(l, NoFile)
    IN  IF S = {} \/ (SlotsOf(l, f) # {} /\ acc > 0 /\ l.sem[LowestSlot(S)].ctr > 0) THEN 0 ELSE LowestSlot(S)
inc_lock(l, f, acc) ==
    LET i == inc_slot(l, f, acc)
        n == IF SlotsOf(l, f) = {} THEN 0 ELSE l.sem[i].ctr
    IN  IF i = 0 THEN l ELSE [l EXCEPT !.sem[i] = [f |-> f, ctr |-> IF acc > 0 THEN WriteMode ELSE n + 1]]

dec_lock(l, i) ==
    LET n == IF l.sem[i].ctr \in {0, WriteMode} THEN 0 ELSE l.sem[i].ctr - 1
    IN  [l EXCEPT !.sem[i] = [f |-> IF n = 0 THEN NoFile ELSE @.f, ctr |-> n]]

clear_lock(l) == [l EXCEPT !.sem = [i \in Slots |-> [@[i] EXCEPT !.f = NoFile]]]

-----------------------------------------------------------------------------
\* chk_mounted reads the volume again after f_mount, with a new identifier.
MountedAgain(l) == IF l.type THEN l ELSE clear_lock([l EXCEPT !.type = TRUE, !.id = (@ + 1) % IdMod])
validate(l, h) == l.fil[h].f # NoFile /\ l.type /\ l.fil[h].id = l.id
CanMount == lk.type \/ lk.id < MaxMounts

Returned(l) == [l EXCEPT !.int_err = FALSE]

\* f_open begins by clearing the object, which the caller has closed; ok: no error
\* of the disk, no directory or read-only file under that name (here and below it
\* matters only when nothing else refuses the call).
f_open(h, f, acc, create, ok) ==
    LET l == [MountedAgain(lk) EXCEPT !.fil[h] = NoFil]
        there == f \in l.used
        r == IF there THEN chk_lock(l, f, acc)
             ELSE IF ~ create THEN "FR_NO_FILE" ELSE IF enq_lock(l) THEN "FR_OK" ELSE "FR_TOO_MANY_OPEN_FILES"
        m == IF r = "FR_OK" THEN [l EXCEPT !.used = @ \cup {f}] ELSE l
        i == inc_slot(m, f, acc)
    IN  /\ CanMount /\ ~ validate(lk, h) /\ (create => acc = 1) /\ (~ ok => r = "FR_OK")
        /\ lk' = IF r # "FR_OK" \/ ~ ok THEN Returned(m)
                 ELSE IF i = 0 THEN [m EXCEPT !.int_err = TRUE]
                 ELSE [inc_lock(m, f, acc) EXCEPT !.fil[h] = [f |-> f, id |-> m.id, lockid |-> i, acc |-> acc],
                                                  !.int_err = FALSE]

f_close(h, ok) ==
    /\ ~ ok => validate(lk, h)
    /\ lk' = IF ~ validate(lk, h) \/ ~ ok THEN Returned(lk)
             ELSE [dec_lock(lk, lk.fil[h].lockid) EXCEPT !.fil[h] = NoFil, !.int_err = FALSE]

\* The entry goes away; f_rename puts it in another place, g.
f_unlink(f, ok) ==
    LET l == MountedAgain(lk)
        r == IF f \notin l.used THEN "FR_NO_FILE" ELSE chk_lock(l, f, 2)
    IN  /\ CanMount /\ (~ ok => r = "FR_OK")
        /\ lk' = IF r # "FR_OK" \/ ~ ok THEN Returned(l) ELSE Returned([l EXCEPT !.used = @ \ {f}])
f_rename(f, g) ==
    LET l == MountedAgain(lk)
        r == IF f \notin l.used THEN "FR_NO_FILE" ELSE chk_lock(l, f, 2)
    IN  /\ CanMount /\ g \notin l.used
        /\ lk' = IF r # "FR_OK" THEN Returned(l) ELSE Returned([l EXCEPT !.used = (@ \ {f}) \cup {g}])

f_mount == lk' = [clear_lock(lk) EXCEPT !.type = FALSE, !.int_err = FALSE]

LockNext == \/ \E h \in FilObjs, f \in Places, acc \in 0 .. 1, create, ok \in BOOLEAN : f_open(h, f, acc, create, ok)
            \/ \E h \in FilObjs, ok \in BOOLEAN : f_close(h, ok)
            \/ \E f \in Places, ok \in BOOLEAN : f_unlink(f, ok)
            \/ \E f, g \in Places : f_rename(f, g)
            \/ f_mount

LockSpec == LockInit /\ [][LockNext]_lk

-----------------------------------------------------------------------------
LiveFils == {h \in FilObjs : validate(lk, h)}

\* A file open for writing has no other file object, and no entry goes away or is
\* used anew under one, over any opens, failed opens, closes, removals and remounts
\* (chk_lock, f_unlink, f_rename).
SharingHolds ==
    /\ \A h, j \in LiveFils : h # j /\ lk.fil[h].f = lk.fil[j].f => lk.fil[h].acc = 0
    /\ \A h \in LiveFils : lk.fil[h].f \in lk.used

\* The table counts exactly the live file objects of each file, so that no slot is
\* lost and no count is left behind, and an open that was allowed is never refused
\* when it is counted (chk_lock and enq_lock against inc_lock, dec_lock, clear_lock).
LocksExact ==
    LET Of(i) == {h \in LiveFils : lk.fil[h].lockid = i}
    IN  /\ \A i \in Slots :
               IF Of(i) = {} THEN lk.sem[i].f = NoFile
               ELSE /\ \A h \in Of(i) : lk.fil[h].f = lk.sem[i].f
                    /\ lk.sem[i].ctr = IF \E h \in Of(i) : lk.fil[h].acc = 1 THEN WriteMode ELSE Cardinality(Of(i))
        /\ ~ lk.int_err
=============================================================================
