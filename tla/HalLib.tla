------------------------------- MODULE HalLib -------------------------------
(***************************************************************************)
(* Parts of the HAL that touch no device: loading the sections of the      *)
(* program before anything else runs, busy waiting, formatted output, the  *)
(* search for the file system a path belongs to, and the file descriptors. *)
(***************************************************************************)
EXTENDS Naturals, Integers, Sequences, FiniteSets, FiniteSetsExt

CONSTANTS
    Words,       \* the words of memory
    Layout,      \* the program's sections: where each is stored, is to be
                 \* loaded, and ends; loaded in this order
    IntMax,      \* INT_MAX
    LoopsPerUs,  \* iterations of the waiting loop per microsecond
    HexBase,     \* values of a hexadecimal digit
    HexDigits    \* digits of an unsigned long

\* The linker keeps what is still to be copied clear of what is written.
Image(s) == s.from..(s.from + (s.end - s.to) - 1)
Target(s) == s.to..(s.end - 1)

ASSUME LibAssumption ==
    /\ Words \subseteq Nat
    /\ \A i \in DOMAIN Layout :
          /\ Image(Layout[i]) \cup Target(Layout[i]) \subseteq Words
          /\ Layout[i].end >= Layout[i].to
          /\ \A j \in DOMAIN Layout :
                /\ i # j => Target(Layout[i]) \cap Target(Layout[j]) = {}
                /\ Layout[i].from # Layout[i].to
                      => Target(Layout[i]) \cap Image(Layout[j]) = {}
    /\ IntMax \in Nat /\ LoopsPerUs \in 1..IntMax
    /\ HexBase > 1 /\ HexDigits > 0

VARIABLES
    ld,      \* memory, the section and the word being copied
    sl,      \* a busy wait; asked and spun are history
    pr,      \* an alt_printf: what is left of its format; rest is history
    fslist   \* the registered file systems, the latest first

libVars == <<ld, sl, pr, fslist>>

\* Every word of memory starts out with a value of its own.
LoadInit == ld = [mem |-> [a \in Words |-> a], sec |-> 1, k |-> 0]

NoSleep == [pc |-> "idle", us |-> 0, big |-> 0, asked |-> 0, spun |-> 0]

NoPrint == [pc |-> "idle", fmt |-> <<>>, v |-> 0, shift |-> 0, done |-> <<>>,
            out |-> <<>>]

LibInit == LoadInit /\ sl = NoSleep /\ pr = NoPrint /\ fslist = <<>>

----------------------------------------------------------------------------
\* alt_load_section copies nothing when the section is already in place.
alt_load_section(s, k) == s.from = s.to \/ s.to + k = s.end

LoadWord ==
    LET s == Layout[ld.sec]
    IN  /\ ld.sec <= Len(Layout)
        /\ ld' = IF alt_load_section(s, ld.k)
                 THEN [ld EXCEPT !.sec = @ + 1, !.k = 0]
                 ELSE [ld EXCEPT !.mem[s.to + ld.k] = ld.mem[s.from + ld.k],
                                 !.k = @ + 1]

\* alt_load: read-write data, exception code, read-only data.
alt_load == LoadWord /\ UNCHANGED <<sl, pr, fslist>>

Loaded == ld.sec > Len(Layout)

----------------------------------------------------------------------------
\* Busy waiting.  The argument of the counting loop is a signed word, so a
\* long wait is cut into loops of INT_MAX.
BigSpan == IntMax \div LoopsPerUs

\* The last loop after long ones decrements before it tests for zero, so
\* an argument of zero goes all the way round; the short loop does not.
LastLoops(n) == IF n = 0 THEN 2 * (IntMax + 1) ELSE n
ShortLoops(n) == IF n = 0 THEN 1 ELSE n

alt_busy_sleep(us) ==
    /\ sl.pc = "idle"
    /\ sl' = [pc |-> IF us \div BigSpan = 0 THEN "short" ELSE "big", us |-> us,
              big |-> us \div BigSpan, asked |-> us, spun |-> 0]

SleepBig ==
    /\ sl.pc = "big"
    /\ sl' = IF sl.big = 0 THEN [sl EXCEPT !.pc = "last"]
             ELSE [sl EXCEPT !.big = @ - 1, !.us = @ - BigSpan,
                             !.spun = @ + IntMax]

SleepEnd ==
    /\ sl.pc \in {"last", "short"}
    /\ LET n == sl.us * LoopsPerUs
       IN  sl' = [sl EXCEPT !.pc = "idle",
                     !.spun = @ + (IF sl.pc = "last" THEN LastLoops(n)
                                   ELSE ShortLoops(n))]

SleepStep == (SleepBig \/ SleepEnd) /\ UNCHANGED <<ld, pr, fslist>>

----------------------------------------------------------------------------
\* alt_printf, one character of the format at a time.
alt_printf(fmt) ==
    /\ pr.pc = "idle"
    /\ pr' = [NoPrint EXCEPT !.pc = "scan", !.fmt = fmt]

Put(c) == Append(pr.out, <<"char", c>>)
PutDigit(d) == Append(pr.out, <<"digit", d>>)

\* %c, %x and %s take the next argument; any other character after the
\* percent sign is dropped, and a percent sign at the end ends the output.
Conversion(c, v, str) ==
    LET p == [pr EXCEPT !.fmt = Tail(Tail(pr.fmt))]
    IN  pr' = CASE c = "%" -> [p EXCEPT !.out = Put("%")]
                [] c = "c" -> [p EXCEPT !.out = Put(v),
                                        !.done = Append(@, <<"c", v>>)]
                [] c = "x" /\ v = 0 -> [p EXCEPT !.out = PutDigit(0),
                                                 !.done = Append(@, <<"x", v>>)]
                [] c = "x" /\ v # 0 -> [p EXCEPT !.pc = "skip", !.v = v,
                                                 !.shift = HexDigits - 1,
                                                 !.done = Append(@, <<"x", v>>)]
                [] c = "s" -> [p EXCEPT !.out = pr.out \o [i \in DOMAIN str |-> <<"char", str[i]>>],
                                        !.done = Append(@, <<"s", str>>)]
                [] OTHER -> p

PrintChar(v, str) ==
    /\ pr.pc = "scan" /\ pr.fmt # <<>>
    /\ IF Head(pr.fmt) # "%"
       THEN pr' = [pr EXCEPT !.fmt = Tail(@), !.out = Put(Head(pr.fmt))]
       ELSE IF Len(pr.fmt) = 1 THEN pr' = [pr EXCEPT !.fmt = <<>>]
       ELSE Conversion(pr.fmt[2], v, str)

Digit(v, shift) == (v \div HexBase^shift) % HexBase

\* Leading zeros are skipped, then every digit is printed.
PrintSkip ==
    /\ pr.pc = "skip"
    /\ pr' = IF Digit(pr.v, pr.shift) = 0 THEN [pr EXCEPT !.shift = @ - 1]
             ELSE [pr EXCEPT !.pc = "digits"]

PrintDigit ==
    /\ pr.pc = "digits"
    /\ pr' = IF pr.shift < 0 THEN [pr EXCEPT !.pc = "scan"]
             ELSE [pr EXCEPT !.out = PutDigit(Digit(pr.v, pr.shift)), !.shift = @ - 1]

PrintEnd == pr.pc = "scan" /\ pr.fmt = <<>> /\ pr' = [pr EXCEPT !.pc = "idle"]

PrintStep(v, str) ==
    /\ PrintChar(v, str) \/ PrintSkip \/ PrintDigit \/ PrintEnd
    /\ UNCHANGED <<ld, sl, fslist>>

----------------------------------------------------------------------------
\* alt_fs_reg puts a file system at the head of the list.
alt_fs_reg(mount) == fslist' = <<mount>> \o fslist

CharAt(name, i) == IF i <= Len(name) THEN name[i] ELSE "nul"

WithoutSlash(mount) ==
    IF mount[Len(mount)] = "/" THEN SubSeq(mount, 1, Len(mount) - 1) ELSE mount

\* The path is the mount point, or goes on below it.
Below(mount, name) ==
    LET m == WithoutSlash(mount)
    IN  /\ CharAt(name, Len(m) + 1) \in {"/", "nul"}
        /\ \A i \in DOMAIN m : CharAt(name, i) = m[i]

\* alt_find_file: the first file system in the list the path is below.
alt_find_file(name) ==
    LET hits == {i \in DOMAIN fslist : Below(fslist[i], name)}
    IN  IF hits = {} THEN 0 ELSE CHOOSE i \in hits : \A j \in hits : i <= j

----------------------------------------------------------------------------
LibTypeOK ==
    /\ ld.sec \in 1..(Len(Layout) + 1) /\ ld.mem \in [Words -> Words]
    /\ sl.pc \in {"idle", "big", "last", "short"} /\ sl.us >= 0
    /\ pr.pc \in {"idle", "scan", "skip", "digits"}
    /\ pr.shift \in -1..(HexDigits - 1)

\* Once alt_load is through, every section is where the program was linked
\* to find it, word for word, and no other word of memory has changed.
LoadedInPlace ==
    Loaded => \A a \in Words :
        ld.mem[a] = IF \E i \in DOMAIN Layout : a \in Target(Layout[i])
                    THEN LET i == CHOOSE j \in DOMAIN Layout : a \in Target(Layout[j])
                         IN  Layout[i].from + a - Layout[i].to
                    ELSE a

\* A busy wait is never shorter than asked and, unless the time is a
\* multiple of the longest single loop, longer only by what the divisions
\* round off.
SleepAsLongAsAsked ==
    (sl.pc = "idle" /\ sl.asked > 0) =>
        /\ sl.spun >= sl.asked * LoopsPerUs
        /\ (sl.asked % BigSpan # 0) =>
              sl.spun < sl.asked * LoopsPerUs
                            + LoopsPerUs * (1 + sl.asked \div BigSpan)

\* The value a run of digits stands for.
ValueOf(s) ==
    LET val[i \in 0..Len(s)] ==
            IF i = 0 THEN 0 ELSE val[i - 1] * HexBase + s[i][2]
    IN  val[Len(s)]

\* A format that is one %x, or two with a character between them, prints
\* numbers that read back as the arguments, without leading zeros, for
\* every argument.
HexReadsBack ==
    (pr.pc = "idle" /\ pr.done # <<>> /\ \A i \in DOMAIN pr.done : pr.done[i][1] = "x") =>
        LET seps == {i \in DOMAIN pr.out : pr.out[i][1] = "char"}
            ends == seps \cup {Len(pr.out) + 1}
            From(e) == 1 + (IF \E s \in seps : s < e
                            THEN CHOOSE s \in seps : s < e /\ \A t \in seps : t < e => t <= s
                            ELSE 0)
            Num(e) == SubSeq(pr.out, From(e), e - 1)
        IN  /\ {ValueOf(Num(e)) : e \in ends} = {pr.done[i][2] : i \in DOMAIN pr.done}
            /\ \A e \in ends : Len(Num(e)) > 1 => Num(e)[1][2] # 0

\* A path is given to a file system exactly when some mount point is a
\* prefix of it that ends where a component of the path ends, and to the
\* one registered last.
PathsGoToTheirMount ==
    \A name \in UNION {[1..n -> {"/", "m", "x"}] : n \in 1..3} :
        LET IsPrefix(m) == /\ Len(m) <= Len(name)
                           /\ SubSeq(name, 1, Len(m)) = m
            Under(m) == IF m[Len(m)] = "/"
                        THEN IsPrefix(m) \/ name \o <<"/">> = m
                        ELSE name = m \/ IsPrefix(m \o <<"/">>)
        IN  IF \E i \in DOMAIN fslist : Under(fslist[i])
            THEN /\ alt_find_file(name) # 0
                 /\ Under(fslist[alt_find_file(name)])
                 /\ \A i \in 1..(alt_find_file(name) - 1) : ~Under(fslist[i])
            ELSE alt_find_file(name) = 0

-----------------------------------------------------------------------------
(***************************************************************************)
(* The HAL's file descriptors: the table alt_fd_list, the list of          *)
(* registered devices, opening and releasing descriptors, redirecting      *)
(* standard input and output, and exclusive access (TIOCEXCL).             *)
(*                                                                         *)
(* Device names stand for the devices.  No file system is registered in    *)
(* this system, so a name that is no device is not found.  held is         *)
(* history: the descriptors open has returned and nobody has closed.       *)
(***************************************************************************)
CONSTANTS
    MaxFd,     \* ALT_MAX_FD
    Devices    \* the devices drivers register, besides the null device

ASSUME FileAssumption ==
    MaxFd \in Nat /\ MaxFd > 3 /\ {"null", "none"} \cap Devices = {}

VARIABLE
    fdt    \* the descriptor table and the registered devices

Fds == 0..(MaxFd - 1)
NoFd == -1

ClosedFd == [dev |-> "none", acc |-> "rw", nb |-> FALSE, excl |-> FALSE,
             isdev |-> FALSE]

\* alt_dev.c: the first three descriptors start out on the null device.
FileInit ==
    fdt = [list |-> [fd \in Fds |-> IF fd < 3
                        THEN [ClosedFd EXCEPT !.dev = "null"] ELSE ClosedFd],
           max |-> NoFd, devs |-> {"null"}, held |-> {}, errno |-> "none"]

\* alt_dev_reg, called by a driver's initialisation.
alt_dev_reg(d) == fdt' = [fdt EXCEPT !.devs = @ \cup {d}]

----------------------------------------------------------------------------
FreeFds(t) == {fd \in Fds : t.list[fd].dev = "none"}

\* alt_get_fd: the lowest free descriptor, given to the device.
alt_get_fd(t, d) ==
    LET fd == Min(FreeFds(t))
    IN  [t EXCEPT !.list[fd].dev = d, !.max = IF fd > @ THEN fd ELSE @]

\* alt_release_fd: the standard descriptors are never given back.
alt_release_fd(t, fd) ==
    IF fd > 2 THEN [t EXCEPT !.list[fd] = ClosedFd] ELSE t

\* Mutant: the search stops below the highest descriptor.
LockedBelowMax(t, fd) ==
    \E i \in 0..(t.max - 1) : /\ i # fd
                              /\ t.list[i].dev = t.list[fd].dev
                              /\ t.list[i].excl

\* alt_file_locked: does another descriptor hold the device for itself?
alt_file_locked(t, fd) ==
    \E i \in 0..t.max : /\ i # fd
                        /\ t.list[i].dev = t.list[fd].dev
                        /\ t.list[i].excl

Failed(t, e) == [t |-> [t EXCEPT !.errno = e], fd |-> NoFd]

\* Mutant: a refused open keeps the descriptor.
OpenedLeaks(t, d, acc, nb) ==
    IF d \notin t.devs THEN Failed(t, "ENODEV")
    ELSE IF FreeFds(t) = {} THEN Failed(t, "EMFILE")
    ELSE LET fd  == Min(FreeFds(t))
             got == [alt_get_fd(t, d) EXCEPT
                        !.list[fd].acc = acc, !.list[fd].nb = nb,
                        !.list[fd].isdev = TRUE]
         IN  IF alt_file_locked(got, fd) THEN Failed(got, "EACCES")
             ELSE [t |-> got, fd |-> fd]

\* ALT_OPEN: the table it leaves and the descriptor it returns.
Opened(t, d, acc, nb) ==
    IF d \notin t.devs THEN Failed(t, "ENODEV")
    ELSE IF FreeFds(t) = {} THEN Failed(t, "EMFILE")
    ELSE LET fd  == Min(FreeFds(t))
             got == [alt_get_fd(t, d) EXCEPT
                        !.list[fd].acc = acc, !.list[fd].nb = nb,
                        !.list[fd].excl = FALSE, !.list[fd].isdev = TRUE]
         IN  IF alt_file_locked(got, fd)
             THEN Failed(alt_release_fd(got, fd), "EACCES")
             ELSE [t |-> got, fd |-> fd]

alt_open(d, acc, nb) ==
    LET o == Opened(fdt, d, acc, nb)
    IN  fdt' = [o.t EXCEPT !.held = IF o.fd = NoFd THEN @ ELSE @ \cup {o.fd}]

\* alt_open_fd: open the device, copy the descriptor over a standard one,
\* give the opened one back.
alt_open_fd(t, std, d, acc) ==
    LET o == Opened(t, d, acc, FALSE)
    IN  IF o.fd = NoFd THEN o.t
        ELSE alt_release_fd([o.t EXCEPT !.list[std] = o.t.list[o.fd]], o.fd)

\* alt_io_redirect.
Redirected(t, out, in, err) ==
    LET t1 == alt_open_fd(t, 1, out, "w")
        t2 == alt_open_fd(t1, 0, in, "r")
    IN  alt_open_fd(t2, 2, err, "w")

alt_io_redirect(out, in, err) == fdt' = Redirected(fdt, out, in, err)

----------------------------------------------------------------------------
\* The checks of ALT_READ and ALT_WRITE; the null device has no read.
MayRead(fd) == fdt.list[fd].acc # "w" /\ fdt.list[fd].dev # "null"
MayWrite(fd) == fdt.list[fd].acc # "r"

alt_refuse(e) == fdt' = [fdt EXCEPT !.errno = e]

\* ALT_CLOSE once the device's own close has returned: the descriptor goes
\* whatever that said.
FdClosed(fd) ==
    fdt' = [alt_release_fd(fdt, fd) EXCEPT !.held = @ \ {fd}]

\* ALT_FCNTL, F_SETFL: only the non-blocking flag can be changed.
alt_fcntl(fd, nb) == fdt' = [fdt EXCEPT !.list[fd].nb = nb]

\* Calls no driver of this system implements: every descriptor is a
\* character device and a terminal, none can be positioned.  A negative
\* descriptor is an error; fstat and isatty leave errno alone otherwise.
alt_fstat(fd) == IF fd < 0 THEN alt_refuse("EBADFD") ELSE UNCHANGED fdt

alt_isatty(fd) == IF fd < 0 THEN alt_refuse("EBADFD") ELSE UNCHANGED fdt

alt_lseek(fd) == alt_refuse(IF fd < 0 THEN "EBADFD" ELSE "ENOTSUP")

\* Calls that always fail.
alt_execve == alt_refuse("ENOSYS")
alt_fork == alt_refuse("ENOSYS")
alt_link == alt_refuse("ENOSYS")
alt_rename == alt_refuse("ENOSYS")
alt_unlink == alt_refuse("ENOSYS")
alt_wait == alt_refuse("ECHILD")

\* alt_fd_lock looks at the descriptors below alt_max_fd.
LockRefused(fd) ==
    \E i \in 0..(fdt.max - 1) : i # fd /\ fdt.list[i].dev = fdt.list[fd].dev

\* ALT_IOCTL, TIOCEXCL and TIOCNXCL, for descriptors of devices only; no
\* file subsystem is linked, so there are no others.
alt_fd_lock(fd) ==
    /\ fdt.list[fd].isdev
    /\ IF LockRefused(fd) THEN alt_refuse("EACCES")
       ELSE fdt' = [fdt EXCEPT !.list[fd].excl = TRUE]

alt_fd_unlock(fd) ==
    /\ fdt.list[fd].isdev
    /\ fdt' = [fdt EXCEPT !.list[fd].excl = FALSE]

----------------------------------------------------------------------------
FileTypeOK ==
    /\ \A fd \in Fds :
          fdt.list[fd] \in [dev : Devices \cup {"null", "none"},
                            acc : {"r", "w", "rw"}, nb : BOOLEAN,
                            excl : BOOLEAN, isdev : BOOLEAN]
    /\ fdt.max \in {NoFd} \cup Fds
    /\ fdt.devs \subseteq Devices \cup {"null"}

\* Descriptors neither leak nor vanish: the ones in use are the ones open
\* has returned and nobody has closed, and alt_max_fd, the end of every
\* search for a lock, covers them all.
FdsAccounted ==
    /\ {fd \in Fds : fd > 2 /\ fdt.list[fd].dev # "none"} = fdt.held
    /\ \A fd \in fdt.held : fd <= fdt.max

\* While some descriptor holds a device for itself, no further descriptor
\* of that device comes into being.
NoNewFdOnLocked ==
    \A fd \in Fds :
        (fdt.list[fd].dev = "none" /\ fdt'.list[fd].dev # "none") =>
            ~\E h \in Fds : /\ fdt.list[h].excl
                            /\ fdt.list[h].dev = fdt'.list[fd].dev
=============================================================================
