------------------------------- MODULE MCHal -------------------------------
(***************************************************************************)
(* The HAL for TLC.  In every behaviour the application uses one part of   *)
(* it, chosen at the start, and the devices of the other parts are quiet:  *)
(* the parts meet only in boot, in the dispatcher and in the descriptor    *)
(* table.  Calls are counted to bound them.                                *)
(***************************************************************************)
EXTENDS Hal, HalIrq

CONSTANTS MaxCalls, MaxHeapCalls

VARIABLES focus, calls

mcVars == <<halVars, focus, calls, cpu>>
kept == <<focus, calls, cpu>>

Foci == {"jrx", "jtx", "uart", "file", "time", "heap", "spi", "perf",
         "calls", "sleep", "print", "fs", "fifo", "irq"}

MCLayout == <<[from |-> 0, to |-> 8, end |-> 10],
              [from |-> 12, to |-> 12, end |-> 14],
              [from |-> 2, to |-> 5, end |-> 8]>>

MCInit ==
    /\ HalInit
    /\ focus \in Foci
    /\ focus # "fifo" => ff.side = "write"
    /\ calls = 0
    /\ IrqInit
    /\ focus # "irq" => cpu.ienable = {}

TimesSet == {[sec |-> 0, usec |-> 0], [sec |-> 2, usec |-> Usec - 1]}

\* What the application of each behaviour calls.  The JTAG UART is used
\* twice: mostly receiving from a host that stays, and mostly sending to a
\* host that comes and goes while the clock runs (configure, write, close).
Transfers ==
    CASE focus = "jrx" -> ({2, 3} \X {"read"} \X {1, JBuf}) \cup {<<2, "write", 1>>}
      [] focus = "jtx" /\ calls = 1 -> {<<2, "write", JBuf + JDepth>>}
      [] focus = "uart" -> ({0} \X {"read"} \X {1, UBuf})
                              \cup ({1} \X {"write"} \X {1, UBuf})
      [] focus = "file" -> {fd \in Fds : fdt.list[fd].dev = "null"}
                              \X {"read", "write"} \X {1}
      [] OTHER -> {}

Closes ==
    CASE focus = "jrx" -> fdt.held \X {FALSE}
      [] focus = "jtx" /\ calls = 2 -> {<<2, FALSE>>}
      [] focus = "uart" -> {<<1, TRUE>>}
      [] focus = "file" -> Fds \X BOOLEAN
      [] OTHER -> {}

Opens ==
    CASE focus = "jrx" /\ fdt.held = {} -> {<<"jtag", "rw">>}
      [] focus = "file" -> (Devices \cup {"null", "other"}) \X {"r", "rw"}
      [] OTHER -> {}

Flags ==
    CASE focus = "jrx" -> fdt.held \X BOOLEAN
      [] focus = "jtx" /\ calls = 0 -> {<<2, TRUE>>}
      [] focus = "uart" -> {0, 1} \X {TRUE}
      [] OTHER -> {}

FileCall ==
    \/ \E t \in Transfers : Transfer(t[1], t[2], t[3])
    \/ \E c \in Closes : Close(c[1], c[2])
    \/ \E o \in Opens : Open(o[1], o[2], FALSE)
    \/ \E f \in Flags : SetFlags(f[1], f[2])
    \/ focus = "file" /\ \E fd \in Fds, on \in BOOLEAN : Lock(fd, on)
    \/ focus = "jtx" /\ calls = 0 /\ \E t \in {1, JTimeout + 1} : SetTimeout(2, t)

TimeApp ==
    \/ \E n \in {0, TickRate + 1, TickMod - 2} : AlarmStart("app", n)
    \/ AlarmStop("app")
    \/ \E t \in TimesSet : SetTime(t)

SpiApp == \E w, r \in 0..3, merge \in BOOLEAN : SpiCommand(w, r, merge)

PerfApp ==
    \E op \in {"begin", "end", "reset", "report"}, s \in Sects :
        /\ op \in {"reset", "report"} => s = 0
        /\ PerfCall(op, s)

\* Only what was given out last is given back, in whole words.
HeapApp ==
    \E n \in -4..8 :
        /\ n \in {0, 1, 5, 8} \cup -4..-1
        /\ n < 0 => /\ heap.blocks # <<>> /\ heap.end = WordUp(heap.end)
                    /\ heap.end = Last(heap.blocks).hi
                    /\ Last(heap.blocks).hi - Last(heap.blocks).lo >= 0 - n
        /\ sbrk(n)

CallsApp ==
    \/ \E fd \in {NoFd, 0, 2}, c \in {"fstat", "isatty", "lseek"} : Query(c, fd)
    \/ Stub \/ Times
    \/ \E d \in {"jtag", "uart", "null", "other"} : Stat(d)
    \/ \E pid \in {0, 1}, sig \in {"0", "SIGTERM", "SIGUNKNOWN"} : Kill(pid, sig)

Formats == {<<"%", "x">>, <<"%", "x", "a", "%", "x">>, <<"%", "c", "%">>,
            <<"%", "%", "x">>, <<"%", "s", "a">>, <<"%", "a", "%", "x">>}

Values == {0, 1, HexBase, HexBase + 1, HexBase^(HexDigits - 1), HexBase^HexDigits - 1}

Mounts == {<<"/", "m">>, <<"/", "m", "/">>, <<"/", "x">>, <<"/">>}

LibApp ==
    \/ focus = "sleep" /\ \E us \in 0..(3 * BigSpan) : Usleep(us)
    \/ focus = "print" /\ \E fmt \in Formats : Printf(fmt)
    \/ focus = "fs" /\ \E m \in Mounts : RegisterFs(m)
    \/ focus = "fifo" /\ \E c \in {"init", "write", "read", "take"} : FifoCall(c)

MayCall ==
    CASE focus = "jrx" -> calls < MaxCalls + 3
      [] focus = "jtx" -> calls < 3
      [] focus \in {"uart", "spi", "calls"} -> calls < MaxCalls
      [] focus = "perf" -> calls < 2 * MaxCalls
      [] focus \in {"sleep", "print"} -> calls < 1
      [] focus = "fs" -> calls < 3
      [] focus = "heap" -> calls < MaxHeapCalls
      [] OTHER -> TRUE

App ==
    /\ MayCall
    /\ \/ FileCall
       \/ focus = "time" /\ TimeApp
       \/ focus = "spi" /\ SpiApp
       \/ focus = "perf" /\ PerfApp
       \/ focus = "heap" /\ HeapApp
       \/ focus = "calls" /\ CallsApp
       \/ LibApp

Counted == focus \notin {"file", "time", "fifo"}

TakeInterrupt ==
    \/ JtagInterrupt \/ UartInterrupt
    \/ \E again \in {0, 2} : TimerInterrupt(again)

Devs ==
    \/ /\ focus \in {"jrx", "jtx"} /\ boot = "main" /\ HostActs
       /\ IF focus = "jrx" THEN host'.here ELSE host'.told = 0
    \/ focus \in {"jtx", "time"} /\ TimerMoves /\ (focus = "jtx" => boot = "main")
    \/ focus = "uart" /\ WireActs
    \/ focus = "spi" /\ SpiActs
    \/ focus = "perf" /\ PerfActs
    \/ focus = "fifo" /\ boot = "main" /\ FifoActs

Library == FifoDriver \/ \E v \in Values : LibThread(v, <<"a", "b">>)

MCNext ==
    \/ App /\ calls' = (IF Counted THEN calls + 1 ELSE calls) /\ UNCHANGED <<focus, cpu>>
    \/ focus = "irq" /\ IrqNext /\ UNCHANGED <<halVars, focus, calls>>
    \/ (Boot \/ Thread \/ Library \/ CloseDone \/ TakeInterrupt \/ Devs)
       /\ focus # "irq" /\ UNCHANGED kept

\* Interrupts are served and leave the thread time between them (a handler
\* is shorter than the period of its source); the timer ticks, the wire,
\* the SPI core and a host that is there do their work.  Nothing says the
\* application calls again, that bytes arrive or that the host stays or
\* comes back.
DevicesWork ==
    \/ focus \in {"jrx", "jtx"} /\ boot = "main" /\ HostTakes
       /\ UNCHANGED <<tickVars, uartVars, fdt, sp, pf, sysVars, kept>>
    \/ focus = "uart" /\ (TxShift \/ WireOut)
       /\ UNCHANGED <<tickVars, jtagVars, fdt, sp, pf, sysVars, kept>>
    \/ focus = "spi" /\ SpiActs /\ UNCHANGED kept

MCFairness ==
    /\ WF_mcVars(TakeInterrupt /\ UNCHANGED kept)
    /\ SF_mcVars((Thread \/ CloseDone) /\ UNCHANGED kept)
    /\ WF_mcVars(focus = "jtx" /\ boot = "main" /\ TimerMoves
                 /\ UNCHANGED kept)
    /\ WF_mcVars(DevicesWork)

MCSpec == MCInit /\ [][MCNext]_mcVars /\ MCFairness

\* No step gives out a further descriptor of a device that some descriptor has
\* locked for itself (alt_open and alt_fd_lock, see NoNewFdOnLocked).
LocksHold == [][NoNewFdOnLocked]_mcVars
============================================================================
