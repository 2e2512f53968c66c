-------------------------------- MODULE Hal --------------------------------
(***************************************************************************)
(* The Altera HAL put together: boot in the order of alt_main and          *)
(* alt_sys_init, the interrupt dispatcher, the devices behind file         *)
(* descriptors, the system clock with the JTAG UART's time-out among its   *)
(* alarms, the heap, and one application thread that makes the calls.      *)
(*                                                                         *)
(* The thread runs only while no interrupt is pending; devices, the host   *)
(* and the wire move at any time.                                          *)
(***************************************************************************)
EXTENDS HalDrivers, HalLib

CONSTANTS
    HeapStart,   \* __alt_heap_start
    HeapLimit    \* __alt_heap_limit

VARIABLES
    irq,      \* processor interrupt state: pie, and the enabled sources
    boot,     \* how far alt_main has come
    heap,     \* heap_end; blocks is history
    closing   \* the descriptor an unfinished close is about

libs == <<libVars, ff>>
sysVars == <<irq, boot, heap, closing, libs>>
halVars == <<tickVars, jtagVars, uartVars, fdt, sp, pf, sysVars>>

HalInit ==
    /\ TickInit /\ JtagInit /\ UartInit /\ FileInit /\ SpiInit /\ PerfInit
    /\ LibInit /\ FifoInit
    /\ irq = [pie |-> FALSE, ien |-> {}]
    /\ boot = "load"
    /\ heap = [end |-> HeapStart, blocks |-> <<>>]
    /\ closing = NoFd

----------------------------------------------------------------------------
\* Interrupts.  The source with the lowest number goes first: JTAG UART 0,
\* UART 1, timer 2.
Asserted == {s \in {"jtag", "uart", "timer"} :
                \/ s = "jtag" /\ JtagIrq
                \/ s = "uart" /\ UartIrq
                \/ s = "timer" /\ clk.to}

Pending == IF irq.pie THEN irq.ien \cap Asserted ELSE {}

\* alt_ic_isr_register: the handler is set and its source enabled in one
\* region with interrupts off.
Registered(s) == irq' = [irq EXCEPT !.ien = @ \cup {s}]

JtagInterrupt ==
    /\ "jtag" \in Pending
    /\ altera_avalon_jtag_uart_irq
    /\ UNCHANGED <<tickVars, uartVars, fdt, sp, pf, sysVars>>

UartInterrupt ==
    /\ "uart" \in Pending /\ "jtag" \notin Pending
    /\ altera_avalon_uart_irq
    /\ UNCHANGED <<tickVars, jtagVars, fdt, sp, pf, sysVars>>

\* alt_avalon_timer_sc_irq: acknowledge, then alt_tick; the JTAG UART's
\* callback asks to be called again in a second, an application's alarm
\* returns what it likes.
TimerInterrupt(again) ==
    /\ Pending = {"timer"}
    /\ alt_tick([a \in Alarms |-> IF a = "jtag" THEN clk.rate ELSE again])
    /\ jt' = IF "jtag" \in Fired THEN altera_avalon_jtag_uart_timeout(jt) ELSE jt
    /\ UNCHANGED <<jc, host, uartVars, fdt, sp, pf, sysVars>>

----------------------------------------------------------------------------
\* Boot, one initialisation at a time; a source enabled by one step can
\* interrupt before the next.
\* crt0 loads the sections before alt_main runs.
BootLoad ==
    /\ boot = "load"
    /\ alt_load
    /\ boot' = IF Loaded' THEN "reset" ELSE "load"
    /\ UNCHANGED <<tickVars, jtagVars, uartVars, fdt, sp, pf, irq, heap, closing, ff>>

BootIrq ==
    /\ boot = "reset"
    /\ irq' = [pie |-> TRUE, ien |-> {}]
    /\ boot' = "timer"
    /\ UNCHANGED <<tickVars, jtagVars, uartVars, fdt, sp, pf, heap, closing, libs>>

BootTimer ==
    /\ boot = "timer"
    /\ alt_avalon_timer_sc_init
    /\ Registered("timer")
    /\ boot' = "jtag"
    /\ UNCHANGED <<jtagVars, uartVars, fdt, sp, pf, heap, closing, libs>>

BootJtag ==
    /\ boot = "jtag"
    /\ altera_avalon_jtag_uart_init(clk.rate # 0)
    /\ alt_alarm_start("jtag", clk.rate)
    /\ alt_dev_reg("jtag")
    /\ Registered("jtag")
    /\ boot' = "uart"
    /\ UNCHANGED <<clk, tod, uartVars, sp, pf, heap, closing, libs>>

BootUart ==
    /\ boot = "uart"
    /\ altera_avalon_uart_init
    /\ alt_dev_reg("uart")
    /\ Registered("uart")
    /\ boot' = "redirect"
    /\ UNCHANGED <<tickVars, jtagVars, sp, pf, heap, closing, libs>>

BootRedirect ==
    /\ boot = "redirect"
    /\ alt_io_redirect("uart", "uart", "jtag")
    /\ boot' = "main"
    /\ UNCHANGED <<tickVars, jtagVars, uartVars, sp, pf, irq, heap, closing, libs>>

Boot ==
    /\ Pending = {}
    /\ BootLoad \/ BootIrq \/ BootTimer \/ BootJtag \/ BootUart \/ BootRedirect

----------------------------------------------------------------------------
\* The application's calls.
Ready ==
    /\ boot = "main" /\ Pending = {}
    /\ jc.op = "idle" /\ uc.op = "idle" /\ sp.pc = "idle" /\ pf.pc = "idle"
    /\ sl.pc = "idle" /\ pr.pc = "idle" /\ ff.pc = "idle"
    /\ closing = NoFd

Open(d, acc, nb) ==
    /\ Ready
    /\ alt_open(d, acc, nb)
    /\ UNCHANGED <<tickVars, jtagVars, uartVars, sp, pf, sysVars>>

InUse(fd) == fd < 3 \/ fd \in fdt.held

\* Start op on the driver of d.
DriverCall(d, op, n, nb) ==
    \/ d = "jtag" /\ JCall(op, n, nb) /\ UNCHANGED uartVars
    \/ d = "uart" /\ UCall(op, n, nb) /\ UNCHANGED jtagVars
    \/ d = "null" /\ UNCHANGED <<jtagVars, uartVars>>

\* ALT_READ and ALT_WRITE: the access mode is checked, the driver gets the
\* descriptor's flags.
Transfer(fd, op, n) ==
    /\ Ready /\ InUse(fd)
    /\ IF IF op = "read" THEN MayRead(fd) ELSE MayWrite(fd)
       THEN /\ DriverCall(fdt.list[fd].dev, op, n, fdt.list[fd].nb)
            /\ UNCHANGED fdt
       ELSE /\ alt_refuse("EACCES")
            /\ UNCHANGED <<jtagVars, uartVars>>
    /\ UNCHANGED <<tickVars, sp, pf, sysVars>>

\* ALT_CLOSE first calls the device's close, which may wait.  alt_main
\* closes standard output when main has returned; then _exit spins.
ALT_EXIT(returned) == IF returned THEN "exit" ELSE boot

Close(fd, returned) ==
    /\ Ready /\ InUse(fd)
    /\ returned => fd = 1
    /\ DriverCall(fdt.list[fd].dev, "close", 0, fdt.list[fd].nb)
    /\ closing' = fd
    /\ boot' = ALT_EXIT(returned)
    /\ UNCHANGED <<tickVars, fdt, sp, pf, irq, heap, libs>>

CloseDone ==
    /\ closing # NoFd /\ Pending = {}
    /\ jc.op = "idle" /\ uc.op = "idle"
    /\ FdClosed(closing)
    /\ closing' = NoFd
    /\ UNCHANGED <<tickVars, jtagVars, uartVars, sp, pf, irq, boot, heap, libs>>

\* ALT_FCNTL and ALT_IOCTL.
SetFlags(fd, nb) ==
    /\ Ready /\ InUse(fd)
    /\ alt_fcntl(fd, nb)
    /\ UNCHANGED <<tickVars, jtagVars, uartVars, sp, pf, sysVars>>

Lock(fd, on) ==
    /\ Ready /\ InUse(fd)
    /\ IF on THEN alt_fd_lock(fd) ELSE alt_fd_unlock(fd)
    /\ UNCHANGED <<tickVars, jtagVars, uartVars, sp, pf, sysVars>>

SetTimeout(fd, t) ==
    /\ Ready /\ InUse(fd) /\ fdt.list[fd].dev = "jtag"
    /\ JSetTimeout(t)
    /\ UNCHANGED <<tickVars, uartVars, fdt, sp, pf, sysVars>>

AlarmStart(a, n) ==
    /\ Ready /\ a \notin Listed
    /\ alt_alarm_start(a, n)
    /\ UNCHANGED <<clk, tod, jtagVars, uartVars, fdt, sp, pf, sysVars>>

AlarmStop(a) ==
    /\ Ready
    /\ alt_alarm_stop(a)
    /\ UNCHANGED <<clk, tod, jtagVars, uartVars, fdt, sp, pf, sysVars>>

SetTime(t) ==
    /\ Ready
    /\ settimeofday(t)
    /\ UNCHANGED <<jtagVars, uartVars, fdt, sp, pf, sysVars>>

SpiCommand(w, r, merge) ==
    /\ Ready
    /\ alt_avalon_spi_command(w, r, merge)
    /\ UNCHANGED <<tickVars, jtagVars, uartVars, fdt, pf, sysVars>>

PerfCall(op, s) ==
    /\ Ready
    /\ \/ op = "begin" /\ PERF_BEGIN(s)
       \/ op = "end" /\ PERF_END(s)
       \/ op = "reset" /\ PERF_RESET
       \/ op = "report" /\ perf_print_formatted_report
    /\ UNCHANGED <<tickVars, jtagVars, uartVars, fdt, sp, sysVars>>

\* Calls answered by the HAL itself.
Query(call, fd) ==
    /\ Ready /\ (fd >= 0 => InUse(fd))
    /\ \/ call = "fstat" /\ alt_fstat(fd)
       \/ call = "isatty" /\ alt_isatty(fd)
       \/ call = "lseek" /\ alt_lseek(fd)
    /\ UNCHANGED <<tickVars, jtagVars, uartVars, sp, pf, sysVars>>

Stub ==
    /\ Ready
    /\ alt_execve \/ alt_fork \/ alt_link \/ alt_rename \/ alt_unlink \/ alt_wait
    /\ UNCHANGED <<tickVars, jtagVars, uartVars, sp, pf, sysVars>>

\* ALT_STAT opens the device, asks and closes it again; a name that cannot
\* be opened ends with fstat's complaint about the descriptor.
Stat(d) ==
    /\ Ready
    /\ LET o == Opened(fdt, d, "r", FALSE)
       IN  IF o.fd = NoFd
           THEN /\ alt_refuse("EBADFD")
                /\ UNCHANGED <<jtagVars, uartVars, closing>>
           ELSE /\ fdt' = [o.t EXCEPT !.held = @ \cup {o.fd}]
                /\ DriverCall(d, "close", 0, FALSE)
                /\ closing' = o.fd
    /\ UNCHANGED <<tickVars, sp, pf, irq, boot, heap, libs>>

\* ALT_TIMES has no answer without a system clock.
Times ==
    /\ Ready
    /\ IF clk.rate = 0 THEN alt_refuse("ENOSYS") ELSE UNCHANGED fdt
    /\ UNCHANGED <<tickVars, jtagVars, uartVars, sp, pf, sysVars>>

Terminating == {"SIGABRT", "SIGKILL", "SIGTERM", "SIGSEGV"}
Ignored == {"0", "SIGCHLD", "SIGURG"}

\* ALT_KILL: there is one process; a signal that ends it ends in _exit at
\* once, without closing anything.
Kill(pid, sig) ==
    /\ Ready
    /\ \/ /\ pid <= 0 /\ sig \in Terminating
          /\ boot' = ALT_EXIT(TRUE) /\ UNCHANGED fdt
       \/ /\ pid <= 0 /\ sig \in Ignored /\ UNCHANGED <<fdt, boot>>
       \/ /\ pid <= 0 /\ sig \notin Terminating \cup Ignored
          /\ alt_refuse("EINVAL") /\ UNCHANGED boot
       \/ pid > 0 /\ alt_refuse("ESRCH") /\ UNCHANGED boot
    /\ UNCHANGED <<tickVars, jtagVars, uartVars, sp, pf, irq, heap, closing, libs>>

Usleep(us) ==
    /\ Ready
    /\ alt_busy_sleep(us)
    /\ UNCHANGED <<tickVars, jtagVars, uartVars, fdt, sp, pf, irq, boot, heap, closing,
                   ld, pr, fslist, ff>>

Printf(fmt) ==
    /\ Ready
    /\ alt_printf(fmt)
    /\ UNCHANGED <<tickVars, jtagVars, uartVars, fdt, sp, pf, irq, boot, heap, closing,
                   ld, sl, fslist, ff>>

RegisterFs(mount) ==
    /\ Ready
    /\ alt_fs_reg(mount)
    /\ UNCHANGED <<tickVars, jtagVars, uartVars, fdt, sp, pf, irq, boot, heap, closing,
                   ld, sl, pr, ff>>

FifoCall(call) ==
    /\ Ready
    /\ \/ call = "init" /\ altera_avalon_fifo_init
       \/ call = "write" /\ altera_avalon_fifo_write_fifo
       \/ call = "read" /\ altera_avalon_read_fifo
       \/ call = "take" /\ altera_avalon_fifo_read_fifo
    /\ UNCHANGED <<tickVars, jtagVars, uartVars, fdt, sp, pf, irq, boot, heap, closing,
                   libVars>>

\* ALT_SBRK: the end is rounded up to a word even when the request is then
\* refused; a negative increment gives memory back.
WordUp(x) == 4 * ((x + 3) \div 4)

Trimmed(b, end) == [b EXCEPT !.hi = IF @ > end THEN end ELSE @]

sbrk(incr) ==
    /\ Ready
    /\ LET from == WordUp(heap.end)
           to   == from + incr
       IN  heap' = IF to > HeapLimit THEN [heap EXCEPT !.end = from]
                   ELSE IF incr >= 0
                   THEN [end |-> to,
                         blocks |-> Append(heap.blocks, [lo |-> from, hi |-> to])]
                   ELSE [end |-> to,
                         blocks |-> [i \in DOMAIN heap.blocks |->
                                        Trimmed(heap.blocks[i], to)]]
    /\ UNCHANGED <<tickVars, jtagVars, uartVars, fdt, sp, pf, irq, boot, closing, libs>>

----------------------------------------------------------------------------
\* The thread inside a driver, and everything that moves by itself.
Thread ==
    /\ Pending = {}
    /\ \/ JtagThread /\ UNCHANGED <<uartVars, sp, pf>>
       \/ UartThread /\ UNCHANGED <<jtagVars, sp, pf>>
       \/ SpiThread /\ UNCHANGED <<jtagVars, uartVars, pf>>
       \/ PerfThread /\ UNCHANGED <<jtagVars, uartVars, sp>>
    /\ UNCHANGED <<tickVars, fdt, sysVars>>

\* The thread inside one of the library's loops or the FIFO driver.
LibThread(v, str) ==
    /\ Pending = {}
    /\ SleepStep \/ PrintStep(v, str)
    /\ UNCHANGED <<tickVars, jtagVars, uartVars, fdt, sp, pf, irq, boot, heap, closing, ff>>

FifoDriver ==
    /\ Pending = {}
    /\ FifoThread
    /\ UNCHANGED <<tickVars, jtagVars, uartVars, fdt, sp, pf, irq, boot, heap, closing,
                   libVars>>

FifoActs ==
    /\ FifoHardware
    /\ UNCHANGED <<tickVars, jtagVars, uartVars, fdt, sp, pf, irq, boot, heap, closing,
                   libVars>>

TimerMoves ==
    /\ TimerExpires /\ ~clk.to
    /\ UNCHANGED <<jtagVars, uartVars, fdt, sp, pf, sysVars>>

HostActs ==
    /\ HostSends \/ HostPauses \/ HostTakes \/ HostPolls \/ HostMoves
    /\ UNCHANGED <<tickVars, uartVars, fdt, sp, pf, sysVars>>

WireActs ==
    /\ TxShift \/ WireOut \/ \E err \in BOOLEAN : WireIn(err)
    /\ UNCHANGED <<tickVars, jtagVars, fdt, sp, pf, sysVars>>

SpiActs ==
    /\ SpiShifts
    /\ UNCHANGED <<tickVars, jtagVars, uartVars, fdt, pf, sysVars>>

PerfActs ==
    /\ PerfClock
    /\ UNCHANGED <<tickVars, jtagVars, uartVars, fdt, sp, sysVars>>

----------------------------------------------------------------------------
HalTypeOK ==
    /\ TickTypeOK /\ JtagTypeOK /\ UartTypeOK /\ FileTypeOK
    /\ LibTypeOK /\ FifoTypeOK
    /\ irq.ien \subseteq {"jtag", "uart", "timer"}
    /\ boot \in {"load", "reset", "timer", "jtag", "uart", "redirect", "main", "exit"}

\* After boot, and whatever the application closes, standard input and
\* output are the UART and standard error the JTAG UART, with an alarm that
\* keeps watching for a host that went away.
StdioAndWatchdog ==
    (boot \in {"main", "exit"}) =>
        /\ fdt.list[0].dev = "uart" /\ fdt.list[0].acc = "r"
        /\ fdt.list[1].dev = "uart" /\ fdt.list[1].acc = "w"
        /\ fdt.list[2].dev = "jtag" /\ fdt.list[2].acc = "w"
        /\ "jtag" \in Listed /\ jt.timeout # JNever

\* Memory given out by sbrk starts on a word, lies inside the heap, below
\* its end, and never overlaps other memory still given out.
HeapBlocksApart ==
    LET b == heap.blocks
    IN  /\ \A i \in DOMAIN b : /\ b[i].lo % 4 = 0
                               /\ b[i].lo >= HeapStart /\ b[i].hi <= HeapLimit
                               /\ b[i].hi <= heap.end
        /\ \A i, j \in DOMAIN b :
              (i < j /\ b[i].lo < b[i].hi /\ b[j].lo < b[j].hi) =>
                  b[i].hi <= b[j].lo

\* A thread that entered a driver comes out again: a blocking write to the
\* JTAG UART returns even if the host has gone, unless the time-out was set
\* to never, one to the UART because the wire drains, an SPI command because every byte sent brings one back.
CallsReturn ==
    (\/ jc.op = "write" /\ jt.timeout < JNever - 1
     \/ uc.op = "write" \/ sp.pc # "idle") ~>
        (jc.op = "idle" /\ uc.op = "idle" /\ sp.pc = "idle")

\* Alarms fire in the tick they were set for, across the wrap of the counter; the
\* time of day is the time that was set plus every tick since, until the counter
\* wraps; and a busy wait is never shorter than asked, and hardly longer unless
\* the time is a multiple of the longest loop (alt_tick, alt_settod,
\* alt_busy_sleep).
TimeKept == AlarmsOnTime /\ ClockKeepsTime /\ SleepAsLongAsAsked

\* No byte is lost, doubled or reordered in the rings and FIFOs of the devices,
\* but for what the UART receives: those bytes are in order, and may be lost.  No
\* driver goes deaf while there is room (JTAG UART, UART, SPI and FIFO drivers).
BytesKept == /\ JtagReceivesAll /\ JtagSendsAll /\ JtagNotDeaf
             /\ UartSendsAll /\ UartRxOrder /\ UartNotDeaf
             /\ SpiExchange /\ FifoKeepsWords /\ FifoLevelCounts

\* What the HAL keeps for the program is sound: sections where they were
\* linked, standard descriptors after boot, no descriptor leaked, no memory given
\* out twice, paths, numbers and reports true (alt_load, alt_open, alt_sbrk,
\* alt_find_file, alt_printf, perf_print_formatted_report).
HalInv == /\ HalTypeOK /\ LoadedInPlace /\ StdioAndWatchdog /\ FdsAccounted
          /\ HeapBlocksApart /\ PathsGoToTheirMount /\ HexReadsBack /\ PerfReportSound
============================================================================
