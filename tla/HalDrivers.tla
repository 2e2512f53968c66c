----------------------------- MODULE HalDrivers -----------------------------
(***************************************************************************)
(* The system clock and the device drivers of the Altera HAL, each with    *)
(* the device it drives: the timer, which keeps the ticks and the alarms,  *)
(* the JTAG UART and the UART, which are driven by interrupts, and the     *)
(* SPI core, the performance counter and the FIFO, which are polled.       *)
(***************************************************************************)
EXTENDS Naturals, Integers, Sequences, SequencesExt, FiniteSetsExt

(***************************************************************************)
(* The system clock of the Altera HAL: the tick counter, the list of       *)
(* alarms that alt_tick walks on every timer interrupt, and the time of    *)
(* day kept as an offset from the tick counter.                            *)
(*                                                                         *)
(* Ticks are alt_u32 in the code; here they count modulo TickMod so that   *)
(* a model runs through the wrap.  "due" and "off" are history: how many   *)
(* ticks an alarm still has to wait, counted without any wrap, and by how  *)
(* much its last call missed that.                                         *)
(***************************************************************************)
CONSTANTS
    Alarms,      \* the alt_alarm structures of the program
    TickMod,     \* 2^32 in the code
    TickRate,    \* ticks of the system clock per second
    Usec         \* ALT_US: sub-second units in a second

ASSUME TickAssumption ==
    /\ TickMod \in Nat \ {0}
    /\ TickRate \in Nat \ {0}
    /\ Usec \in Nat \ {0}

VARIABLES
    clk,     \* the timer and the tick counter
    alarm,   \* the alarm structures
    alist,   \* alt_alarm_list, head first
    tod      \* alt_resettime, and history of the last settimeofday

tickVars == <<clk, alarm, alist, tod>>

NoTime == [sec |-> 0, usec |-> 0]

TickInit ==
    /\ clk = [nticks |-> 0, rate |-> 0, on |-> FALSE, to |-> FALSE]
    /\ alarm = [a \in Alarms |-> [time |-> 0, rollover |-> FALSE,
                                  due |-> 0, off |-> 0]]
    /\ alist = <<>>
    /\ tod = [reset |-> NoTime, set |-> NoTime, at |-> 0, ticks |-> 0, valid |-> FALSE]

Listed == ToSet(alist)

----------------------------------------------------------------------------
\* The time an alarm started now with n ticks gets, and whether it has
\* wrapped past the counter.
StartTime(n) == (n + clk.nticks + 1) % TickMod

\* alt_alarm_start: the alarm goes to the head of the list.  The refusal
\* (-ENOTSUP) while there is no system clock is never met: the timer comes
\* first in alt_sys_init.
alt_alarm_start(a, n) ==
    /\ clk.rate # 0
    /\ alarm' = [alarm EXCEPT ![a] =
            [time |-> StartTime(n),
             rollover |-> StartTime(n) < clk.nticks,
             due |-> n + 1, off |-> 0]]
    /\ alist' = <<a>> \o alist

\* alt_llist_remove of the alarms in R, harmless for one not in the list.
Unlinked(s, R) ==
    LET rest[i \in 0..Len(s)] ==
            IF i = 0 THEN <<>>
            ELSE IF s[i] \in R THEN rest[i - 1] ELSE Append(rest[i - 1], s[i])
    IN  rest[Len(s)]

alt_alarm_stop(a) ==
    /\ alist' = Unlinked(alist, {a})
    /\ UNCHANGED alarm

----------------------------------------------------------------------------
\* Mutant: the roll-over flag is not looked at.
RolledIgnored(al, now) == FALSE

\* What alt_tick does to one alarm once the counter stands at now; next is
\* what its callback returns if it is called.
Rolled(al, now) == al.rollover /\ now # 0

Fires(al, now) == al.time <= now /\ ~Rolled(al, now)

Rearmed(al, now, next) ==
    LET t == (al.time + next) % TickMod
    IN  [time |-> t,
         rollover |-> t < now,
         due |-> next,
         off |-> al.due - 1]

Ticked(al, now, next) ==
    IF Fires(al, now)
    THEN Rearmed(al, now, next)
    ELSE [al EXCEPT !.rollover = Rolled(al, now), !.due = @ - 1]

NowTick == (clk.nticks + 1) % TickMod

Fired == {a \in Listed : Fires(alarm[a], NowTick)}

\* alt_tick: the counter advances, every due alarm is called, and one whose
\* callback returns 0 leaves the list.  next[a] is what a's callback
\* returns.  The history counts the ticks since the time was set; unlike the
\* counter it does not wrap, it stops at TickMod.
alt_tick(next) ==
    /\ clk' = [clk EXCEPT !.nticks = NowTick, !.to = FALSE]
    /\ tod' = [tod EXCEPT !.ticks = IF tod.valid /\ @ < TickMod THEN @ + 1 ELSE @]
    /\ alarm' = [a \in Alarms |->
          IF a \in Listed THEN Ticked(alarm[a], NowTick, next[a])
                          ELSE alarm[a]]
    /\ alist' = Unlinked(alist, {a \in Fired : next[a] = 0})

\* The hardware timer reaches zero and reloads.
TimerExpires ==
    /\ clk.on
    /\ clk' = [clk EXCEPT !.to = TRUE]
    /\ UNCHANGED <<alarm, alist, tod>>

\* alt_avalon_timer_sc_init: alt_sysclk_init takes the rate only once, the
\* timer starts in continuous mode with its interrupt on.
alt_avalon_timer_sc_init ==
    /\ clk' = [clk EXCEPT !.rate = IF @ = 0 THEN TickRate ELSE @,
                          !.on = TRUE]
    /\ UNCHANGED <<alarm, alist, tod>>

----------------------------------------------------------------------------
\* Time of day.
SubSecond(n) == (n * (Usec \div clk.rate)) % Usec

\* alt_settod computes the same product in 32 bits.
SubSecond32(n) == ((n * (Usec \div clk.rate)) % TickMod) % Usec

\* The two loops of gettimeofday that bring the sub-second part into range;
\* a negative time becomes zero.
Normal(sec, usec) ==
    IF usec < 0
    THEN IF sec <= 0 THEN NoTime
                     ELSE [sec |-> sec - 1, usec |-> usec + Usec]
    ELSE [sec |-> sec + usec \div Usec, usec |-> usec % Usec]

gettimeofday ==
    Normal(tod.reset.sec + clk.nticks \div clk.rate,
           tod.reset.usec + SubSecond(clk.nticks))

settimeofday(t) ==
    /\ clk.rate # 0
    /\ tod' = [reset |-> [sec |-> t.sec - clk.nticks \div clk.rate,
                          usec |-> t.usec - SubSecond32(clk.nticks)],
               set |-> t, at |-> clk.nticks, ticks |-> 0, valid |-> TRUE]
    /\ UNCHANGED <<clk, alarm, alist>>

----------------------------------------------------------------------------
TickTypeOK ==
    /\ clk \in [nticks : 0..(TickMod - 1), rate : {0, TickRate},
                on : BOOLEAN, to : BOOLEAN]
    /\ \A a \in Alarms : alarm[a].time \in 0..(TickMod - 1)
    /\ IsInjective(alist) /\ Listed \subseteq Alarms

\* Every alarm of the list is called exactly when the ticks asked for have
\* passed: never early, never skipped, across the wrap of the counter and
\* through its rollover flag.
AlarmsOnTime ==
    \A a \in Listed : alarm[a].due >= 1 /\ alarm[a].off = 0

\* The time of day that was promised, in sub-second units: the time that was
\* set and every tick since.
UnitsPromised ==
    tod.set.sec * Usec + tod.set.usec + tod.ticks * (Usec \div clk.rate)

\* The counter has not wrapped since the time was set.
NotWrapped == tod.at + tod.ticks < TickMod

\* The time of day is the time that was set plus every tick since, until the
\* counter wraps for the first time after it was set, and provided the 32-bit
\* product of settimeofday did not overflow when it was set.  With the wrap
\* gettimeofday falls back by the range of the counter (nticks/tick_rate).
ClockKeepsTime ==
    (/\ tod.valid /\ clk.rate # 0
     /\ NotWrapped
     /\ tod.at * (Usec \div clk.rate) < TickMod)
    => gettimeofday.sec * Usec + gettimeofday.usec = UnitsPromised

-----------------------------------------------------------------------------
(***************************************************************************)
(* The JTAG UART: the device with its two hardware FIFOs, the interrupt    *)
(* driven driver with its two ring buffers, and the host computer at the   *)
(* other end of the cable, which may go away and come back.                *)
(*                                                                         *)
(* Interrupts can come between any two steps of a read or a write; the     *)
(* regions the code runs with interrupts off are one step.  Bytes are      *)
(* numbered in the order they are sent.  rxlog, accepted and sent are      *)
(* history.                                                                *)
(***************************************************************************)
CONSTANTS
    JBuf,          \* ALTERA_AVALON_JTAG_UART_BUF_LEN
    JDepth,        \* depth of the hardware FIFOs
    JReadMark,     \* receive FIFO asks for service at this many free places
    JWriteMark,    \* transmit FIFO asks for service at this many bytes used
    JTimeout,      \* ALTERA_AVALON_JTAG_UART_DEFAULT_TIMEOUT, in alarms
    JNever,        \* stands for INT_MAX, larger than every count
    MaxHostBytes,  \* bound: bytes the host sends
    MaxHostMoves   \* bound: times the host goes away or comes back

ASSUME JtagAssumption ==
    /\ JBuf \in Nat \ {0, 1}
    /\ JDepth \in Nat \ {0} /\ JReadMark \in Nat /\ JWriteMark \in Nat
    /\ JTimeout \in Nat /\ JNever \in Nat /\ JTimeout < JNever

VARIABLES
    jt,    \* device and driver state
    jc,    \* the call in progress: its program counter and locals
    host   \* the host computer

jtagVars == <<jt, jc, host>>

JIdle == [op |-> "idle", pc |-> "ret", in |-> 0, out |-> 0, left |-> 0,
          done |-> 0, nb |-> FALSE, ret |-> "none"]

JtagInit ==
    /\ jt = [rfifo |-> <<>>, wfifo |-> <<>>, pause |-> FALSE, ac |-> FALSE,
             re |-> FALSE, we |-> FALSE,
             irq_enable |-> {}, host_inactive |-> 0, timeout |-> JTimeout,
             rx_buf |-> [i \in 0..(JBuf - 1) |-> 0], rx_in |-> 0, rx_out |-> 0,
             tx_buf |-> [i \in 0..(JBuf - 1) |-> 0], tx_in |-> 0, tx_out |-> 0,
             rxlog |-> <<>>, accepted |-> 0]
    /\ jc = JIdle
    /\ host = [here |-> TRUE, told |-> 0, sent |-> <<>>, moves |-> 0]

----------------------------------------------------------------------------
\* The device as the processor sees it.
ControlIs(j, s) == [j EXCEPT !.irq_enable = s, !.re = "RE" \in s,
                             !.we = "WE" \in s]

RI == jt.re /\ (jt.pause \/ JDepth - Len(jt.rfifo) <= JReadMark)
WI == jt.we /\ Len(jt.wfifo) <= JWriteMark
JtagIrq == RI \/ WI

Used(in, out) == (in + JBuf - out) % JBuf

\* Bytes waiting in a ring, oldest first.
RingSeq(buf, in, out) ==
    [i \in 1..Used(in, out) |-> buf[(out + i - 1) % JBuf]]

----------------------------------------------------------------------------
\* Mutant: the handler empties the device without looking at the ring.
IrqReceiveBlind(j) ==
    LET k == Len(j.rfifo)
    IN  [j EXCEPT
          !.rx_buf = [i \in 0..(JBuf - 1) |->
              LET n == Used(i, j.rx_in) IN IF n < k THEN j.rfifo[n + 1] ELSE @[i]],
          !.rx_in = (@ + k) % JBuf, !.rfifo = <<>>, !.pause = FALSE]

\* altera_avalon_jtag_uart_irq, one turn of its loop (the dispatcher comes
\* back while the request stands).  The receive half empties the hardware
\* FIFO until the ring is full and turns its interrupt off if bytes remain;
\* the transmit half fills the hardware FIFO and turns its interrupt off if
\* there is space left.
IrqReceive(j) ==
    LET free == JBuf - 1 - Used(j.rx_in, j.rx_out)
        k    == Min({free, Len(j.rfifo)})
        rest == SubSeq(j.rfifo, k + 1, Len(j.rfifo))
        got  == [j EXCEPT
                  !.rx_buf = [i \in 0..(JBuf - 1) |->
                      LET n == Used(i, j.rx_in)
                      IN  IF n < k THEN j.rfifo[n + 1] ELSE @[i]],
                  !.rx_in = (@ + k) % JBuf,
                  !.rfifo = rest,
                  !.pause = @ /\ free = 0]
    IN  IF free = 0 \/ (k = free /\ rest # <<>>)
        THEN ControlIs(got, j.irq_enable \ {"RE"})
        ELSE got

IrqTransmit(j, space) ==
    LET k   == Min({space, Used(j.tx_in, j.tx_out)})
        put == [j EXCEPT
                  !.wfifo = @ \o SubSeq(RingSeq(j.tx_buf, j.tx_in, j.tx_out),
                                        1, k),
                  !.tx_out = (@ + k) % JBuf]
    IN  IF space > k THEN ControlIs(put, j.irq_enable \ {"WE"}) ELSE put

altera_avalon_jtag_uart_irq ==
    /\ LET space == JDepth - Len(jt.wfifo)
           r     == IF RI THEN IrqReceive(jt) ELSE jt
       IN  jt' = IF WI THEN IrqTransmit(r, space) ELSE r
    /\ UNCHANGED <<jc, host>>

\* altera_avalon_jtag_uart_timeout, called once a second by the alarm: has
\* the host shown any activity?
altera_avalon_jtag_uart_timeout(j) ==
    IF j.ac
    THEN [j EXCEPT !.ac = FALSE, !.host_inactive = 0]
    ELSE IF j.host_inactive < JNever - 2
         THEN [j EXCEPT !.host_inactive = @ + 1]
         ELSE j

\* altera_avalon_jtag_uart_init.  started says whether the alarm could be
\* started: without it the driver never gives up on the host.
altera_avalon_jtag_uart_init(started) ==
    /\ jt' = [ControlIs(jt, {"RE"}) EXCEPT
                 !.host_inactive = 0,
                 !.timeout = IF started THEN @ ELSE JNever]
    /\ UNCHANGED <<jc, host>>

HostSilent == jt.host_inactive >= jt.timeout

----------------------------------------------------------------------------
\* Calls.  Every step is one stretch of code between two points where an
\* interrupt can change what the next line reads.
JCall(op, n, nb) ==
    /\ jc.op = "idle"
    /\ jc' = [JIdle EXCEPT !.op = op, !.left = n, !.nb = nb,
                 !.pc = IF op = "close" THEN "drain" ELSE "look"]
    /\ UNCHANGED <<jt, host>>

JReturn(c) ==
    [JIdle EXCEPT !.ret = IF c.done > 0 THEN "count"
                          ELSE IF c.nb THEN "EWOULDBLOCK" ELSE "EIO"]

\* altera_avalon_jtag_uart_read: sample both indices; how many bytes lie
\* before the end of the buffer?
ReadChunk(in, out) == IF in >= out THEN in - out ELSE JBuf - out

JReadLook ==
    /\ jc.op = "read" /\ jc.pc = "look"
    /\ jc' = [jc EXCEPT !.in = jt.rx_in, !.out = jt.rx_out,
                 !.pc = IF ReadChunk(jt.rx_in, jt.rx_out) > 0 THEN "copy"
                        ELSE IF jc.done > 0 THEN "on"
                        ELSE IF jc.nb THEN "ret" ELSE "spin"]
    /\ UNCHANGED <<jt, host>>

JReadCopy ==
    /\ jc.op = "read" /\ jc.pc = "copy"
    /\ LET n == Min({ReadChunk(jc.in, jc.out), jc.left})
       IN  /\ jt' = [jt EXCEPT
                !.rxlog = @ \o [i \in 1..n |-> jt.rx_buf[jc.out + i - 1]],
                !.rx_out = (jc.out + n) % JBuf]
           /\ jc' = [jc EXCEPT !.left = @ - n, !.done = @ + n,
                       !.pc = IF jc.left > n THEN "look" ELSE "on"]
    /\ UNCHANGED host

\* The blocking wait: until a byte has come or the host counts as gone.
JReadSpin ==
    /\ jc.op = "read" /\ jc.pc = "spin"
    /\ jc.in # jt.rx_in \/ HostSilent
    /\ jc' = [jc EXCEPT !.pc = IF jc.in # jt.rx_in THEN "look" ELSE "ret"]
    /\ UNCHANGED <<jt, host>>

\* Bytes were taken, so the ring has room: the receive interrupt goes on.
JReadOn ==
    /\ jc.op = "read" /\ jc.pc = "on"
    /\ jt' = ControlIs(jt, jt.irq_enable \cup {"RE"})
    /\ jc' = [jc EXCEPT !.pc = "ret"]
    /\ UNCHANGED host

\* altera_avalon_jtag_uart_write: how much fits before the end of the
\* buffer or the byte before the oldest one?
WriteChunk(in, out) ==
    IF in < out THEN out - 1 - in
    ELSE IF out > 0 THEN JBuf - in
    ELSE JBuf - 1 - in

JWriteLook ==
    /\ jc.op = "write" /\ jc.pc = "look"
    /\ jc' = [jc EXCEPT !.in = jt.tx_in, !.out = jt.tx_out,
                 !.pc = IF WriteChunk(jt.tx_in, jt.tx_out) > 0 THEN "copy"
                        ELSE "on"]
    /\ UNCHANGED <<jt, host>>

JWriteCopy ==
    /\ jc.op = "write" /\ jc.pc = "copy"
    /\ LET n == Min({WriteChunk(jc.in, jc.out), jc.left})
       IN  /\ jt' = [jt EXCEPT
                !.tx_buf = [i \in 0..(JBuf - 1) |->
                    IF i \in jc.in..(jc.in + n - 1)
                    THEN jt.accepted + 1 + i - jc.in ELSE @[i]],
                !.tx_in = (jc.in + n) % JBuf,
                !.accepted = @ + n]
           /\ jc' = [jc EXCEPT !.left = @ - n, !.done = @ + n,
                       !.pc = IF jc.left > n THEN "look" ELSE "on"]
    /\ UNCHANGED host

JWriteOn ==
    /\ jc.op = "write" /\ jc.pc = "on"
    /\ jt' = ControlIs(jt, jt.irq_enable \cup {"WE"})
    /\ jc' = [jc EXCEPT !.pc = IF jc.left = 0 \/ jc.nb THEN "ret" ELSE "spin"]
    /\ UNCHANGED host

\* Mutant: the wait for room does not watch for a silent host.
JWriteSpinForever ==
    /\ jc.op = "write" /\ jc.pc = "spin"
    /\ jc.out # jt.tx_out
    /\ jc' = [jc EXCEPT !.pc = "look"]
    /\ UNCHANGED <<jt, host>>

JWriteSpin ==
    /\ jc.op = "write" /\ jc.pc = "spin"
    /\ jc.out # jt.tx_out \/ HostSilent
    /\ jc' = [jc EXCEPT !.pc = IF jc.out # jt.tx_out THEN "look" ELSE "ret"]
    /\ UNCHANGED <<jt, host>>

\* altera_avalon_jtag_uart_close: wait for the transmit ring to drain.
JCloseDrain ==
    /\ jc.op = "close"
    /\ LET empty == jt.tx_out = jt.tx_in \/ HostSilent
       IN  /\ empty \/ jc.nb
           /\ jc' = [JIdle EXCEPT !.ret = IF empty THEN "ok"
                                          ELSE "EWOULDBLOCK"]
    /\ UNCHANGED <<jt, host>>

JDone ==
    /\ jc.op \in {"read", "write"} /\ jc.pc = "ret"
    /\ jc' = JReturn(jc)
    /\ UNCHANGED <<jt, host>>

\* altera_avalon_jtag_uart_ioctl, TIOCSTIMEOUT: short or negative times
\* mean never, but still a count (INT_MAX - 1).
JSetTimeout(t) ==
    /\ jc.op = "idle"
    /\ jt.timeout # JNever
    /\ jt' = [jt EXCEPT !.timeout = IF t >= 2 /\ t < JNever THEN t
                                    ELSE JNever - 1]
    /\ UNCHANGED <<jc, host>>

JtagThread ==
    \/ JReadLook \/ JReadCopy \/ JReadSpin \/ JReadOn
    \/ JWriteLook \/ JWriteCopy \/ JWriteOn \/ JWriteSpin
    \/ JCloseDrain \/ JDone

----------------------------------------------------------------------------
\* The host end.
HostSends ==
    /\ host.here /\ host.told < MaxHostBytes /\ Len(jt.rfifo) < JDepth
    /\ host' = [host EXCEPT !.told = @ + 1]
    /\ jt' = [jt EXCEPT !.rfifo = Append(@, host.told + 1), !.ac = TRUE]
    /\ UNCHANGED jc

\* The host has nothing to send for the moment; bytes wait in the FIFO.
HostPauses ==
    /\ host.here /\ jt.rfifo # <<>>
    /\ jt' = [jt EXCEPT !.pause = TRUE, !.ac = TRUE]
    /\ UNCHANGED <<jc, host>>

HostTakes ==
    /\ host.here /\ jt.wfifo # <<>>
    /\ host' = [host EXCEPT !.sent = Append(@, Head(jt.wfifo))]
    /\ jt' = [jt EXCEPT !.wfifo = Tail(@), !.ac = TRUE]
    /\ UNCHANGED jc

HostPolls ==
    /\ host.here /\ ~jt.ac
    /\ jt' = [jt EXCEPT !.ac = TRUE]
    /\ UNCHANGED <<jc, host>>

HostMoves ==
    /\ host.moves < MaxHostMoves
    /\ host' = [host EXCEPT !.here = ~@, !.moves = @ + 1]
    /\ UNCHANGED <<jt, jc>>

----------------------------------------------------------------------------
JtagTypeOK ==
    /\ {jt.rx_in, jt.rx_out, jt.tx_in, jt.tx_out} \subseteq 0..(JBuf - 1)
    /\ Len(jt.rfifo) <= JDepth /\ Len(jt.wfifo) <= JDepth
    /\ jt.irq_enable \subseteq {"RE", "WE"}
    /\ jc.op \in {"idle", "read", "write", "close"}
    /\ jc.pc \in {"look", "copy", "on", "spin", "ret", "drain"}

\* What the host sent is what the readers got, then what waits in the ring,
\* then what waits in the device: nothing lost, doubled or out of order.
JtagReceivesAll ==
    jt.rxlog \o RingSeq(jt.rx_buf, jt.rx_in, jt.rx_out) \o jt.rfifo
        = [i \in 1..host.told |-> i]

\* What write accepted is what the host took, then what waits in the device,
\* then what waits in the ring.
JtagSendsAll ==
    host.sent \o jt.wfifo \o RingSeq(jt.tx_buf, jt.tx_in, jt.tx_out)
        = [i \in 1..jt.accepted |-> i]

\* Once it is initialised, which puts its alarm into the list, the driver never
\* stops listening or sending for good: the receive interrupt is off only while
\* the ring is full or a reader is about to turn it on, and bytes in the
\* transmit ring keep the transmit interrupt on.
JtagNotDeaf ==
    /\ ("jtag" \in Listed /\ ~jt.re) =>
          (jc.op = "read" \/ Used(jt.rx_in, jt.rx_out) = JBuf - 1)
    /\ (jt.tx_in # jt.tx_out /\ ~jt.we) => jc.op = "write"

-----------------------------------------------------------------------------
(***************************************************************************)
(* The serial port: the UART with its one-byte receive register and its    *)
(* two-stage transmitter, and the interrupt-driven driver with a ring      *)
(* buffer in each direction.                                               *)
(*                                                                         *)
(* The interrupt handler can run between any two lines of a read or write  *)
(* except where the code turns interrupts off.  Bytes are numbered in the  *)
(* order they are sent.  log, stored, accepted and wire are history.       *)
(***************************************************************************)
CONSTANTS
    UBuf,       \* ALT_AVALON_UART_BUF_LEN
    MaxWire     \* bound: bytes that arrive on the wire

ASSUME UartAssumption == UBuf \in Nat \ {0, 1} /\ MaxWire \in Nat

VARIABLES
    ua,   \* device and driver state
    uc    \* the call in progress

uartVars == <<ua, uc>>

UIdle == [op |-> "idle", pc |-> "ret", left |-> 0, done |-> 0,
          nb |-> FALSE, ret |-> "none"]

UartInit ==
    /\ ua = [rxd |-> 0, rrdy |-> FALSE, fe |-> FALSE, arrived |-> 0,
             txd |-> 0, shift |-> 0, wire |-> <<>>,
             ctrl |-> {},
             rx_buf |-> [i \in 0..(UBuf - 1) |-> 0], rx_start |-> 0, rx_end |-> 0,
             tx_buf |-> [i \in 0..(UBuf - 1) |-> 0], tx_start |-> 0, tx_end |-> 0,
             log |-> <<>>, stored |-> 0, accepted |-> 0]
    /\ uc = UIdle

After(i) == (i + 1) % UBuf
URingLen(start, end) == (end + UBuf - start) % UBuf
URingSeq(buf, start, end) ==
    [i \in 1..URingLen(start, end) |-> buf[(start + i - 1) % UBuf]]

----------------------------------------------------------------------------
\* The device.
UTrdy == ua.txd = 0

UartIrq == \/ "RRDY" \in ua.ctrl /\ ua.rrdy
           \/ "TRDY" \in ua.ctrl /\ UTrdy

\* A byte arrives; one not yet read is overrun.  err: its stop bit is wrong.
WireIn(err) ==
    /\ ua.arrived < MaxWire
    /\ ua' = [ua EXCEPT !.rxd = ua.arrived + 1, !.arrived = @ + 1,
                        !.rrdy = TRUE, !.fe = @ \/ err]
    /\ UNCHANGED uc

TxShift ==
    /\ ua.txd # 0 /\ ua.shift = 0
    /\ ua' = [ua EXCEPT !.shift = ua.txd, !.txd = 0]
    /\ UNCHANGED uc

WireOut ==
    /\ ua.shift # 0
    /\ ua' = [ua EXCEPT !.wire = Append(@, ua.shift), !.shift = 0]
    /\ UNCHANGED uc

----------------------------------------------------------------------------
\* altera_avalon_uart_rxirq: a byte with an error is left in the device;
\* any other goes to the ring without looking whether there is room, and
\* the receive interrupt goes off once the ring has become full.
altera_avalon_uart_rxirq(u, fe) ==
    IF fe
    THEN u
    ELSE LET end == After(u.rx_end)
         IN  [u EXCEPT !.rx_buf[u.rx_end] = u.rxd,
                       !.rx_end = end,
                       !.rrdy = FALSE,
                       !.stored = @ + 1,
                       !.ctrl = IF After(end) = u.rx_start THEN @ \ {"RRDY"}
                                ELSE @]

\* altera_avalon_uart_txirq without flow control.
altera_avalon_uart_txirq(u) ==
    IF u.tx_start = u.tx_end
    THEN [u EXCEPT !.ctrl = @ \ {"TRDY", "DCTS"}]
    ELSE LET start == After(u.tx_start)
         IN  [u EXCEPT !.txd = u.tx_buf[u.tx_start],
                       !.tx_start = start,
                       !.ctrl = IF start = u.tx_end THEN @ \ {"TRDY", "DCTS"}
                                ELSE @ \cup {"TRDY"}]

\* altera_avalon_uart_irq: the status is sampled, then its error bits are
\* cleared; each half runs on the sample whether or not it was the cause.
altera_avalon_uart_irq ==
    /\ LET seen == [ua EXCEPT !.fe = FALSE]
           r == IF ua.rrdy THEN altera_avalon_uart_rxirq(seen, ua.fe) ELSE seen
       IN  ua' = IF UTrdy THEN altera_avalon_uart_txirq(r) ELSE r
    /\ UNCHANGED uc

altera_avalon_uart_init ==
    /\ ua' = [ua EXCEPT !.ctrl = {"RTS", "RRDY", "DCTS"}]
    /\ UNCHANGED uc

----------------------------------------------------------------------------
UCall(op, n, nb) ==
    /\ uc.op = "idle"
    /\ uc' = [UIdle EXCEPT !.op = op, !.left = n, !.nb = nb,
                 !.pc = IF op = "close" THEN "drain" ELSE "move"]
    /\ UNCHANGED ua

RxEmpty == ua.rx_start = ua.rx_end
TxFull == After(ua.tx_end) = ua.tx_start

\* altera_avalon_uart_read: one turn of the copying loop.
UReadByte ==
    /\ uc.op = "read" /\ uc.pc = "move" /\ uc.left > 0 /\ ~RxEmpty
    /\ ua' = [ua EXCEPT !.log = Append(@, ua.rx_buf[ua.rx_start]),
                        !.rx_start = After(@)]
    /\ uc' = [uc EXCEPT !.left = @ - 1, !.done = @ + 1]

\* The loop is over: nothing yet means wait (or not), anything means return.
UReadOver ==
    /\ uc.op = "read" /\ uc.pc = "move" /\ (uc.left = 0 \/ RxEmpty)
    /\ uc' = [uc EXCEPT !.pc = IF uc.done = 0 /\ ~uc.nb THEN "arm" ELSE "on"]
    /\ UNCHANGED ua

\* The receive interrupt goes on with interrupts off: inside the waiting
\* loop, and once more before read returns.
UReadArm ==
    /\ uc.op = "read" /\ uc.pc \in {"arm", "on"}
    /\ ua' = [ua EXCEPT !.ctrl = @ \cup {"RRDY"}]
    /\ uc' = IF uc.pc = "arm" THEN [uc EXCEPT !.pc = "move"]
             ELSE [UIdle EXCEPT !.ret = IF uc.done > 0 THEN "count"
                                        ELSE "~EWOULDBLOCK"]

\* altera_avalon_uart_write: one byte into the ring.
UWriteByte ==
    /\ uc.op = "write" /\ uc.pc = "move" /\ uc.left > 0 /\ ~TxFull
    /\ ua' = [ua EXCEPT !.tx_buf[ua.tx_end] = ua.accepted + 1,
                        !.tx_end = After(@),
                        !.accepted = @ + 1]
    /\ uc' = [uc EXCEPT !.left = @ - 1, !.done = @ + 1]

UWriteOver ==
    /\ uc.op = "write" /\ uc.pc = "move" /\ (uc.left = 0 \/ TxFull)
    /\ uc' = [uc EXCEPT !.pc = IF uc.left > 0 /\ ~uc.nb THEN "arm" ELSE "on"]
    /\ UNCHANGED ua

UWriteArm ==
    /\ uc.op = "write" /\ uc.pc \in {"arm", "on"}
    /\ ua' = [ua EXCEPT !.ctrl = @ \cup {"TRDY", "DCTS"}]
    /\ uc' = IF uc.pc = "arm" THEN [uc EXCEPT !.pc = "spin"]
             ELSE [UIdle EXCEPT !.ret = "count"]

\* The busy wait for a place.
UWriteSpin ==
    /\ uc.op = "write" /\ uc.pc = "spin" /\ ~TxFull
    /\ uc' = [uc EXCEPT !.pc = "move"]
    /\ UNCHANGED ua

\* altera_avalon_uart_close.
UCloseDrain ==
    /\ uc.op = "close"
    /\ uc.nb \/ ua.tx_start = ua.tx_end
    /\ uc' = [UIdle EXCEPT !.ret = IF ua.tx_start = ua.tx_end THEN "ok"
                                   ELSE "EWOULDBLOCK"]
    /\ UNCHANGED ua

UartThread ==
    \/ UReadByte \/ UReadOver \/ UReadArm
    \/ UWriteByte \/ UWriteOver \/ UWriteArm \/ UWriteSpin
    \/ UCloseDrain

----------------------------------------------------------------------------
UartTypeOK ==
    /\ {ua.rx_start, ua.rx_end, ua.tx_start, ua.tx_end} \subseteq 0..(UBuf - 1)
    /\ ua.ctrl \subseteq {"RTS", "RRDY", "TRDY", "DCTS"}
    /\ uc.op \in {"idle", "read", "write", "close"}
    /\ uc.pc \in {"move", "arm", "on", "spin", "ret", "drain"}

One(b) == IF b = 0 THEN <<>> ELSE <<b>>

\* Every byte write accepted is on the wire, in the transmitter or in the
\* ring, once and in order, however interrupts fall between its lines.
UartSendsAll ==
    ua.wire \o One(ua.shift) \o One(ua.txd)
        \o URingSeq(ua.tx_buf, ua.tx_start, ua.tx_end)
      = [i \in 1..ua.accepted |-> i]

\* Received bytes may be lost to an overrun, but what readers get and what
\* waits in the ring is never repeated and never out of order.
UartRxOrder ==
    LET got == ua.log \o URingSeq(ua.rx_buf, ua.rx_start, ua.rx_end)
    IN  \A i \in 1..(Len(got) - 1) : got[i] < got[i + 1]

\* A byte the interrupt handler has stored is read or still waits: a full
\* ring is never stored over ("If the cicular buffer was full, disable
\* interrupts").
StoredAreKept ==
    ua.stored = Len(ua.log) + URingLen(ua.rx_start, ua.rx_end)

\* The driver never stops for good: as long as no full ring was stored over,
\* the receive interrupt is off only while the ring is full or a reader is
\* about to turn it on; and bytes in the transmit ring have the transmit
\* interrupt on or a writer about to turn it on.
UartNotDeaf ==
    /\ ("RTS" \in ua.ctrl /\ "RRDY" \notin ua.ctrl /\ StoredAreKept) =>
          (uc.op = "read" \/ After(ua.rx_end) = ua.rx_start)
    /\ (ua.tx_start # ua.tx_end /\ "TRDY" \notin ua.ctrl) => uc.op = "write"

(***************************************************************************)
(* alt_avalon_spi_command: a polled exchange over the SPI core, which      *)
(* shifts one byte while holding the next and keeps one received byte.     *)
(*                                                                         *)
(* Written bytes are numbered, fill bytes are 0; the slave answers its     *)
(* k-th byte with k.  The core's shifting goes on between any two lines.   *)
(***************************************************************************)
VARIABLE sp        \* the core, the slave and the command's locals

None == -1

SpiIdle == [pc |-> "idle", w |-> 0, r |-> 0, wl |-> 0, zeros |-> 0,
            ignore |-> 0, credits |-> 0, rd |-> <<>>,
            hold |-> None, shift |-> None, rx |-> 0, rrdy |-> FALSE,
            roe |-> FALSE, ss |-> FALSE, merge |-> FALSE, slave |-> <<>>]

SpiInit == sp = SpiIdle

----------------------------------------------------------------------------
\* The core.  A byte written while nothing is being shifted goes straight to
\* the shift register; one written meanwhile waits in the holding register.
SpiTrdy == sp.hold = None
SpiTmt == sp.hold = None /\ sp.shift = None

SpiPut(s, b) ==
    IF s.shift = None THEN [s EXCEPT !.shift = b] ELSE [s EXCEPT !.hold = b]

SpiShifts ==
    /\ sp.shift # None
    /\ sp' = [sp EXCEPT !.slave = Append(@, sp.shift),
                        !.rx = Len(sp.slave) + 1,
                        !.shift = sp.hold, !.hold = None,
                        !.roe = @ \/ sp.rrdy,
                        !.rrdy = TRUE]

----------------------------------------------------------------------------
\* alt_avalon_spi_command: select the slave, drop a stale byte.  A command
\* of no bytes at all never ends and is not made.
alt_avalon_spi_command(w, r, merge) ==
    /\ sp.pc = "idle" /\ w + r > 0
    /\ sp' = [sp EXCEPT !.pc = "loop", !.w = w, !.r = r, !.wl = w,
                        !.zeros = r, !.ignore = w, !.credits = 1,
                        !.rd = <<>>, !.ss = TRUE, !.rrdy = FALSE,
                        !.slave = <<>>, !.merge = merge]

\* One turn of the loop on one reading of the status: send if a byte is
\* allowed out, take what has come in.
SpiSend(s) ==
    IF s.wl > 0
    THEN [SpiPut(s, s.w - s.wl + 1) EXCEPT !.credits = @ - 1, !.wl = @ - 1]
    ELSE IF s.zeros > 0
    THEN [SpiPut(s, 0) EXCEPT !.credits = @ - 1, !.zeros = @ - 1]
    ELSE [s EXCEPT !.credits = -1024]

SpiReceive(s) ==
    LET t == [s EXCEPT !.rrdy = FALSE, !.credits = @ + 1,
                       !.ignore = IF @ > 0 THEN @ - 1 ELSE 0,
                       !.rd = IF s.ignore > 0 THEN @ ELSE Append(@, s.rx)]
    IN  IF t.ignore = 0 /\ Len(t.rd) = t.r THEN [t EXCEPT !.pc = "drain"]
        ELSE t

SpiTurn ==
    /\ sp.pc = "loop"
    /\ (SpiTrdy /\ sp.credits > 0) \/ sp.rrdy
    /\ LET s == IF SpiTrdy /\ sp.credits > 0 THEN SpiSend(sp) ELSE sp
       IN  sp' = IF sp.rrdy THEN SpiReceive(s) ELSE s

\* The transmitter runs empty; unless commands are merged the slave is
\* released.
SpiDrain ==
    /\ sp.pc = "drain" /\ SpiTmt
    /\ sp' = [sp EXCEPT !.pc = "idle", !.ss = sp.merge]

SpiThread == SpiTurn \/ SpiDrain

----------------------------------------------------------------------------
\* The caller gets the slave's answers to its fill bytes and no others, the
\* slave gets the written bytes and then zeros, and no received byte is
\* ever overrun however slowly the loop polls.
SpiExchange ==
    /\ ~sp.roe
    /\ sp.rd = [i \in 1..Len(sp.rd) |-> sp.w + i]
    /\ sp.slave = [i \in 1..Len(sp.slave) |-> IF i <= sp.w THEN i ELSE 0]
    /\ (sp.pc = "drain") => (Len(sp.rd) = sp.r /\ Len(sp.slave) = sp.w + sp.r)

-----------------------------------------------------------------------------
(***************************************************************************)
(* The performance counter and the report made from it: every section has  *)
(* a long counter that software reads as two words while, if it were not   *)
(* stopped, it would go on counting.                                       *)
(***************************************************************************)
CONSTANTS
    Sections,   \* number of sections besides section 0, the total
    PWord,      \* values of one word of a counter, 2^32 in the device
    MaxPerf     \* bound: clocks counted

ASSUME PerfAssumption ==
    Sections \in Nat \ {0} /\ PWord \in Nat \ {0} /\ MaxPerf \in Nat

VARIABLE pf

Sects == 0..Sections
PZero == [s \in Sects |-> 0]

PerfInit ==
    pf = [time |-> PZero, starts |-> PZero, run |-> {},
          pc |-> "idle", s |-> 0, lo |-> 0, got |-> <<>>]

----------------------------------------------------------------------------
\* The device: a section counts while it and section 0 run.
PerfClock ==
    /\ 0 \in pf.run /\ pf.time[0] < MaxPerf
    /\ pf' = [pf EXCEPT !.time = [s \in Sects |-> IF s \in pf.run THEN @[s] + 1
                                                  ELSE @[s]]]

\* PERF_BEGIN and PERF_END; PERF_START_MEASURING and PERF_STOP_MEASURING
\* are the same for section 0.
PERF_BEGIN(s) ==
    pf' = [pf EXCEPT !.run = @ \cup {s},
                     !.starts[s] = IF s = 0 \/ 0 \in pf.run THEN @ + 1 ELSE @]

PERF_END(s) == pf' = [pf EXCEPT !.run = @ \ {s}]

PERF_RESET == pf' = [pf EXCEPT !.time = PZero, !.starts = PZero, !.run = {}]

----------------------------------------------------------------------------
\* perf_print_formatted_report: stop measuring, then one section after the
\* other, the total first; each is read by perf_get_section_time.
perf_print_formatted_report ==
    /\ pf.pc = "idle"
    /\ pf' = [pf EXCEPT !.run = @ \ {0}, !.pc = "stop", !.s = 0,
                        !.got = <<>>]

PerfStop ==
    /\ pf.pc = "stop"
    /\ pf' = [pf EXCEPT !.run = @ \ {0}, !.pc = "lo"]

PerfLow ==
    /\ pf.pc = "lo"
    /\ pf' = [pf EXCEPT !.lo = pf.time[pf.s] % PWord, !.pc = "hi"]

PerfHigh ==
    /\ pf.pc = "hi"
    /\ LET last == pf.s = Sections
       IN  pf' = [pf EXCEPT
             !.got = Append(@, pf.lo + PWord * (pf.time[pf.s] \div PWord)),
             !.s = IF last THEN 0 ELSE @ + 1,
             !.pc = IF last THEN "idle" ELSE "stop"]

PerfThread == PerfStop \/ PerfLow \/ PerfHigh

----------------------------------------------------------------------------
\* A report is one consistent picture: no half of a counter belongs to
\* another moment than the other half, and no section has run longer than
\* the whole measurement.
PerfReportSound ==
    \A i \in 1..Len(pf.got) :
        /\ pf.pc # "idle" => pf.got[i] = pf.time[i - 1]
        /\ pf.got[i] <= pf.got[1]

-----------------------------------------------------------------------------
(***************************************************************************)
(* The driver of the Avalon FIFO core (altera_avalon_fifo_util.c): its     *)
(* registers are reached one access at a time, and the hardware at the     *)
(* other end of the FIFO moves between two of them.                        *)
(*                                                                         *)
(* The core itself is external, modelled from the registers the driver     *)
(* uses: level, status, and sticky event bits that are set when their      *)
(* condition arises and cleared by writing ones.  side says which end the  *)
(* processor has.  put and got are history.                                *)
(***************************************************************************)
CONSTANTS
    FifoDepth,   \* FIFO_DEPTH
    MaxFifo      \* words that go through the FIFO

ASSUME FifoAssumption == FifoDepth \in Nat \ {0} /\ MaxFifo \in Nat

VARIABLE
    ff    \* the core's registers and the driver's call in progress

FifoEvents == {"F", "E", "AF", "AE", "OVF", "UDF"}

FifoInit ==
    /\ ff \in [side : {"write", "read"}, q : {<<>>}, event : {{}}, ien : {{}},
               full : {FifoDepth}, empty : {0}, pc : {"idle"}, ret : {"none"},
               level : {0}, inited : {FALSE}, put : {0}, got : {<<>>}]

\* The conditions behind the status bits for a FIFO of n words.
Status(n) == {e \in {"F", "E", "AF", "AE"} :
                 \/ e = "F" /\ n = FifoDepth
                 \/ e = "E" /\ n = 0
                 \/ e = "AF" /\ n >= ff.full
                 \/ e = "AE" /\ n <= ff.empty}

FStatus == Status(Len(ff.q))

\* The core takes or gives a word; a condition that arises sets its event.
Pushed(f, w) ==
    IF Len(f.q) = FifoDepth THEN [f EXCEPT !.event = @ \cup {"OVF"}]
    ELSE [f EXCEPT !.q = Append(@, w),
                   !.event = @ \cup (Status(Len(f.q) + 1) \ Status(Len(f.q)))]

Popped(f) ==
    IF f.q = <<>> THEN [f EXCEPT !.event = @ \cup {"UDF"}]
    ELSE [f EXCEPT !.q = Tail(@),
                   !.event = @ \cup (Status(Len(f.q) - 1) \ Status(Len(f.q)))]

\* The hardware at the other end respects ready and valid.
FifoHardware ==
    \/ /\ ff.side = "read" /\ Len(ff.q) < FifoDepth /\ ff.put < MaxFifo
       /\ ff' = [Pushed(ff, ff.put + 1) EXCEPT !.put = @ + 1]
    \/ /\ ff.side = "write" /\ ff.q # <<>>
       /\ ff' = [Popped(ff) EXCEPT !.got = Append(@, Head(ff.q))]

----------------------------------------------------------------------------
Returned(f, r) == [f EXCEPT !.pc = "idle", !.ret = r]

\* altera_avalon_fifo_init, a write and a read back for each register;
\* the first that differs ends it.
altera_avalon_fifo_init ==
    /\ ff.pc = "idle"
    /\ ff' = [ff EXCEPT !.pc = "clear", !.inited = FALSE]

altera_avalon_fifo_clear_event ==
    \/ /\ ff.pc = "clear"
       /\ ff' = [ff EXCEPT !.event = {}, !.pc = "cleared"]
    \/ /\ ff.pc = "cleared"
       /\ ff' = IF ff.event = {} THEN [ff EXCEPT !.pc = "marks"]
                ELSE Returned(ff, "EVENT_CLEAR_ERROR")

altera_avalon_fifo_write_ienable(f, mask) == [f EXCEPT !.ien = mask]
altera_avalon_fifo_write_almostfull(f, n) == [f EXCEPT !.full = n]
altera_avalon_fifo_write_almostempty(f, n) == [f EXCEPT !.empty = n]

\* Only the processor writes these, so reading them back agrees.
FifoMarks(mask, emptymark, fullmark) ==
    /\ ff.pc = "marks"
    /\ LET f1 == altera_avalon_fifo_write_ienable(ff, mask)
           f2 == altera_avalon_fifo_write_almostfull(f1, fullmark)
           f3 == altera_avalon_fifo_write_almostempty(f2, emptymark)
       IN  ff' = [Returned(f3, "READY") EXCEPT !.inited = TRUE]

\* altera_avalon_fifo_write_fifo: the status register, then the data.
altera_avalon_fifo_write_fifo ==
    /\ ff.side = "write" /\ ff.pc = "idle" /\ ff.put < MaxFifo
    /\ ff' = IF "F" \in FStatus THEN Returned(ff, "FULL")
             ELSE [ff EXCEPT !.pc = "put"]

WriteData ==
    /\ ff.pc = "put"
    /\ ff' = Returned([Pushed(ff, ff.put + 1) EXCEPT !.put = @ + 1], "OK")

\* altera_avalon_read_fifo: status, level, data; the level it returns says
\* how many words there were.
altera_avalon_read_fifo ==
    /\ ff.side = "read" /\ ff.pc = "idle"
    /\ ff' = IF "E" \in FStatus THEN Returned(ff, "EMPTY")
             ELSE [ff EXCEPT !.pc = "level"]

ReadLevel ==
    /\ ff.pc = "level"
    /\ ff' = [ff EXCEPT !.level = Len(ff.q), !.pc = "data"]

ReadData ==
    /\ ff.pc = "data"
    /\ ff' = Returned([Popped(ff) EXCEPT !.got = Append(@, Head(ff.q))], "OK")

\* altera_avalon_fifo_read_fifo: the same without the level, zero
\* when there is nothing.
altera_avalon_fifo_read_fifo ==
    /\ ff.side = "read" /\ ff.pc = "idle"
    /\ ff' = IF "E" \in FStatus THEN Returned(ff, "ZERO")
             ELSE Returned([Popped(ff) EXCEPT !.got = Append(@, Head(ff.q))], "DATA")

FifoThread ==
    \/ altera_avalon_fifo_clear_event
    \/ \E mask \in {{}, {"AF"}} : FifoMarks(mask, 1, FifoDepth - 1)
    \/ WriteData \/ ReadLevel \/ ReadData

----------------------------------------------------------------------------
FifoTypeOK ==
    /\ Len(ff.q) <= FifoDepth /\ ff.event \subseteq FifoEvents
    /\ ff.pc \in {"idle", "clear", "cleared", "marks", "put", "level", "data"}
    /\ ff.level \in 0..FifoDepth

\* Whatever the hardware does between the status and the data register, no
\* word is lost or read twice: nothing overflows or underflows, and what
\* has come out and what is inside are the words put in, in order.
FifoKeepsWords ==
    /\ {"OVF", "UDF"} \cap ff.event = {}
    /\ ff.got \o ff.q = [i \in 1..ff.put |-> i]

\* The number altera_avalon_read_fifo returns with a word is never zero,
\* which would mean that there was none.
FifoLevelCounts ==
    (ff.ret = "OK" /\ ff.side = "read" /\ ff.pc = "idle") => ff.level >= 1
=============================================================================
