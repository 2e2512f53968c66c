----------------------------- MODULE LedosRegs ------------------------------
(***************************************************************************)
(* Register accesses of the drivers over the bus of the Nios system: an    *)
(* access is put on the bus with the address the headers compute, the      *)
(* router picks the slaves that match it, the slave's decoder picks the    *)
(* register.  Status words are read while the device drives its flags,     *)
(* interrupts reach the handler registered for their number, and the WAV   *)
(* header is fetched from a parser that is still running.                  *)
(***************************************************************************)
EXTENDS Integers, Sequences, FiniteSets

(***************************************************************************)
(* The register map of the system seen from its two sides.  The software   *)
(* side is what a driver computes: base addresses and interrupt numbers of *)
(* system.h, register numbers and flags of the drivers' headers, byte      *)
(* offsets of the LEDOS headers.  The hardware side is what the RTL        *)
(* decodes: the address router of the Nios system, the address decoders of *)
(* the peripherals, the block codes of the cortex.  Neither is derived     *)
(* from the other in the repository.                                       *)
(***************************************************************************)
-----------------------------------------------------------------------------
(* Software: system.h, one record per device.                               *)

ACORTEX_DC_FIFO == [base |-> \h11020d0, span |-> 8, irq |-> -1]
CORTEX_MM_SL    == [base |-> \h1000000, span |-> 1048576, irq |-> 5]
FFT_CACHE_MM_SL == [base |-> \h1100000, span |-> 4096, irq |-> -1]
JTAG_UART       == [base |-> \h11020c0, span |-> 8, irq |-> 0]
PERF_CNTR       == [base |-> \h1102000, span |-> 64, irq |-> -1]
SDCARD_SPI      == [base |-> \h1102080, span |-> 32, irq |-> 3]
SDRAM           == [base |-> \h800000, span |-> 8388608, irq |-> -1]
SYSID           == [base |-> \h11020c8, span |-> 8, irq |-> -1]
TIMER_0         == [base |-> \h1102060, span |-> 32, irq |-> 2]
TIMER_1US       == [base |-> \h11020a0, span |-> 32, irq |-> 4]
UART_0          == [base |-> \h1102040, span |-> 32, irq |-> 1]

System == [acortex_dc_fifo |-> ACORTEX_DC_FIFO, cortex_mm_sl |-> CORTEX_MM_SL,
           fft_cache_mm_sl |-> FFT_CACHE_MM_SL, jtag_uart |-> JTAG_UART,
           perf_cntr |-> PERF_CNTR, sdcard_spi |-> SDCARD_SPI, sdram |-> SDRAM,
           sysid |-> SYSID, timer_0 |-> TIMER_0, timer_1us |-> TIMER_1US,
           uart_0 |-> UART_0]

\* Register numbers, for the macros that take a number (IORD, IOWR).
ALTERA_AVALON_UART == [RXDATA |-> 0, TXDATA |-> 1, STATUS |-> 2, CONTROL |-> 3]
ALTERA_AVALON_TIMER == [STATUS |-> 0, CONTROL |-> 1, PERIODL |-> 2, PERIODH |-> 3,
                        SNAPL |-> 4, SNAPH |-> 5]
ALTERA_AVALON_JTAG_UART == [DATA |-> 0, CONTROL |-> 1]
ALTERA_AVALON_SPI == [RXDATA |-> 0, TXDATA |-> 1, STATUS |-> 2, CONTROL |-> 3,
                      SLAVE_SEL |-> 5]
ALTERA_AVALON_SYSID_QSYS == [ID |-> 0, TIMESTAMP |-> 1]
ALTERA_AVALON_FIFO == [DATA |-> 0]

NumberOf == [acortex_dc_fifo |-> ALTERA_AVALON_FIFO, jtag_uart |-> ALTERA_AVALON_JTAG_UART,
             sdcard_spi |-> ALTERA_AVALON_SPI, sysid |-> ALTERA_AVALON_SYSID_QSYS,
             timer_0 |-> ALTERA_AVALON_TIMER, timer_1us |-> ALTERA_AVALON_TIMER,
             uart_0 |-> ALTERA_AVALON_UART]

\* Byte offsets of the cortex's registers, for the macros that take an
\* offset (IORD_32DIRECT, IOWR_32DIRECT).
I2C_DRIVER == [I2C_STATUS |-> \h20000, I2C_ADDR |-> \h20010, I2C_DATA |-> \h20020,
               I2C_CLK_DIV |-> \h20030]
SRAM == [SRAM_STATUS |-> \h21000, SRAM_ACC_CTRL |-> \h21010, SRAM_ACC_ADDR_H |-> \h21020,
         SRAM_ACC_ADDR_L |-> \h21030, SRAM_ACC_DATA |-> \h21040]
PRSR == [PRSR_CTRL |-> \h22000, PRSR_FSM_PSTATE |-> \h22010, PRSR_BYTES_READ_H |-> \h22020,
         PRSR_BYTES_READ_L |-> \h22030, PRSR_HDR_RAM_RD_ADDR |-> \h22040,
         PRSR_HDR_RAM_RD_DATA |-> \h22050]
DAC_DRVR == [DAC_CTRL |-> \h23000, DAC_STATUS |-> \h23010, DAC_FS_DIV |-> \h23020,
             DAC_MCLK_SEL |-> \h23030]
ACORTEX == [ADC_LCAPTURE |-> \h24000, ADC_RCAPTURE |-> \h25000, ADC_START |-> \h26000,
            AUDIO_SRC_SEL |-> \h27000, RESET |-> \h28000]
FGYRUS == [CONTROL |-> \h00, FSM_PSTATE |-> \h20, STATUS |-> \h40, POST_NORM |-> \h60]
VCORTEX_CONTROL == \h30000

\* The two engines share a map at different block codes.
get_full_fgyrus_addr(lchnl, addr) == IF lchnl THEN addr ELSE addr + \h10000

\* Mutant: the channels of the PWM RAM are taken for consecutive words.
pwm_paint_words(i) == \h31000 + 4 * i

\* pwm_paint: one write per channel.
pwm_paint(i) == \h31000 + 16 * i

\* read_fft_cache: the right channel from 0, the left one from 0x80.
read_fft_cache(lchnl, i) == 16 * (i + (IF lchnl THEN \h80 ELSE 0))

\* PERF_BEGIN, PERF_END, and what perf_get_section_time reads.
PerfNumber(s, r) ==
    4 * s + (CASE r \in {"end", "time_lo"} -> 0
               [] r \in {"begin", "time_hi"} -> 1
               [] r = "starts" -> 2)

\* __IO_CALC_ADDRESS_NATIVE and __IO_CALC_ADDRESS_DYNAMIC.
Native(dev, number) == System[dev].base + 4 * number
Dynamic(dev, offset) == System[dev].base + offset

-----------------------------------------------------------------------------
(* Hardware: limbus_sys_addr_router_001 looks at the address bits above     *)
(* each slave's span; what no slave has goes to the default, the SDRAM.     *)

RouterSpan == [sdram |-> <<\h800000, \h800000>>, cortex_mm_sl |-> <<\h1000000, \h100000>>,
               fft_cache_mm_sl |-> <<\h1100000, \h1000>>, debug |-> <<\h1101800, \h800>>,
               perf_cntr |-> <<\h1102000, \h40>>, uart_0 |-> <<\h1102040, \h20>>,
               timer_0 |-> <<\h1102060, \h20>>, sdcard_spi |-> <<\h1102080, \h20>>,
               timer_1us |-> <<\h11020a0, \h20>>, jtag_uart |-> <<\h11020c0, \h8>>,
               sysid |-> <<\h11020c8, \h8>>, acortex_dc_fifo |-> <<\h11020d0, \h8>>]

Matches(addr) == {s \in DOMAIN RouterSpan :
                    addr - (addr % RouterSpan[s][2]) = RouterSpan[s][1]}

\* Registers by the word address a slave sees.
UartDecode == <<"RXDATA", "TXDATA", "STATUS", "CONTROL">>
TimerDecode == <<"STATUS", "CONTROL", "PERIODL", "PERIODH", "SNAPL", "SNAPH">>
SpiDecode == <<"RXDATA", "TXDATA", "STATUS", "CONTROL", "none", "SLAVE_SEL">>
JtagDecode == <<"DATA", "CONTROL">>
SysidDecode == <<"ID", "TIMESTAMP">>

\* The cortex drops two bits of the word address and splits the rest into
\* block code, code within the block and register.
CortexWord(off) == off \div 16
BlockCode(w) == (w \div \h1000) % 16
SubCode(w) == (w \div \h100) % 16
RegCode(w) == w % \h100

AcortexDecode(sub, reg) ==
    CASE sub = 0 -> <<"I2C_STATUS", "I2C_ADDR", "I2C_DATA", "I2C_CLK_DIV">>[reg + 1]
      [] sub = 1 -> <<"SRAM_STATUS", "SRAM_ACC_CTRL", "SRAM_ACC_ADDR_H", "SRAM_ACC_ADDR_L",
                      "SRAM_ACC_DATA">>[reg + 1]
      [] sub = 2 -> <<"PRSR_CTRL", "PRSR_FSM_PSTATE", "PRSR_BYTES_READ_H", "PRSR_BYTES_READ_L",
                      "PRSR_HDR_RAM_RD_ADDR", "PRSR_HDR_RAM_RD_DATA">>[reg + 1]
      [] sub = 3 -> <<"DAC_CTRL", "DAC_STATUS", "DAC_FS_DIV", "DAC_MCLK_SEL">>[reg + 1]
      [] sub = 4 -> "ADC_LCAPTURE"
      [] sub = 5 -> "ADC_RCAPTURE"
      [] sub = 6 -> "ADC_START"
      [] sub = 7 -> "AUDIO_SRC_SEL"
      [] sub = 8 -> "RESET"

FgyrusDecode(sub, reg) ==
    IF sub # 0 THEN "ram"
    ELSE CASE reg = 0 -> "CONTROL" [] reg = 2 -> "FSM_PSTATE" [] reg = 4 -> "STATUS"
           [] reg = 6 -> "POST_NORM" [] OTHER -> "none"

\* A register is its name, the channel and the index it belongs to.
CortexDecode(off) ==
    LET w == CortexWord(off)
    IN  CASE BlockCode(w) = 0 -> <<FgyrusDecode(SubCode(w), RegCode(w)), "L", 0>>
          [] BlockCode(w) = 1 -> <<FgyrusDecode(SubCode(w), RegCode(w)), "R", 0>>
          [] BlockCode(w) = 2 -> <<AcortexDecode(SubCode(w), RegCode(w)), "-", 0>>
          [] BlockCode(w) = 3 -> IF SubCode(w) = 0 THEN <<"VCORTEX_CONTROL", "-", 0>>
                                 ELSE <<"PWM_RAM", "-", RegCode(w) % 16>>
          [] OTHER -> <<"none", "-", 0>>

\* fft_cache_mm_slave: bit 9 of the word address is the channel, seven bits
\* from bit 2 the sample.
FftCacheDecode(off) ==
    LET w == off \div 4
    IN  <<"FFT_CACHE", IF w \div 512 = 1 THEN "L" ELSE "R", (w \div 4) % 128>>

\* limbus_sys_perf_cntr: four words to a section, a write stops or starts it.
PerfDecode(rw, w) ==
    <<IF rw = "wr" THEN <<"end", "begin", "none", "none">>[(w % 4) + 1]
      ELSE <<"time_lo", "time_hi", "starts", "none">>[(w % 4) + 1], "-", w \div 4>>

Table(t, w) == <<IF w < Len(t) THEN t[w + 1] ELSE "none", "-", 0>>

\* The register that answers an access.
Decode(s, rw, addr) ==
    LET off == addr - RouterSpan[s][1]
        w   == off \div 4
    IN  CASE s = "uart_0" -> Table(UartDecode, w)
          [] s \in {"timer_0", "timer_1us"} -> Table(TimerDecode, w)
          [] s = "sdcard_spi" -> Table(SpiDecode, w)
          [] s = "jtag_uart" -> Table(JtagDecode, w)
          [] s = "sysid" -> Table(SysidDecode, w)
          [] s = "acortex_dc_fifo" -> Table(<<"DATA">>, w)
          [] s = "perf_cntr" -> PerfDecode(rw, w)
          [] s = "fft_cache_mm_sl" -> FftCacheDecode(off)
          [] s = "cortex_mm_sl" -> CortexDecode(off)
          [] OTHER -> <<"none", "-", 0>>

\* limbus_sys.v and the interrupt mapper: the device on each line.
IrqLine == <<"jtag_uart", "uart_0", "timer_0", "sdcard_spi", "timer_1us", "cortex_mm_sl">>

-----------------------------------------------------------------------------
(* Flags.  The bit a header gives a flag, and the bit the RTL drives.       *)

UART_STATUS == [PE |-> 0, FE |-> 1, BRK |-> 2, ROE |-> 3, TOE |-> 4, TMT |-> 5, TRDY |-> 6,
                RRDY |-> 7, E |-> 8, DCTS |-> 10, CTS |-> 11, EOP |-> 12]
UART_CONTROL == [PE |-> 0, FE |-> 1, BRK |-> 2, ROE |-> 3, TOE |-> 4, TMT |-> 5, TRDY |-> 6,
                 RRDY |-> 7, E |-> 8, DCTS |-> 10, RTS |-> 11, EOP |-> 12]
TIMER_STATUS == [TO |-> 0, RUN |-> 1]

SPI_STATUS == [ROE |-> 3, TOE |-> 4, TMT |-> 5, TRDY |-> 6, RRDY |-> 7, E |-> 8]
JTAG_CONTROL == [RE |-> 0, WE |-> 1, RI |-> 8, WI |-> 9, AC |-> 10]
JTAG_DATA == [RVALID |-> 15]
I2C_STATUS == [BUSY |-> 0, NACK |-> 1]
\* The overflow mask of sram.h, 0x16, names no single flag; nothing uses it.
SRAM_STATUS == [EMPTY |-> 0, ALMOST_EMPTY |-> 1, FULL |-> 2, UNDERRUN |-> 3]
FGYRUS_STATUS == [BUSY |-> 0]

HeaderFlags == [uart_0 |-> UART_STATUS, uart_control |-> UART_CONTROL,
                timer_0 |-> TIMER_STATUS, sdcard_spi |-> SPI_STATUS,
                jtag_control |-> JTAG_CONTROL, jtag_data |-> JTAG_DATA, i2c |-> I2C_STATUS,
                sram |-> SRAM_STATUS, fgyrus |-> FGYRUS_STATUS]

\* The status words of the RTL, from bit 0 up; "0" is a constant zero, and
\* so is all that is left out above.
UartStatusReg == <<"PE", "FE", "BRK", "ROE", "TOE", "TMT", "TRDY", "RRDY", "E">>
UartControlReg == <<"PE", "FE", "BRK", "ROE", "TOE", "TMT", "TRDY", "RRDY", "E", "TRBK">>
TimerStatusReg == <<"TO", "RUN">>
SpiStatusReg == <<"0", "0", "0", "ROE", "TOE", "TMT", "TRDY", "RRDY", "E", "EOP">>
JtagControlReg == <<"RE", "WE", "0", "0", "0", "0", "0", "0", "RI", "WI", "AC">>
JtagDataReg == <<"0", "0", "0", "0", "0", "0", "0", "0", "RI", "WI", "AC", "0", "AE", "AF",
                 "WOVF", "RVALID">>
I2cStatusReg == <<"BUSY", "NACK">>
SramStatusReg == <<"EMPTY", "ALMOST_EMPTY", "FULL", "UNDERRUN", "OVERFLOW">>
FgyrusStatusReg == <<"BUSY">>

StatusWord == [uart_0 |-> UartStatusReg, uart_control |-> UartControlReg,
               timer_0 |-> TimerStatusReg, sdcard_spi |-> SpiStatusReg,
               jtag_control |-> JtagControlReg, jtag_data |-> JtagDataReg, i2c |-> I2cStatusReg,
               sram |-> SramStatusReg, fgyrus |-> FgyrusStatusReg]

-----------------------------------------------------------------------------
CONSTANTS Half,       \* values of one half of the byte counter, 2^16
          HdrBytes,   \* bytes that must have been read, 48
          HdrWords,   \* words of the header that are fetched, 23
          MaxWords    \* bound: words of a file

VARIABLES bus,   \* the access under way
          flg,   \* flags driven by a device and what the driver makes of them
          isr,   \* an interrupt and the handler that ran
          prs,   \* the parser: its word counter and its header RAM
          fch    \* the thread that fetches the header

regVars == <<bus, flg, isr, prs, fch>>

ASSUME RegConstants == /\ Half \in Nat \ {0} /\ HdrBytes \in Nat /\ HdrWords \in Nat \ {0}
                       /\ MaxWords \in Nat

\* The header ends before the bytes that are waited for, and those are fewer than
\* the low half of the counter can count (46, 48 and 65536).
ASSUME HeaderFits == 2 * HdrWords <= HdrBytes /\ HdrBytes <= Half

NoAccess == [pc |-> "idle", rw |-> "rd", want |-> <<"none", "-", 0>>, dev |-> "sdram", addr |-> 0,
             slaves |-> {}, got |-> <<"none", "-", 0>>]

\* Words before the samples: a format chunk of 16 or of 18 bytes.
HdrLens == {HdrWords - 1, HdrWords}

RegsInit ==
    /\ bus = NoAccess
    /\ flg = [word |-> "uart_0", driven |-> {}, seen |-> {}]
    /\ isr = [from |-> "none", ran |-> "none"]
    /\ \E n \in HdrLens :
         prs = [words |-> 0, active |-> FALSE, ended |-> FALSE, hdr |-> n, stored |-> {}, missed |-> {}]
    /\ fch = [pc |-> "idle", h |-> 0, l |-> 0, first |-> "h", i |-> 0, clean |-> TRUE, stale |-> {}]

-----------------------------------------------------------------------------
(* The drivers' accesses.                                                   *)

Access(rw, dev, want, addr) == [pc |-> "issued", rw |-> rw, want |-> want, dev |-> dev, addr |-> addr,
                                slaves |-> {}, got |-> NoAccess.got]

ByNumber == UNION {{Access(rw, d, <<r, "-", 0>>, Native(d, NumberOf[d][r])) :
                      r \in DOMAIN NumberOf[d], rw \in {"rd", "wr"}} : d \in DOMAIN NumberOf}

AcortexMap == <<I2C_DRIVER, SRAM, PRSR, DAC_DRVR, ACORTEX>>

ByOffset == UNION {{Access(rw, "cortex_mm_sl", <<r, "-", 0>>,
                           Dynamic("cortex_mm_sl", AcortexMap[m][r])) :
                      r \in DOMAIN AcortexMap[m], rw \in {"rd", "wr"}} : m \in DOMAIN AcortexMap}

FgyrusAccess(left, r, rw) == Access(rw, "cortex_mm_sl", <<r, IF left THEN "L" ELSE "R", 0>>,
                                    Dynamic("cortex_mm_sl", get_full_fgyrus_addr(left, FGYRUS[r])))
OfFgyrus == {FgyrusAccess(left, r, rw) : left \in BOOLEAN, r \in DOMAIN FGYRUS, rw \in {"rd", "wr"}}

OfVcortex == {Access("wr", "cortex_mm_sl", <<"VCORTEX_CONTROL", "-", 0>>,
                     Dynamic("cortex_mm_sl", VCORTEX_CONTROL))}
             \cup {Access("wr", "cortex_mm_sl", <<"PWM_RAM", "-", i>>,
                          Dynamic("cortex_mm_sl", pwm_paint(i))) : i \in 0 .. 15}

CacheAccess(left, i) == Access("rd", "fft_cache_mm_sl", <<"FFT_CACHE", IF left THEN "L" ELSE "R", i>>,
                               Dynamic("fft_cache_mm_sl", read_fft_cache(left, i)))
OfFftCache == {CacheAccess(left, i) : left \in BOOLEAN, i \in 0 .. 127}

PerfAccess(s, r) == Access(IF r \in {"begin", "end"} THEN "wr" ELSE "rd", "perf_cntr", <<r, "-", s>>,
                           Native("perf_cntr", PerfNumber(s, r)))
OfPerf == {PerfAccess(s, r) : s \in 0 .. 3, r \in {"begin", "end", "time_lo", "time_hi", "starts"}}

Issue(a) == bus.pc = "idle" /\ bus' = a /\ UNCHANGED <<flg, isr, prs, fch>>

Route ==
    /\ bus.pc = "issued"
    /\ bus' = [bus EXCEPT !.pc = "routed", !.slaves = Matches(bus.addr)]
    /\ UNCHANGED <<flg, isr, prs, fch>>

Answer ==
    /\ bus.pc = "routed"
    /\ \E s \in bus.slaves : bus' = [bus EXCEPT !.pc = "answered", !.got = Decode(s, bus.rw, bus.addr)]
    /\ UNCHANGED <<flg, isr, prs, fch>>

Answered == bus.pc = "answered" /\ bus' = NoAccess /\ UNCHANGED <<flg, isr, prs, fch>>

-----------------------------------------------------------------------------
(* A status read: the device drives one flag, the driver tests its masks.   *)

ReadStatus(d, f) ==
    /\ flg' = [word |-> d, driven |-> {f},
               seen |-> {g \in DOMAIN HeaderFlags[d] :
                           /\ HeaderFlags[d][g] < Len(StatusWord[d])
                           /\ StatusWord[d][HeaderFlags[d][g] + 1] = f}]
    /\ UNCHANGED <<bus, isr, prs, fch>>

\* An interrupt: the handler registered with the device's number in system.h.
Interrupt(line) ==
    /\ isr' = [from |-> IrqLine[line + 1],
               ran |-> CHOOSE d \in DOMAIN System : System[d].irq = line]
    /\ UNCHANGED <<bus, flg, prs, fch>>

-----------------------------------------------------------------------------
(* The WAV parser, as far as the host sees it while it fetches a header:     *)
(* word_cntr_f and the header RAM, which keeps the words of earlier files.    *)

\* The parser is enabled and there are words in the SRAM.
Activate ==
    /\ ~prs.active
    /\ prs' = [prs EXCEPT !.active = TRUE]
    /\ UNCHANGED <<bus, flg, isr, fch>>

\* Reads of the file before are still on their way when it ends; they are the
\* only words that come while the parser is idle.
InFlight == 3
Arrives == prs.active \/ (prs.ended /\ prs.words < InFlight)

\* Every word is counted.  It is stored, at the place the counter names, while
\* the parser is active and before the samples.
ParserReads ==
    /\ Arrives /\ prs.words < MaxWords
    /\ prs' = [prs EXCEPT !.words = @ + 1,
                          !.stored = IF prs.active /\ prs.words < prs.hdr THEN @ \cup {prs.words} ELSE @,
                          !.missed = IF ~prs.active THEN @ \cup {prs.words} ELSE @]
    /\ UNCHANGED <<bus, flg, isr, fch>>

\* The last word of the samples: the counter is cleared, and the RAM holds
\* nothing of the file that comes next.
EndOfFile ==
    /\ prs.active /\ prs.words >= prs.hdr
    /\ \E n \in HdrLens :
         prs' = [words |-> 0, active |-> FALSE, ended |-> TRUE, hdr |-> n, stored |-> {}, missed |-> {}]
    /\ fch' = [fch EXCEPT !.clean = FALSE]
    /\ UNCHANGED <<bus, flg, isr>>

-----------------------------------------------------------------------------
(* get_wav_hdr_frm_prsr.  clean is FALSE once a file has ended since the      *)
(* fetch began; stale are the words copied while the RAM held them not yet.   *)

\* prsr_get_bytes_read reads the two halves of the counter; C does not say
\* in which order.
FetchHeader ==
    /\ fch.pc = "idle"
    /\ \E o \in {"h", "l"} : fch' = [fch EXCEPT !.pc = "first", !.first = o, !.i = 0,
                                                !.clean = TRUE, !.stale = {}]
    /\ UNCHANGED <<bus, flg, isr, prs>>

\* The registers show the count of 16-bit words, times two.
Bytes == 2 * prs.words
HighHalf == Bytes \div Half
LowHalf == Bytes % Half

ReadFirst ==
    /\ fch.pc = "first"
    /\ fch' = IF fch.first = "h" THEN [fch EXCEPT !.pc = "second", !.h = HighHalf]
              ELSE [fch EXCEPT !.pc = "second", !.l = LowHalf]
    /\ UNCHANGED <<bus, flg, isr, prs>>

ReadSecond ==
    /\ fch.pc = "second"
    /\ fch' = IF fch.first = "h" THEN [fch EXCEPT !.pc = "test", !.l = LowHalf]
              ELSE [fch EXCEPT !.pc = "test", !.h = HighHalf]
    /\ UNCHANGED <<bus, flg, isr, prs>>

prsr_get_bytes_read == fch.h * Half + fch.l

HeaderThere == prsr_get_bytes_read >= HdrBytes

\* The thread sleeps a millisecond and asks again, or copies the header.
TestBytes ==
    /\ fch.pc = "test"
    /\ fch' = IF HeaderThere THEN [fch EXCEPT !.pc = "copy"] ELSE [fch EXCEPT !.pc = "first"]
    /\ UNCHANGED <<bus, flg, isr, prs>>

\* prsr_hdr_ram_read16: whatever the RAM holds at place i.
CopyWord ==
    /\ fch.pc = "copy"
    /\ fch' = IF fch.i = HdrWords THEN [fch EXCEPT !.pc = "idle"]
              ELSE [fch EXCEPT !.i = @ + 1,
                               !.stale = IF fch.i \in prs.stored THEN @ ELSE @ \cup {fch.i}]
    /\ UNCHANGED <<bus, flg, isr, prs>>

BusActs == \/ \E a \in ByNumber \cup ByOffset \cup OfFgyrus \cup OfVcortex \cup OfFftCache
                          \cup OfPerf : Issue(a)
           \/ Route \/ Answer \/ Answered

StatusActs == \/ \E d \in DOMAIN StatusWord : \E i \in DOMAIN StatusWord[d] :
                     StatusWord[d][i] # "0" /\ ReadStatus(d, StatusWord[d][i])
              \/ \E k \in 0 .. (Len(IrqLine) - 1) : Interrupt(k)

PrsrActs == \/ FetchHeader \/ ReadFirst \/ ReadSecond \/ TestBytes \/ CopyWord
            \/ Activate \/ ParserReads \/ EndOfFile

-----------------------------------------------------------------------------
\* Every access a driver makes is taken by exactly one slave, the device it is
\* meant for, and answered by the register it names: system.h and the register
\* headers agree with the address router and the decoders of the RTL.
AccessLands ==
    /\ bus.pc = "routed" => bus.slaves = {bus.dev}
    /\ bus.pc = "answered" => bus.got = bus.want

\* A driver that tests a status word sees the flag the device drives, and no
\* other: the masks of the headers are the bits of the RTL's status words
\* (flags the headers do not name, such as the SPI's end of packet, are seen
\* by no mask).
FlagsAgree == flg.seen = flg.driven \cap DOMAIN HeaderFlags[flg.word]

\* The handler that runs is the one of the device that interrupts: the numbers
\* in system.h are the lines of the interrupt mapper.
IrqReachesDriver == isr.ran = isr.from

\* Unless a file ends while it fetches, get_wav_hdr_frm_prsr copies the header of
\* the file that plays, although the count it waits for comes in two halves that
\* may belong to different counts (prsr_get_bytes_read): the only words that are
\* not in the RAM are those behind a short header and those that reached the
\* parser while it was idle (wav_prsr, hdr_ram_wr_en_c).
HeaderComplete == fch.clean => \A w \in fch.stale : w >= prs.hdr \/ w \in prs.missed
=============================================================================
