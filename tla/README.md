# Synesthesia: a verification project in TLA+

Synesthesia plays WAV files on an Altera DE1 board and turns the music into
light. A Nios II processor runs the firmware LEDOS (ChibiOS, FatFs, a shell),
reads files from an SD card and streams them into the SRAM of the board; the
hardware ("cortex", `src/dgn/rtl`) parses them, plays them through a WM8731
codec, computes a 128-point FFT of each channel, and drives LEDs by PWM. This
directory models the hardware's data path and the firmware, from the interrupt
controls up to the shell, as TLA+ modules, checks them with TLC and proves
with TLAPS what must hold of the SRAM path, the register path, the WAV parser
and the HAL's interrupt controls for every size of them.

Contents: [inventory](#1-inventory), [modules](#2-modules-and-code),
[runs](#3-runs), [bounds](#4-bounds), [fairness](#5-fairness),
[proofs](#6-proofs), [faults met](#7-what-the-code-does-otherwise-than-it-should),
[what programs must observe](#8-what-callers-must-observe),
[limits](#9-not-modelled), [plan](#10-plan), [how to run](#11-running).

## 1. Inventory

Data flows from left to right; the host reaches every block through the
register path.

    SD card -> LEDOS -> Avalon-ST -> SRAM path -> WAV parser -> PCM FIFO -> codec driver -> WM8731
                 |                  (arbiter,        |
                 |                   FIFO, pins)     +-> ping-pong buffers -> FFT engine -> result RAM
                 |                                                                            |
                 +-- Avalon-MM -> clock-crossing bridge -> local bus -> registers             v
                 +-- FFT cache slave <-------------------------------------------- LEDOS plugin -> PWM

and the firmware, from top to bottom:

    shell and commands (bash.c, shell.c) -- messages --> visualisation thread
       |            |                                        |
     FatFs        audio drivers (codec, i2c, dac, prsr) ---- registers
       |            |
    SD driver     ChibiOS/RT (threads, timers, semaphores, mutexes, events, messages, queues, memory)
       |            |
     SPI          Altera HAL (boot, interrupts, ticks, descriptors, JTAG UART, UART, heap)

Hardware.

| Component | State | Operations | Hard because |
|---|---|---|---|
| SRAM FIFO controller (`sram_ff_cntrlr.v`) | two pointers with a wrap bit, three registered flags | read, write, reset | flags come from Gray codes of the next pointers and guard the clock after |
| SRAM path (`sram_arb.v`, `sram_drvr.v`, `sram_lb.v`) | TDM slot and counter, request and valid pipelines, pin registers, the chip, access registers | stream word in, parser read, host read or write (MM), reset | three users share one data path, each request is answered three clocks later, nothing tags an answer |
| Register path (`syn_lb_cdc_bridge.v`, `syn_cortex_lb.v`, `acortex_lb.v`, block decoders) | transaction FIFO, response FIFO, wait flag, valid pipelines, registers, interrupt | host read or write, acknowledge, response | two clocks, late views of FIFO levels, acknowledges of different latency ORed together |
| WAV parser and PCM FIFO (`wav_prsr.v`, `acortex_top.v`) | three-level FSM, word counter, sizes, format, channel registers, header RAM, FIFO level | parse a word, restart, enable, reset | reads ahead of what it knows, size arrives while counting, back-pressure with reads on their way |
| FFT engine (`fgyrus_fsm.v`, `butterfly_wing.v`, `acortex2fgyrus_bffr.v`, `pulse_sync_tggl.v`) and the testbench's reference (`fft.c`) | FSM, one-hot pipelines, counters, FFT RAM, butterfly and divider pipelines, ping-pong pointer, synchroniser | write a sample, transform a frame, enable | about twenty fixed latencies must agree, nothing interlocks; two clocks; sample, stage and twiddle order fit only together |
| Register maps (`*_reg_map.v`, `system.h`, drivers' headers) | none | decode an address, a flag, an interrupt line | written down twice, once in C and once in Verilog |

Firmware.

| Component | State | Operations | Hard because |
|---|---|---|---|
| ChibiOS scheduler and synchronisation | ready list, thread states and queues, timer list, semaphores, mutexes, conditions, event sources, message queues, mailbox, byte queues | every call that blocks, wakes or changes a priority; interrupts; ticks | a timer and a signal wake the same thread; priorities change inside sorted lists; work goes on after a sleep with what was read before it |
| ChibiOS memory and registry | core pointer, free list, pool, references, registry list; links of the thread lists | allocate, free, create, release, walk | splitting and joining, a release outside of the lock, stale links |
| FatFs (`ff.c`) | sector window, FAT copies, directory entries, file and directory objects, current directory, table of open files | every call LEDOS builds, and formatting and sharing that it leaves out | one window for everything, several writes per call, each may fail or be the last |
| SD card driver (`diskio.c`) | card type, status, the card's own state | initialise, read, write, ioctl | a card is pulled or exchanged between any two commands |
| LEDOS drivers (`codec.c`, `i2c_drvr.c`, `dac_drvr.c`, `prsr.c`, ...) | shadow registers; the codec's own; clock and converter enables; capture RAM | configure, initialise, capture, fetch the WAV header | a refused I2C write half-way; the order of power, clock and mute |
| LEDOS shell and visualisation thread | line, arguments, thread references, plugin, engine enables | type, erase, break off, run a command, start and stop the plugin | two threads meet over messages and a global |
| Altera HAL and drivers | IENABLE and its copy, ticks and alarms, descriptor table, rings of the JTAG UART and UART, SPI, FIFO, performance counter, heap | boot, interrupts, open to close, read, write, ioctl, sleep, time of day | interrupts between any two lines, counters that wrap, a host that goes away |

What makes each part correct is in section 3, as the properties of its run.
`PROJECT.json` lists under `hazards` the lines where it is at risk, with the
properties that would notice, and under `components` every part, modelled or not.

## 2. Modules and code

For the hardware one action is one clock edge, or one step of an actor between
edges; register names are those of the RTL. For the firmware one action is what
the code does with the kernel lock held or interrupts off, one register access,
one command to a card, or one call where nothing can come in between; operators
keep the names of the C functions. A `Mutant` comment marks an operator that is
no part of the model: a plausible error in the definition after it, used to see
that the property named with it in `PROJECT.json` notices.

Hardware.

| Module | Models | Notes |
|---|---|---|
| `SramFfCntrlr` | `sram_ff_cntrlr.v` | Pointers modulo 2^(W+1); Gray codes as functions from bit index to bit. |
| `SramPath`, `MCSramPath` | `sram_arb.v`, `sram_drvr.v`, `sram_lb.v` and the controller | One action per slot: `StSlot`, `MmSlot`, `ImSlot`; each performs `EveryClk` (wheel, pins and chip, register block, bus master) and drives `FfClk`. `HostReset` clears every register; the write on the pins still lands. |
| `WordFifo` | what the SRAM path promises | A FIFO seen from its ports: the word the stream hands over in a clock, the word delivered, the overflow report and the reset are visible, the queue is internal. Implemented by `SramPath` with the ports taken from its interface (`port` keeps the inputs of the last clock) and the queue read off the pipeline: the word on the pins, the word in the arbiter's register, then the stored words, as they will be when pending writes have landed. |
| `LbBridge` | `syn_lb_cdc_bridge.v`, `syn_cortex_lb.v`, block decoders | `AvClk` and `LbClk` are edges of the two clocks; `XtnWrSync`, `XtnRdSync`, `RspSync` let one side of a dual-clock FIFO see the other's progress, later. |
| `RegBus` | what the register path promises | Implemented by `LbBridge` with the registers and answers that result from replaying the pending transactions. |
| `WavPrsr`, `MCWavPrsr` | `wav_prsr.v`, PCM FIFO of `acortex_top.v` | A word is `<<file, index>>`. `Clk(im, mm)` is a clock in which the arbiter's slot is the parser's or a host read leaves its word on the data bus. |
| `FgyrusFft`, `MCFgyrusFft` | FFT engine of one channel | A datum is its provenance `<<stage, place, buffer>>`; a butterfly of wrong operands, a division of two bins, or a RAM word read while it is written gives `X`. |
| `FftReference` | `verif/tb/dpi/fft.c`, twiddle RAM contents | A value is a sum of inputs times roots of unity, kept as exponents: the recursion of the testbench, the definition of the transform and the engine's stages are compared as such. |

Kernel.

| Module | Models | Notes |
|---|---|---|
| `ChSched` | `chschd.c`, `chvt.c`, `chsys.c`, `chthreads.c` | The kernel's state is one record `k` and a kernel function an operator from `k` to `k`. What a call does after it has slept is in `k.cont`. |
| `ChSync` | `chsem.c`, `chmtx.c`, `chcond.c`, `chevents.c`; `chmsg.c`, `chmboxes.c`, `chqueues.c` | Operators over `k`: a call from entry to where it sleeps or returns; messages, mailboxes and byte queues over the semaphores where the code uses them. |
| `ChKernel`, `MCChKernel` | threads and interrupts that make the calls | A behaviour uses the calls of one member of `Programs`, in any order. |
| `ChMemory`, `MCChMemory` | `chmemcore.c`, `chheap.c`, `chmempools.c`, `chdynamic.c`, `chregistry.c` | What is done under one lock is one step. |
| `ThreadLists`, `ChLists` | `chlists.c`, and what it promises | Links and anchors implement sequences and stacks. |

File system.

| Module | Models | Notes |
|---|---|---|
| `FatDisk` | `ff.c` up to directory handling | The sector window, FAT12/16/32 entries, chains, directory entries, `sync`. `After(call, Rest)` is what a function goes on to do with the result of a call, which is evaluated once. |
| `FatFile` | the calls of `ff.c` | `f_open` ... `f_getcwd`, each an operator over the volume and an object. |
| `FatFs`, `MCFatFs` | a program and a card that fails | One call is one step (FatFs has no locks, LEDOS calls it from one thread); a fault hits any of its writes. |
| `SdCard` | `diskio.c` and a card | One command with its answer, or one data block, is one step. |
| `FatVolume`, `FatMount`, `MCFatMount` | `check_fs`, `chk_mounted`, `validate`, `f_mount` over `SdCard` | Cards of three kinds come and go. |
| `FatName` | `create_name`, `get_fileinfo` | Byte by byte, code page 932. |
| `FatFormat` | `f_mkfs`, `f_fdisk` | Configured out of this build (`_USE_MKFS`, `_MULTI_PARTITION`). |
| `FatLock` | `chk_lock` ... `clear_lock` and their callers | Configured out of this build (`_FS_SHARE`). |

LEDOS and HAL.

| Module | Models | Notes |
|---|---|---|
| `LedosCodec` | `codec.c` with the field macros of `codec.h`, `i2c_drvr.c`, `dac_drvr.c`, `acortex.c`, `ledos.c` | A driver function is the sequence of register accesses it makes; the I2C master acknowledges or refuses. |
| `LedosShell` | `shell.c`, `bash.c`, `lsd.c` | Line editor, tokeniser, commands as the calls they make, the two threads. |
| `LedosRegs` | headers of every driver, `*_reg_map.v`, generated address router and interrupt mapper, `prsr.c` | Both sides of every register, flag and line; neither is derived from the other. |
| `MCLedos` | | The initialisation, then one of nine applications. |
| `HalDrivers` | the timer driver and `alt_tick.c`; the JTAG UART and UART drivers; the SPI, performance counter and FIFO drivers; each with its core | One register access at a time: interrupts come in between. The last three poll. |
| `HalLib` | `alt_open.c`, `alt_close.c`, `alt_get_fd.c`, `alt_fd_lock.c`, ...; `alt_load.c`, `alt_busy_sleep.c`, `alt_printf.c`, `alt_find_file.c` | The descriptor table, redirection, exclusive access; the functions that need no device. |
| `HalIrq` | `alt_irq.h`, `alt_legacy_irq.h`, `alt_iic.c`, `alt_irq_handler.c` | Why `Hal` may take a region with interrupts off as one step. Lines are numbers 0 to 31, the lowest pending one is served first; `IrqSpec` is the part alone, as the proofs use it. |
| `Hal`, `MCHal` | `alt_main.c`, `alt_sys_init.c`, `alt_sbrk.c` and the rest together | In a behaviour the application uses one part, chosen at the start. |

## 3. Runs

States are distinct states TLC visits; the times, with two workers, are between
a few seconds and two minutes.

A property in bold is one the run's configuration names; the definitions in
parentheses are its conjuncts, each stated and commented where it belongs.

| Run | Instance | Shows |
|---|---|---|
| `sram_fifo` | 4 words of SRAM, slots of 4 clocks, one-bit words, host reads and resets; the history of host accesses is left out (`MCFifoSpec`) | **TypeOK**, **NoOverrun**, **FlagsExact**; the path implements a FIFO of the words the stream hands over: what is delivered is what was put in, a word is refused only by a full SRAM and with the overflow flag set, words are discarded only by a reset, **FifoSpec** |
| `sram_mm` | the same module with host reads and writes of an SRAM word next to the stream | **NoSpuriousAck**; **MmWriteLands**; **MmReadServed** (`MmReadReturnsWord`; `MmAccessPrompt`: at most `P_ARB_LEN + 7` clocks per access, a bound that is reached) |
| `lb_bus` | three targets of different latency, FIFO of 2, 2 outstanding reads | **BridgeInv** (`TypeOK`, `PopsOnlyItsOwn`); implements `RegBus`, **RegBusSpec**; **BusAnswers** (`ReadsAnswered`, `WaitReqEnds`) |
| `wav` (632,518) | four files, one per format, the first longer than the PCM FIFO, a DAC of any speed, host reads during one, resets and enables at any time | **FramesInOrder**; **ParserInv** (`TypeOK`, `EofOnTime`, `PcmFits`, `HeaderKept`); **StreamRead**: an enabled parser reads on |
| `fft` (447,727) | 8 samples, 3 stages, divider of 16 clocks, both buffers in turn; transforms of 2 to 128 points for the reference | **EngineInv** (`TypeOK`, `WritesInPlace`, `ResultsComplete`, `ReadyMeansFull`); **FrameCompletes**; **EngineIsDft** (`ReferenceIsDft`, `EngineMatchesReference`): scoreboard and engine compute the same transform, the right one |
| `kernel` | three threads, main above two equals, fifteen programs that share out the API | **KernelInv** (`TypeOK`, `QueuesConsistent`, `SemCountsWaiters`, `NoDanglingTimer`); **PriorityRules** (`HighestRuns`, `PriorityInherited`); **NothingLost** (`NoLostEvent`, `NoLostMessage`, `MailboxExact`, `NoLostWakeup`); **ThreadsProgress** (`TimeoutEnds`, `RoundRobin`) |
| `kernel_mem` | 7 units of memory, two tasks, threads from heap and pool; three threads in linked lists | **MemoryInv** (`MemoryTiles`, `FreeListJoined`, `NoUseAfterFree`, `RegistryExact`); the links implement sequences, **ListsAreSequences** |
| `fatfs` | FAT12, FAT16 and FAT32 volumes of 5 clusters, five calls in any order, every one of the first seven writes failing once or being the last | **VolumeInv** (`VolumeSound`, `NoLostClusters`, `CopiesAgree`, `CwdLeadsBack`); **CallsExact** (`ReadExact`, `WriteExact`, `CloseDurable`, `ReaddirNext`); **OthersUntouched** |
| `sdcard` | cards with byte and block addresses and three layouts, three exchanges and one faulty answer anywhere in four calls, a wrong echo of CMD8 and a missed CMD12 among them | **CardInv** (`TypeOK`, `RightBlock`, `OwnCard`, `NoForeignData`, `GeometrySound`, `CapacityTrue`); **DataCurrent** (`WindowTrue`, `ReadLatest`, `SyncDurable`); **CallsReturn** |
| `ledos` (581,214) | nine applications | see below |
| `hal` (about 335,000) | twelve parts of the HAL | see below |
| `uart_full` (violation) | the UART part of `hal` | **StoredAreKept** fails: finding 1 of section 7 |

`ledos`:

* **AudioInv**, two driver calls with up to two refused writes, and every field
  of the codec: `ShadowIsDevice` (shadow and codec differ only where a write was
  refused), `InitPowersLast`, `DacQuietWhenOff`, `CaptureWhole`, `FieldsApart`;
* **ShellInv**, seven keys on a line buffer without a NUL: `LineEnds` (a line ended
  by Enter is cut at its last character, only control-D leads behind the buffer),
  `HandleClosed`, `PromptQuiet`, `PaintsLiveData`, `AnswersSender`; and **DropReturns**: the command that stops
  the visualisation gets its answer;
* **RegistersAgree**: `AccessLands` (every access of every driver reaches the one
  register it names), `FlagsAgree`, `IrqReachesDriver`, `HeaderComplete`
  (unless a file ends during the fetch, the words copied are the header of the file
  that plays, although the count is read in two halves and runs on);
* **NamesAgree**: `NameComesBack`, `ListedNameOpens` for paths of bytes that are
  special in code page 932;
* **OptionsSound**: `FormatMounts`, `MountTrue`, `PartitionsApart` with every
  write failing once; `SharingHolds`, `LocksExact`.

`hal`:

* **TimeKept**: `AlarmsOnTime` across the wrap of the tick counter; `ClockKeepsTime`,
  the time set plus every tick since (counted without a wrap), until the counter
  wraps; `SleepAsLongAsAsked`, never shorter than asked, and longer only by what the
  divisions round off unless the time is a multiple of the longest loop;
* **BytesKept**: `JtagReceivesAll`, `JtagSendsAll`, `JtagNotDeaf` with a host that
  leaves and comes back; `UartSendsAll`, `UartRxOrder`, `UartNotDeaf`;
  `SpiExchange`; `FifoKeepsWords`, `FifoLevelCounts`;
* **HalInv**: `StdioAndWatchdog` and `LoadedInPlace` after boot, `FdsAccounted`,
  `HeapBlocksApart`, `PathsGoToTheirMount`, `HexReadsBack`, `PerfReportSound`;
* **IrqInv** of the interrupt controls: `LocksNest`, `EnablesKept`, `NestsUpward`;
* **LocksHold**: a device locked by a descriptor gets no further one; **CallsReturn**.

Properties that need a word of explanation:

* `AemptyBound`, which is proved (section 6), says what the flag bounds (half of the SRAM), not its name: the
  flag may be down with one word in the FIFO, when the pointers lie in
  different quarters of the ring.
* `HeaderKept` leaves out the first three words of every file but the first:
  words read ahead at the end of a file arrive while the parser is idle, are
  counted, and are not stored in the header RAM.
* `ReadyMeansFull` holds with resets while the first buffer fills; with resets
  while the second does, it is fault 7.
* `WritesInPlace` holds under `GapAssumption` (section 4).
* `HeaderComplete` leaves out two kinds of words that are in fact not in the header
  RAM: those behind a header with the short format chunk (22 words, and the code
  copies 23), and those that arrived while the parser was idle. It is about fetches
  during which no file ends; with one, see section 7.
* `ClockKeepsTime` stops at the wrap because the code does: see section 7.
* `HandleClosed` allows a file that stays open because closing it failed or because
  `perf` broke off.
* `VolumeSound` allows what a failing card cannot avoid: clusters that no file
  reaches. It does not allow two files to share one, an entry that leads to a
  free cluster, or a directory that cannot be walked. `NoLostClusters` and
  `CopiesAgree` are for programs without faults.

## 4. Bounds

* `P_SRAM_ADDR_W = 2`: the smallest width with a nonempty `[W-2:0]` part-select,
  so that every branch of the Gray comparison takes part; pointers wrap several
  times. The theorems remove this bound.
* `P_ARB_LEN = 4`: the smallest slot for which a read request cannot be granted
  twice (assumption `ArbLen`; with less the hardware fails, on the board it is
  16). `PathNoSpuriousAck` holds for every such length.
* `Word`, `Val` of two values: the data is never computed with. `MmAddr = {}`
  in `sram_fifo`: the host reads, at the reset value of its address register,
  and never writes (a host write into the stream's words is no FIFO).
* `XtnDepth = 2`, `MaxReads = 2`: a full FIFO, an access behind another and a
  read behind a read all happen.
* `PcmDepth = 6`, `Afull = 1`: the least margin the real mark leaves (five
  reads on their way); `PcmFits` fails with a margin of four. Files are below
  2^16 bytes (`SizeBound`): the high half of a size is 0 and takes part in nothing.
* `P_NO_STAGES = 3`: first, middle and last stage differ; the engine's latencies
  do not depend on the size. `Small` has bins that are scaled before the
  division and bins scaled after it, next to each other. `DivLat = 16` is the
  board's. `MaxLg = 7`: the reference is compared up to the board's 128 points.
* `Gap` with `GapAssumption`: the other buffer is not filled within the clocks
  of DECIMATE. At audio rates there are hundreds of clocks per sample; the
  parser can be faster only for as long as the PCM FIFO takes a burst.
* Kernel: three threads give a chain of two mutexes, a waiter next to a waiter
  of the same priority and one above; two units for semaphores, queues and
  mailboxes reach full, empty and one in between; `Times = {1, 2}` and a quantum
  of one tick make timers expire in both orders and together.
* Memory: with seven units, blocks of one and two with their headers are split,
  joined to the left, to the right and to both sides, and run out.
* FatFs: clusters of two sectors, sectors of two units and five clusters make
  every boundary occur within one write; five calls are the longest interesting
  sequence (open, write, close, unlink, mkdir) and the fault meets each of its
  writes. `FSS = 4` puts a FAT12 entry across a sector boundary.
* SD card: one fault and three exchanges per behaviour; a second fault only
  repeats an error path that starts over.
* Line of 6 characters, `MaxKeys = 7`: the line fills, one character more is
  refused, and there is a key left to end it or break it off. The buffer begins
  with no NUL in it (`MCInit`), the worst a stack can hold; the proof is for every
  contents. `MaxWords = 9` with `Half = 8` bytes: the count of a file carries into
  its high half twice, and the parser goes on to the next file.
* `TickMod = 6`, `IntMax = 7`, `PWord = 2`, `Half = 8`: counters that are 32, 31,
  32 and 16 bits wide in the code run through their wrap.
* Names of 3 + 2 bytes for 8 + 3, and the bytes NUL, `*`, `.`, `/`, an upper and
  a lower case letter, both kinds of lead byte and 0xE5; register values,
  capacities and erase blocks next to the limits of the FAT types.
* Table of open files: one slot, two files and three file objects, so that two
  readers share it, a writer has it alone, it is full for the other file, and a
  second mount leaves stale objects behind. `IdMod = 4` for the 16-bit identifier of
  a mount, more than there are mounts (`IdsFit`). `SharingCorrect` removes the bounds.
* Rings of 3 bytes in the UARTs: full, empty and wrapped within four bytes.

In `fatfs`, `hal`, `kernel_mem`, `sdcard` and `ledos` a program may come to its
end, so deadlock is not checked there; `CallsReturn`, `DropReturns` and
`TimeoutEnds` say that nobody is left waiting.

## 5. Fairness

* Clocks do not stop and synchronisers settle: weak fairness of `AvClk`,
  `LbClk`, `Clk`, `FgClk` and of the `Sync` actions.
* The SRAM arbiter grants (`LbClk(TRUE, _)`, `Clk(TRUE, FALSE)`): the slot wheel
  turns whatever its users do, and `MmAccessPrompt` bounds the wait.
* The source fills and the DAC plays (`Fill`, `DacTake`) in `StreamRead`: the
  claim is about the parser between them. The host's enabling is not fair.
* Kernel: the processor executes (weak fairness of `Run`), and the timer's
  interrupt, which stays pending while the lock masks it, is taken if the lock
  is free again and again (strong fairness of `Tick`). Calls are not fair.
* Mounting: FatFs and the driver go on (`FatStep`, `Disk`); nothing says that a
  card is plugged in. A card that is there but holds the data line busy for ever
  hangs the driver (`wait_on_spi`) and is left out.
* LEDOS: drivers, I2C master and capture logic go on, sleeps end; strong
  fairness of the shell, which has the processor again and again while the
  visualisation thread sleeps. The user is not fair.
* HAL: interrupts are served and leave the thread time (strong fairness of the
  thread); timer, wire and SPI core work. Nothing says that the application
  calls again, that bytes arrive or that the JTAG host stays; `CallsReturn`
  leaves out a JTAG write with the time-out "never" and no host, which blocks
  by design.

## 6. Proofs

`SramFfCntrlrProofs`: for every address width of at least 2,
`FfSpec => []` of `FfTypeOK`, `NoOverrun`, `FlagsExact` and `AemptyBound`.
None is inductive alone: the guards look at flags, so the pointers stay within
`Depth` only if the flags are exact; and the comparisons are exact only for
pointers within `Depth`. The conjunction `FfInv` is inductive. The work is in
the Gray code:

1. `GrayInjective`: equal Gray codes, equal pointers. From the top bit down, the
   first quotient in which two pointers differ would differ in its last bit;
   this is a minimum argument (`NatMin`) in place of an induction.
2. `GrayOpposite`: the Gray code of the pointer half a ring away is the code
   with its two top bits inverted. With 1, the comparison for full holds
   exactly at distance `Depth` (`GrayFullExact`).
3. `GrayAemptyQuarter`: equal top bits put both pointers into one quarter.

`SramPathProofs`, for every SRAM, slot length of at least 4, set of words and
host behaviour:

* `PathImplementsFf`: `Spec => FfSpec`; with it `PathNeverOverruns` and
  `PathFlagsExact` are the controller's theorems in the whole path.
* `PathTypeCorrect`: the types, strengthened by `BusOK`: the access registers
  latch what the bus carries.
* `PathNoSpuriousAck` and `PathMmWriteLands` from `AckInv`. `Wheel` ties the
  slot counter to the place of a read in its pipeline: a request stays up for
  four clocks after its grant, and the slot that began with the grant is at
  least as long, so it is not granted again. `Stages` says that request, valid,
  delayed valid and acknowledge follow each other one at a time while the bus
  waits. `Granted` keeps an acknowledged write in the arbiter's register.

* `PathImplementsFifo`: `Spec => FifoSpec`, what the stream hands over comes
  out, once and in order, unless the SRAM is full, and then the overflow flag is
  set (`Entry`). The mapping reads the queue off the hardware: the word on the pins, the
  word in the arbiter's register, the words the pointers enclose (`Stored`). The
  three lemmas that carry it are about `Stored`: a word of the stream goes behind
  the others (`StoredAccept`), a parser's request takes the first one
  (`StoredTaken`), everything else leaves all of them (`StoredKept`). They need
  that places of the ring less than a turn apart have different addresses
  (`RingDistinct`), and so the controller's invariant. The theorem assumes
  `NoMmWrites`: a host that writes into the SRAM may replace words of the stream,
  and then it is no FIFO, which is as the hardware is meant.

* `MmReadsServed`, of the path with the history that the properties of a host
  access speak about (`HistSpec`), for every slot length and mixture of accesses: `HistSpec => []MmReadServed`. `ReadInv` follows the word of a
  read through the arbiter's register, the pins and the data registers; it holds
  because no second read is granted meanwhile (`Wheel`) and because the word of
  an address counts the writes that are on their way (`WordAt`). `PaceInv` bounds
  the clocks an access has waited by what is left of its way: an ungranted
  request has waited no longer than the wheel has turned, and each of the seven
  registers costs one clock.

`LbBridgeProofs`, for every set of targets, FIFO depth and number of reads:

* `BridgeCorrect`: `Spec => []BridgeInv`. An acknowledge removes a transaction from
  the FIFO, and nothing in it says whose; it is its own because only one is ever
  in flight. The inductive invariant is `TypeOK`, `OneInFlight` (at most one valid
  on the path back, whichever latency it has, and only while the bridge waits,
  with the transaction still in `xtn_ff`) and `FifoKept`.
* `XtnFifoFits`: `FifoKept` alone, that the processor's side, which sees the
  FIFO level late, never writes into a full FIFO.

`WavPrsrProofs`, for every sequence of files, depth of the PCM FIFO and mark that
leaves five entries, pace of the source and of the DAC, and times of resets,
enables and host reads:

* `ParserCorrect`: `Spec => []ParserInv`: the end of a file is found on its last
  word, the PCM FIFO does not overflow, the header RAM holds the header.
  The inductive invariant has `StreamInv` (words on their way are the next ones),
  `ParseInv` (for each chunk of a file, which registers already hold what of its
  header) and `RoomInv` (level, pending write and words on their way stay
  within the mark plus four, the request registers being one clock ahead).
  `ParseInv` speaks about the word that comes next (`Cur`) and not about the words
  counted: the counter and the word come apart between a file's end and the
  start of the next one. `Quiet` is needed because the flag for the last word is
  computed all the time, also from a size of which one half has arrived.
  The theorem assumes `TwoWords`: with one word of data the end is not found
  (fault 6 of section 7).
* `FramesKept`: `MCSpec => []FramesInOrder`: what entered the PCM FIFO are the
  first frames of the files, in order, each once and whole, in every mixture of
  the four formats. `FrameInv` adds to the invariant above: `FormatInv` (the
  format registers hold what the header said from the field on that says it, so
  they are the old file's for half of a header), `ToggleInv` (the toggle counts
  the words of the data, over all files), `ChannelInv` (which halves of the
  incomplete frame the channel registers hold; they follow the bus in every
  clock, so a half is safe only because the word stays on the bus or the next
  one goes to the other register) and `OutInv` (the frames made so far are the
  first ones of `FramesUpTo`, with as many of this file as its words complete).
  Besides `TwoWords` the theorem has two hypotheses, each a limit of the code and
  met by the files of the run: `Aligned`, that no file begins with the toggle in
  the middle of one of its frames (fault 6 again), and `NarrowReads`, that the
  host does not read the SRAM while 32-bit samples are played, since its word
  would be shifted into the channel (fault 5).

`HalProofs`. Interrupt control, for every set of lines, nesting, and number of calls:

* `IrqCorrect`: `IrqSpec => []IrqInv`: regions nest, `alt_irq_active` and IENABLE are
  what was asked for, a handler is interrupted only by a line before its own.
  `CpuInv` is about a whole stack of interrupted frames: all but the running one
  stand where they could be interrupted (`BelowInv`), each handler's line comes
  before the one it interrupted (`NestInv`), the
  priority mask is that of the innermost frame that may be interrupted
  (`MaskInv`), the contexts of nested regions are all FALSE but the outermost
  (`RegionInv`), and what a call has read is still true when it writes
  (`CallInv`). TLC checked `CpuInv` on an instance of 36,760 states first.

The clock, for every width of the counter, rate, set of alarms and length of a wait:

* `TimeIsKept`: `MCSpec => []TimeKept`, with all the rest of the HAL going on. What the
  alarms promise is counted without wrap in the history `due`, and `OnTime` ties it
  to what the code keeps: `due` is the distance from the counter to the alarm's time,
  past the wrap exactly if `rollover` is set. That is inductive only because the code
  clears the flag in the tick in which the counter is 0, before it compares. The time of
  day is compared with the history `ticks`, every tick since the time was set, counted
  without a wrap: `TodInv` says what `settimeofday` keeps of the time set, and that
  the counter is where those ticks have brought it as long as it has not wrapped;
  quotient and remainder by the rate are then recombined (`UnitsOf`, `NormalKeeps`). `SleepInv` says what is left of a wait
  after k loops of INT_MAX. `TimeStep` collects the steps that touch any of this, for
  any callback and wait; the other actions are shown to leave it alone. Hypotheses:
  `TicksFit` (2^32 is well above a second's 1000 ticks; alarms are shorter than the
  counter), `RateDivides` (1,000,000 is a multiple of 1000: else the clock loses the
  rest in every second) and `AlarmsThere`. `Unlinked` is a recursive function;
  `RestExists` shows by a least counterexample that it is defined.

`LedosProofs`, about `MCLedos`. The shell and the visualisation thread, for every
length of the line buffer, number of arguments and set of sampling rates:

* `ShellCorrect`: `Spec => []ShellInv`. `ShellInd`, which TLC checked on the instance
  of the run first, ties the places of the two threads together: `Rendezvous` says,
  for each place of the shell, where the plugin can be and what is in its queue, so
  that there is never more than one message and its sender is the one that waits;
  `EnginesFollow` says from which place to which the capture and the two engines are on. At
  the prompt they are off because the initialisation does not touch them: `InOrder`
  and `InitLedosTyped` type the accesses that are left of every driver call, those of
  the initialisation more narrowly (`QuietAccesses`). `LineInd` is about the line: the buffer
  begins with any contents, a typed character never takes the last place, so Enter
  has one for its NUL, and only a line broken off can be without.

The register maps, for every size of the WAV header that fits one half of the counter:

* `RegistersCorrect`: `Spec => []RegistersAgree`. `MatchIsWithin` turns the router's
  masks into ranges, which do not overlap (`OneSlave`); then each access of each
  driver lands in the register it names (`ByNumberLands` for the HAL's devices,
  `ByOffsetLands`, `FgyrusLands`, `VcortexLands`, `FftCacheLands`, `PerfLands`), with
  the numbers of `system.h` and of the RTL. `FlagsMet` compares the status words bit
  by bit. `HeaderInd` is what makes the header complete although the counter runs
  on between the reads of its halves. `PrsrInd`: a word of the header that has been
  counted is in the RAM, or came while the parser was idle. `FetchInd`, while no file
  ends: a high half read first is not too large any
  more (`OldHigh`), a low half read first is harmless as the high one is then 0 or
  the header is there. It needs `HeaderFits`: the bytes waited for (48) cover the
  words copied (23) and fit into one half (65,536).

The table of open files, for every set of directory entries and file objects and
every size of the table:

* `SharingCorrect`: `LockSpec => [](SharingHolds /\ LocksExact)`. `LockGood` is stated
  of a state in the middle of a call too, since a call first mounts the volume
  again, then clears its file object, then makes the entry, and only then counts.
  Besides the two properties it needs that a file has one slot (`OneSlot`), that
  file objects of an earlier mount have older identifiers (`IdsOld`), and that a
  slot is free exactly when nobody is counted in it (`SlotFacts`): so `inc_lock`
  finds the room that `chk_lock` or `enq_lock` promised. `ReadersFit` is what keeps
  a number of readers from looking like `WriteMode`, `IdsFit` what keeps an old
  identifier of a mount (16 bits in the code) from coming back.

`ChListsProofs`, for every finite set of threads, set of queues and lists, and
every assignment of priorities:

* `ListsImplement`: `ListsSpec => ListsAreSequences`. `LinksInv` says that the links
  represent sequences (`Represent`): they lead from each node of a ring to the next
  (`Forward`), in a queue also back (`Backward`), and a thread is in one place of one
  list (`Apart`). It says nothing of the links of a thread that is in no list, and of
  a stack's links back, so it holds whatever stale links there are. Two lemmas carry
  the operations: linking a thread in front of place `c` inserts it into the sequence
  there (`InsertKeeps`), linking around it removes it (`RemoveKeeps`); `FirstStop`
  shows that the loop of `prio_insert` stops at the place the priorities ask for.
  That the mapping, a walk along the links, reads the same sequences back
  (`WalkOf`) needs that no list is longer than there are threads. The assumption
  `NodesApart` is that threads and anchors are different objects.

Assumptions: the widths, lengths and sets of the constants, each next to its
CONSTANT; and `PowersOfTwo`, the two facts about `2 ^ i` the provers lack, which
TLC evaluates for the instances. `NoMmWrites`, `TwoWords`, `Aligned`,
`NarrowReads`, `TicksFit`, `RateDivides` and `AlarmsThere` are hypotheses of their
theorems.

Only model-checked: all liveness; the refinement `RegBusSpec` (its mapping
replays a sequence of transactions, which is induction); the FFT engine, the kernel
and its memory, FatFs and the SD driver, of LEDOS `AudioInv`, `NamesAgree` and the
formatting part of `OptionsSound`, and the devices and descriptors of the HAL. Liveness, `ENABLED` and induction over data are beyond the
prover.

## 7. What the code does otherwise than it should

Shown by a run:

1. `altera_avalon_uart_init.c:182` (`uart_full`): the receive interrupt stores a
   byte before it looks for room. A reader that re-enables the interrupt while
   the ring is full makes the next byte move the end onto the start: the ring
   looks empty and its contents are lost.

Met while modelling; the models contain the behaviour, and the properties are
stated beside it.

Hardware:

2. `sram_arb.v:248`: the ready output is up whenever the slot is the stream's,
   full or not; its comment says "0->SRAM full". A word offered then is dropped.
3. `acortex_lb.v:274`: a write to the reset register also raises the read
   valid; the bridge answers a write, and the answer is taken for that of the
   next read. `lb_bus` does not have this target.
4. `syn_cortex_lb.v:176`: both branches of the interrupt clear are 0; the FFT
   interrupt stays up, and the access that should clear it is never
   acknowledged, so that the bridge waits for ever. LEDOS does not use it.
5. `wav_prsr.v:657`: the registers of 32-bit samples shift in the data bus in
   every clock; a host read of the SRAM between two halves corrupts a sample
   (`MmFiles` has only a 16-bit file).
6. `wav_prsr.v:539`: a file with one word of data has no word before its last,
   and its end is not found; `wav_prsr.v:655`: the channel toggle is not cleared
   between files.
7. `acortex2fgyrus_bffr.v:157`: the host's reset clears one side of the ready
   synchroniser; during the second buffer that is an edge, and the engine
   transforms samples nobody wrote (`AcResets` is the first buffer only).

Kernel: `chMBFetchI` (`chmboxes.c:372`) takes a message and never its unit of
the full semaphore, so the next fetch returns a message twice; `chMBReset`
forgets threads that were granted a slot and have not run (`:96`);
`chThdSetPriority` does not look at waiters that should lend their priority
(`chthreads.c:222`); a sleep of zero ticks wraps (`chvt.h:138`); `chThdRelease`
frees outside of the lock (`chdynamic.c:80`).

FatFs: `f_write` stores the error code of a failed allocation as the start
cluster (`ff.c:2506`); `f_sync` clears `FA__WRITTEN` before the entry is written
(`2621`); `create_chain` takes a read error for the end of a chain (`993`);
errors of the second FAT are ignored (`738`); `f_rename` moves a
directory below itself (`3442`); `f_mkfs` moves the data area past the end for
large erase blocks (`3640`) and writes the boot record before the FAT is cleared
(`3728`); `f_fdisk` lets an empty first partition start at sector 0 (`3824`).

SD driver: the second byte of the CMD13 answer and the CRC of data are dropped
(`diskio.c:389`, `278`); a CSD of version 2 is truncated (`559`); the byte
address is 32 bits wide (`469`); the answer to CMD12 is not looked at (`482`); an unanswered CMD13 makes the driver drop what
the window had to write (`387`).

LEDOS: the result of `codec_init` is ignored (`ledos.c:53`); control-D puts no NUL,
so the shell runs what the buffer holds from the line before (`shell.c:280`), and as
the buffer is not initialised (`shell.c:157`) there may be no NUL in it at all and
`_strtok` reads and writes behind it (`Overrun`); when a file ends between the reads
of the two halves of the byte count (`prsr.c:41`, `wav_prsr.v:510`), or after the
test, the old header is copied for the new file; words that arrive while the parser is
idle are counted but not stored (`wav_prsr.v:706`), and of a header with the short
format chunk the 23rd word copied is whatever the RAM held; the check for the visualisation thread comes after
the engines are on (`bash.c:382`); `perf` leaves a file open when a read fails
(`bash.c:276`); `SRAM_FF_OVERFLOW_MSK` is 0x16 (`sram.h:25`, unused).

HAL: `alt_fd_lock.c:61` never looks at the highest descriptor; `gettimeofday` adds
the wrapped counter to what `settimeofday` kept and falls back by the counter's range
when it wraps (`alt_gettod.c:91`); an alarm callback
that stops the next alarm makes `alt_tick` walk off the list (`alt_tick.c:102`);
an interrupt handler that is entered with nothing pending does not return
(`alt_irq_handler.c:141`); `alt_irq_enable` writes IENABLE without the priority
mask (`alt_legacy_irq.h:76`); a byte with a framing error is delivered
(`altera_avalon_uart_init.c:157`); non-blocking reads return the complement of
EWOULDBLOCK (`altera_avalon_uart_read.c:241`); a SPI command of length zero hangs
(`altera_avalon_spi.c:101`); FIFO reads return 0 for an empty FIFO
(`altera_avalon_fifo_util.c:167`).

## 8. What callers must observe

The models make the calls the code's own documentation allows, and beyond that:

* FatFs without sharing control: no file is open twice, none is deleted, renamed
  or emptied while open, no directory is moved below itself; `f_open` is given
  objects that are closed.
* No file object is kept over 2^16 mounts of its volume (`IdsFit`).
* Fewer than 0x100 readers of a file (`ReadersFit`): the count 0x100 means a
  writer.
* Formatting: the first partition is not empty, an erase block fits into each
  partition of a divided drive, a drive is divided before it is mounted.
* `MailboxExact`: programs without `chMBFetchI` and without `chMBReset` next to a
  granted thread.
* `NoUseAfterFree`: one task walks the registry and releases threads.
* `EnablesKept`: no source is enabled or disabled while a handler that let
  itself be interrupted runs.

## 9. Not modelled

* Values of samples, coefficients and magnitudes: the FFT models follow where
  words come from, not their rounding, normalisation shifts or overflow.
* Host accesses to the FFT engine's RAMs, its interrupt, two channels at once.
* I2C master, codec serial driver, clock multiplexer and LED PWM at the level of
  bits; the FFT cache slave's pipeline. What the firmware sees of the I2C master
  and the capture RAM is in `LedosCodec`.
* Metastability beyond a late or early view of a synchronised signal; timing.
* FatFs options outside of this build other than formatting and sharing: long
  names, fast seek, `f_forward`, the string functions.
* HAL: `alt_log_printf`, `gmon`, the timestamp driver, the small driver variants,
  the UART's ioctl, `alt_irq_register` of the legacy interface and the
  instruction exception API are compiled out; cache flushes do nothing on a
  processor without caches; DMA and flash wrappers have no device here. The
  FIFO driver has no device with a control slave in this system either
  and is modelled for its own sake.
* ChibiOS: debug checks and traces (switched off), the context switch itself,
  `chEvtDispatch`, `chThdSleepUntil`.
* LEDOS code that nothing calls: `wave_parse`, `chk_wav_hdr`, `PWMTask`,
  `SynTask`; the arithmetic of the plugin.
* Megafunctions and the generated interconnect, but for latency, contents and
  addresses; the OVM testbench, but for its reference FFT; the GUI.

## 10. Plan

Modelled, in this order: SRAM FIFO and path, register path, WAV parser, FFT
engine; the kernel, its memory, FatFs, the SD driver, LEDOS with its register
maps, the HAL, and the reference FFT. Proved: the SRAM FIFO and path, with its
refinement of a FIFO and its served host reads; the register path, the parser, the
interrupt controls and the clock of the HAL, the shell with its visualisation thread,
the register maps, the sharing of files, the thread lists.

Left to model: the I2C master and codec serial driver by bits, the FFT cache
slave, host RAM accesses and the interrupt of the FFT engine.

## 11. Running

    tlc -workers 2 -config MCSramPathFifo.cfg MCSramPath     # module and cfg of each run: PROJECT.json
    tlc -workers 2 -config LbBridge.cfg LbBridge             # this one needs no MC module
    tlapm ChListsProofs.tla
