------------------------------ MODULE SramPath ------------------------------
(***************************************************************************)
(* The SRAM path of the audio cortex: sram_ff_cntrlr (module SramFfCntrlr),*)
(* the TDM arbiter sram_arb, the pin registers of sram_drvr, the external  *)
(* SRAM, and the register block sram_lb through which the host reads and   *)
(* writes single words (MM access).  All of it runs on acortex_clk_ir: one *)
(* step is one clock edge, one action per arbitration slot.                *)
(*                                                                         *)
(* Data is kept: words travel from the Avalon-ST source through the        *)
(* arbiter register, the pin register and the SRAM to the WAV parser.      *)
(***************************************************************************)
EXTENDS SramFfCntrlr, Sequences

CONSTANTS P_ARB_LEN,     \* clocks of an ST or IM slot (16 on the board)
          Word,          \* SRAM words
          StWord,        \* the words among them that the stream carries
          MmAddr,        \* SRAM addresses the host uses for MM accesses
          MmOps          \* kinds of MM access the host makes: "rd", "wr"

\* A read request of sram_lb stays up for four clocks after its grant: a
\* shorter slot would grant it twice.
ASSUME ArbLen == P_ARB_LEN \in Nat /\ P_ARB_LEN >= 4
ASSUME MmAddrAssumption == MmAddr \subseteq 0 .. (Depth - 1)
ASSUME MmOpsAssumption == MmOps \subseteq {"rd", "wr"}
ASSUME WordAssumption == 0 \in Word /\ StWord \subseteq Word

VARIABLES
    arb_sel_f, arb_cntr_f,   \* TDM slot and its clock counter
    arb,                     \* arbiter output registers towards sram_drvr
    im_rd,                   \* <<arb_im_rd_req_1d, _2d, im_rd_valid_oh>>
    mm_rd,                   \* <<arb_av_mm_rd_req_1d, _2d, lb_mm_rd_valid_od>>
    pins,                    \* sram_drvr: WE, OE, address and data registers
    readdata,                \* sram_drvr: captured read data
    mem,                     \* the SRAM chip
    lb,                      \* sram_lb: registers of the MM access
    flags,                   \* sram_lb: sticky overflow / underrun
    bus,                     \* local bus as its master drives it
    port                     \* the inputs of the last clock: the word the stream
                             \* handed over (none or one) and the reset

arbVars == <<arb_sel_f, arb_cntr_f, arb, im_rd, mm_rd>>
drvVars == <<pins, readdata, mem>>
vars == <<ffVars, arbVars, drvVars, lb, flags, bus, port>>

Slot == {"AV_ST", "AV_MM_1", "IM", "AV_MM_2"}
Addr == 0 .. (Depth - 1)

-----------------------------------------------------------------------------
(* sram_arb: the slot counter and the slot sequence                        *)

arb_cntr_wrap_c == arb_cntr_f = P_ARB_LEN - 1

\* Mutant: the counter does not wrap.
NextCntrNoWrap == IF arb_sel_f \in {"AV_MM_1", "AV_MM_2"} THEN arb_cntr_f
                  ELSE arb_cntr_f + 1

\* MM slots last one clock and do not count.
NextCntr == IF arb_cntr_wrap_c THEN 0
            ELSE IF arb_sel_f \in {"AV_MM_1", "AV_MM_2"} THEN arb_cntr_f
            ELSE arb_cntr_f + 1

NextSel == CASE arb_sel_f = "AV_ST"   -> IF arb_cntr_wrap_c THEN "AV_MM_1" ELSE "AV_ST"
             [] arb_sel_f = "AV_MM_1" -> "IM"
             [] arb_sel_f = "IM"      -> IF arb_cntr_wrap_c THEN "AV_MM_2" ELSE "IM"
             [] arb_sel_f = "AV_MM_2" -> "AV_ST"

ArbAdvance == arb_cntr_f' = NextCntr /\ arb_sel_f' = NextSel

lb_st_ready_oh     == arb_sel_f = "AV_ST"
lb_mm_arb_grant_oh == arb_sel_f \in {"AV_MM_1", "AV_MM_2"}

\* The read-valid pipelines: request now, valid three clocks later.
RdValid(im_req, mm_req) ==
    /\ im_rd' = <<im_req, im_rd[1], im_rd[2]>>
    /\ mm_rd' = <<mm_req, mm_rd[1], mm_rd[2]>>

im_rd_valid_oh    == im_rd[3]
lb_mm_rd_valid_od == mm_rd[3]

-----------------------------------------------------------------------------
(* sram_drvr and the SRAM chip (external, asynchronous).  The pins carry    *)
(* the arbiter's request one clock later; a write takes place while WE is   *)
(* low, read data is captured at the end of a clock with OE low.            *)

DrvrClk ==
    /\ pins' = [we |-> arb.wr_en, oe |-> arb.rd_en,
                addr |-> arb.addr, data |-> arb.wr_data]
    /\ readdata' = IF pins.oe
                   THEN IF pins.we THEN pins.data ELSE mem[pins.addr]
                   ELSE readdata
    /\ mem' = IF pins.we THEN [mem EXCEPT ![pins.addr] = pins.data] ELSE mem

-----------------------------------------------------------------------------
(* sram_lb.  lb.rd_en and lb.wr_en are the requests to the arbiter,         *)
(* lb.addr and lb.data the access registers, lb.rd_valid_1d the delayed     *)
(* valid and lb.wr_valid the acknowledge of a local bus write.              *)

AtCtrl == bus.addr = "ACC_CTRL"

\* Mutants: read data captured with the delayed valid; a read acknowledged
\* for as long as a valid is up; a write acknowledged before its grant.
SramDataLate == IF bus.wr_en /\ bus.addr = "ACC_DATA" THEN bus.data
                ELSE IF lb.rd_valid_1d THEN readdata ELSE lb.data
WrValidTwice == IF AtCtrl THEN \/ lb.wr_en /\ lb_mm_arb_grant_oh
                               \/ lb_mm_rd_valid_od \/ lb.rd_valid_1d
                ELSE bus.wr_en
WrValidEarly == IF AtCtrl THEN lb.wr_en \/ lb.rd_valid_1d ELSE bus.wr_en

SramData == IF bus.wr_en /\ bus.addr = "ACC_DATA" THEN bus.data
            ELSE IF lb_mm_rd_valid_od THEN readdata ELSE lb.data

\* A write is acknowledged on its grant, a read on its delayed valid, a plain
\* register write at once.
WrValid == IF AtCtrl THEN (lb.wr_en /\ lb_mm_arb_grant_oh) \/ lb.rd_valid_1d
           ELSE bus.wr_en

SramLbClk ==
    lb' = [ rd_en |-> IF lb.rd_en THEN ~lb_mm_rd_valid_od
                      ELSE AtCtrl /\ bus.wr_en /\ bus.data = "rd",
            wr_en |-> IF lb.wr_en THEN ~lb_mm_arb_grant_oh
                      ELSE AtCtrl /\ bus.wr_en /\ bus.data = "wr",
            addr  |-> IF bus.wr_en /\ bus.addr = "ACC_ADDR" THEN bus.data ELSE lb.addr,
            data  |-> SramData,
            rd_valid_1d |-> lb_mm_rd_valid_od,
            wr_valid |-> WrValid ]

\* Sticky flags: a write against full, a read against empty.
StickyFlags(ff_rd, ff_wr) ==
    flags' = [oflw |-> flags.oflw \/ (ff_wr /\ sram_full_oh),
              urun |-> flags.urun \/ (ff_rd /\ sram_empty_oh)]

-----------------------------------------------------------------------------
(* The local bus master (syn_lb_cdc_bridge through the address decoders):   *)
(* one write at a time, its enable pulsed for one clock, address and data   *)
(* held until the acknowledge, and after it until the next write.           *)

BusWrites == [addr : {"ACC_CTRL"}, data : MmOps]
             \cup [addr : {"ACC_ADDR"}, data : MmAddr]
             \cup (IF "wr" \in MmOps THEN [addr : {"ACC_DATA"}, data : Word] ELSE {})

BusClk ==
    \/ /\ bus.busy
       /\ bus' = [bus EXCEPT !.wr_en = FALSE, !.busy = ~lb.wr_valid]
    \/ /\ ~bus.busy
       /\ \E w \in BusWrites :
            bus' = [wr_en |-> TRUE, addr |-> w.addr, data |-> w.data, busy |-> TRUE]
    \/ /\ ~bus.busy
       /\ bus' = bus

-----------------------------------------------------------------------------
\* What the stream may hand over in a clock: nothing or a word.
StTransfer == {<<>>} \cup {<<w>> : w \in StWord}

Init == /\ FfInit
        /\ arb_sel_f = "AV_ST"
        /\ arb_cntr_f = 0
        /\ arb = [wr_en |-> FALSE, rd_en |-> FALSE, addr |-> 0, wr_data |-> 0]
        /\ im_rd = <<FALSE, FALSE, FALSE>>
        /\ mm_rd = <<FALSE, FALSE, FALSE>>
        /\ pins = [we |-> FALSE, oe |-> FALSE, addr |-> 0, data |-> 0]
        /\ readdata = 0
        /\ mem \in [Addr -> Word]
        /\ lb = [rd_en |-> FALSE, wr_en |-> FALSE, addr |-> 0, data |-> 0,
                 rd_valid_1d |-> FALSE, wr_valid |-> FALSE]
        /\ flags = [oflw |-> FALSE, urun |-> FALSE]
        /\ bus = [wr_en |-> FALSE, addr |-> "STATUS", data |-> 0, busy |-> FALSE]
        /\ port = [st |-> <<>>, rst |-> FALSE]

\* Everything a clock does whatever the slot.
EveryClk == ArbAdvance /\ DrvrClk /\ SramLbClk /\ BusClk

\* A clock of a slot that is not the stream's: ready is low, no word comes in.
NoInput == port' = [st |-> <<>>, rst |-> FALSE]

\* Mutant: of two words in a row the second does not reach the data register.
StSlotHolds(valid, word) ==
    /\ arb_sel_f = "AV_ST"
    /\ arb' = [wr_en |-> valid /\ ~sram_full_oh, rd_en |-> FALSE,
               addr |-> sram_wr_addr_od,
               wr_data |-> IF arb.wr_en THEN arb.wr_data ELSE word]
    /\ FfClk(FALSE, valid)
    /\ StickyFlags(FALSE, valid)
    /\ RdValid(FALSE, FALSE)
    /\ port' = [st |-> IF valid THEN <<word>> ELSE <<>>, rst |-> FALSE]
    /\ EveryClk

\* AV ST slot: ready is up, and the streaming source may hand over a word.
StSlot(valid, word) ==
    /\ arb_sel_f = "AV_ST"
    /\ arb' = [wr_en |-> valid /\ ~sram_full_oh, rd_en |-> FALSE,
               addr |-> sram_wr_addr_od, wr_data |-> word]
    /\ FfClk(FALSE, valid)
    /\ StickyFlags(FALSE, valid)
    /\ RdValid(FALSE, FALSE)
    /\ port' = [st |-> IF valid THEN <<word>> ELSE <<>>, rst |-> FALSE]
    /\ EveryClk

\* AV MM slots: one clock for the request of sram_lb.
MmSlot ==
    /\ arb_sel_f \in {"AV_MM_1", "AV_MM_2"}
    /\ arb' = [wr_en |-> lb.wr_en, rd_en |-> lb.rd_en,
               addr |-> lb.addr, wr_data |-> lb.data]
    /\ FfClk(FALSE, FALSE)
    /\ StickyFlags(FALSE, FALSE)
    /\ RdValid(FALSE, lb.rd_en)
    /\ NoInput
    /\ EveryClk

\* IM slot: the WAV parser may request the next word.
ImSlot(rd_req) ==
    /\ arb_sel_f = "IM"
    /\ arb' = [wr_en |-> FALSE, rd_en |-> rd_req /\ ~sram_empty_oh,
               addr |-> sram_rd_addr_od, wr_data |-> arb.wr_data]
    /\ FfClk(rd_req, FALSE)
    /\ StickyFlags(rd_req, FALSE)
    /\ RdValid(rd_req /\ ~sram_empty_oh, FALSE)
    /\ NoInput
    /\ EveryClk

\* Host reset (acortex_rst_l_f low for a clock): every register above is
\* cleared; the write already on the pins still reaches the chip.  The write
\* to the reset register is the bus transaction in progress, so the bus is free.
\* The slot is the stream's, so ready is up: a word handed over now is lost.
HostReset ==
    /\ ~bus.busy
    /\ FfReset
    /\ arb_sel_f' = "AV_ST"
    /\ arb_cntr_f' = 0
    /\ arb' = [wr_en |-> FALSE, rd_en |-> FALSE, addr |-> 0, wr_data |-> 0]
    /\ im_rd' = <<FALSE, FALSE, FALSE>>
    /\ mm_rd' = <<FALSE, FALSE, FALSE>>
    /\ pins' = [we |-> FALSE, oe |-> FALSE, addr |-> 0, data |-> 0]
    /\ readdata' = 0
    /\ mem' = IF pins.we THEN [mem EXCEPT ![pins.addr] = pins.data] ELSE mem
    /\ lb' = [rd_en |-> FALSE, wr_en |-> FALSE, addr |-> 0, data |-> 0,
              rd_valid_1d |-> FALSE, wr_valid |-> FALSE]
    /\ flags' = [oflw |-> FALSE, urun |-> FALSE]
    /\ bus' = bus
    /\ \E st \in StTransfer : port' = [st |-> st, rst |-> TRUE]

Next == \/ \E word \in StWord : StSlot(TRUE, word)
        \/ StSlot(FALSE, 0)
        \/ MmSlot
        \/ \E rd_req \in BOOLEAN : ImSlot(rd_req)
        \/ HostReset

Spec == Init /\ [][Next]_vars

-----------------------------------------------------------------------------
\* Type invariant: every register of sram_arb.v, sram_drvr.v, sram_lb.v and the
\* FIFO controller keeps a value of its declared width.
TypeOK ==
    /\ FfTypeOK
    /\ arb_sel_f \in Slot
    /\ arb_cntr_f \in 0 .. (P_ARB_LEN - 1)
    /\ arb \in [wr_en : BOOLEAN, rd_en : BOOLEAN, addr : Addr, wr_data : Word]
    /\ im_rd \in BOOLEAN \X BOOLEAN \X BOOLEAN
    /\ mm_rd \in BOOLEAN \X BOOLEAN \X BOOLEAN
    /\ pins \in [we : BOOLEAN, oe : BOOLEAN, addr : Addr, data : Word]
    /\ readdata \in Word
    /\ mem \in [Addr -> Word]
    /\ lb \in [rd_en : BOOLEAN, wr_en : BOOLEAN, addr : Addr, data : Word,
               rd_valid_1d : BOOLEAN, wr_valid : BOOLEAN]
    /\ flags \in [oflw : BOOLEAN, urun : BOOLEAN]
    /\ bus.wr_en \in BOOLEAN /\ bus.busy \in BOOLEAN
    /\ port \in [st : StTransfer, rst : BOOLEAN]

(* The word address a will hold once the writes in the pipeline land.      *)
WordAt(a) == IF arb.wr_en /\ arb.addr = a THEN arb.wr_data
             ELSE IF pins.we /\ pins.addr = a THEN pins.data
             ELSE mem[a]

(* Words on their way to the parser: on the pins, in the arbiter register. *)
OnPins  == IF im_rd[2] THEN <<mem[pins.addr]>> ELSE <<>>
InArb   == IF im_rd[1] THEN <<WordAt(arb.addr)>> ELSE <<>>
Stored  == [i \in 1 .. Occupancy |-> WordAt((sram_rd_ptr_f + i - 1) % Depth)]

\* The SRAM path implements a FIFO of words between its ports: the words that
\* the parser receives with im_rd_valid_oh are those the source handed over
\* while ready was up, in order, once, through three register stages and with
\* MM reads of the host in between.  A word is refused only when the SRAM is
\* full, and then the overflow flag is set; words are discarded only by a reset
\* of the host (sram_arb, sram_drvr, sram_ff_cntrlr and sram_lb together).
Fifo == INSTANCE WordFifo WITH
            Room <- Depth,
            Capacity <- Depth + 2,
            q    <- OnPins \o InArb \o Stored,
            in   <- port.st,
            out  <- IF im_rd_valid_oh THEN <<readdata>> ELSE <<>>,
            lost <- flags.oflw,
            rst  <- port.rst

FifoSpec == Fifo!Spec

\* A local bus write is acknowledged at most once: sram_lb raises its write
\* valid only while the bus master is waiting for it (a second one would pop
\* a transaction that was never executed from the bridge's FIFO).
NoSpuriousAck == lb.wr_valid => bus.busy

\* When the host's MM write is acknowledged the word is on its way to its
\* address and nothing ahead of it in the pipeline will undo it (sram_lb
\* acknowledges on the grant, two clocks before the chip is written).
MmWriteLands ==
    lb.wr_valid /\ AtCtrl /\ bus.data = "wr" => WordAt(lb.addr) = lb.data
=============================================================================
