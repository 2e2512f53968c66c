------------------------------ MODULE LbBridge ------------------------------
(***************************************************************************)
(* The register path from the host to the cortex: the clock-crossing       *)
(* bridge syn_lb_cdc_bridge with its two dual-clock FIFOs, the address     *)
(* decoders syn_cortex_lb and acortex_lb, and the acknowledge each block   *)
(* behind them gives.  Two clocks run: AvClk is an edge of the host's, an  *)
(* LbClk an edge of the cortex'; XtnWrSync, XtnRdSync and RspSync are the  *)
(* synchronisers inside the FIFOs, which show either side the other side's *)
(* progress some clocks late.                                              *)
(*                                                                         *)
(* An address is abstracted to its target: the block that decodes it.      *)
(***************************************************************************)
EXTENDS Integers, Sequences, SequencesExt

CONSTANTS Target,        \* targets the host addresses
          Val,           \* register values
          XtnDepth,      \* entries of xtn_ff (128 on the board)
          MaxReads       \* reads the host may have outstanding

\* acortex_blk: the I2C, parser and DAC register blocks; sram_regs: the plain
\* registers of sram_lb; sram_ctrl: its access control register, acknowledged
\* on the arbiter's grant;
\* acortex_own: the audio source register in acortex_lb itself; reset: the
\* acortex reset; irq_clear: IRQ_CLEAR_BLK.
AllTargets == {"acortex_blk", "sram_regs", "sram_ctrl", "acortex_own", "reset",
               "fgyrus", "vcortex", "irq_clear"}

ASSUME TargetAssumption == Target \subseteq AllTargets
ASSUME ValAssumption == 0 \in Val
ASSUME XtnDepthAssumption == XtnDepth \in Nat \ {0}
ASSUME MaxReadsAssumption == MaxReads \in Nat

Xtn == [rd : BOOLEAN, tgt : Target, val : Val]

\* Accesses the host makes: the data of a read does not matter.
HostXtn == {x \in Xtn : x.rd => x.val = 0}

VARIABLES
    xtn_ff,              \* xtn_ff contents, oldest first
    xtn_wr_seen,         \* entries of it the read side sees
    xtn_rd_late,         \* pops of it the write side has not seen yet
    lb_en,               \* <<>> or <<x>>: lb_rd_en_oh / lb_wr_en_oh pulse with x
    wait_for_rsp_f,      \* a local bus transaction is in progress
    pipe,                \* valid registers on the way back, pipe[1] at the bridge
    sram_pend,           \* an SRAM access waits for the arbiter's grant
    regs,                \* registers behind the bus
    irq,                 \* fgyrus_lb: sticky interrupt
    rsp_ff, rsp_seen,    \* rsp_ff contents; entries the host side sees
    av_read_data         \* <<>> or <<v>>: read data valid towards the host

vars == <<xtn_ff, xtn_wr_seen, xtn_rd_late, lb_en, wait_for_rsp_f, pipe,
          sram_pend, regs, irq, rsp_ff, rsp_seen, av_read_data>>

-----------------------------------------------------------------------------
(* Register stages from lb_rd_en / lb_wr_en to the bridge's valid inputs,   *)
(* the register of syn_cortex_lb included.                                  *)

MaxLat == 5
Idle   == [rd |-> FALSE, wr |-> FALSE, data |-> 0]

RdLat(t) == CASE t \in {"acortex_blk", "sram_regs", "sram_ctrl"} -> 3
              [] t = "acortex_own" -> 5
              [] t = "fgyrus"      -> 5
              [] t = "vcortex"     -> 4

\* All but sram_lb acknowledge a write without a register of their own.
WrLat(t) == IF t \in {"sram_regs", "sram_ctrl"} THEN 3 ELSE 2

\* What a target returns for a read, and what a write changes.  The SRAM
\* control register reads its request bits, clear again once acknowledged.
ReadValue(r, t) == IF t \in {"sram_ctrl", "reset", "irq_clear"} THEN 0 ELSE r[t]

WriteEffect(r, x) ==
    CASE x.tgt = "reset"     -> [r EXCEPT !["acortex_blk"] = 0, !["sram_regs"] = 0]
      [] x.tgt \in {"sram_ctrl", "irq_clear"} -> r
      [] OTHER               -> [r EXCEPT ![x.tgt] = x.val]

\* Mutant: a block is missing from the OR of the read valids.
RaisesRdNoFgyrus(x) == x.rd /\ x.tgt \notin {"reset", "irq_clear", "fgyrus"}

\* The valids a transaction x raises: a reset write raises both
\* (~acortex_host_rst_ol is ORed into lb_rd_valid_od and lb_wr_valid_od);
\* a reset read and IRQ_CLEAR_BLK, which no block decodes, raise none.
RaisesRd(x) == \/ x.rd /\ x.tgt \notin {"reset", "irq_clear"}
               \/ ~x.rd /\ x.tgt = "reset"
RaisesWr(x) == ~x.rd /\ x.tgt # "irq_clear"

\* Where x's valids enter the pipe, and with which data (16'hcafe for reset).
Enter(x) ==
    IF ~RaisesRd(x) /\ ~RaisesWr(x) THEN {}
    ELSE {[at |-> IF x.rd THEN RdLat(x.tgt) ELSE WrLat(x.tgt),
           rsp |-> [rd |-> RaisesRd(x), wr |-> RaisesWr(x),
                    data |-> IF x.rd THEN ReadValue(regs, x.tgt) ELSE 0]]}

irq_rst_oh == FALSE      \* (blk_code_w == IRQ_CLEAR_BLK) ? 1'b0 : 1'b0

-----------------------------------------------------------------------------
(* Host side                                                                *)

xtn_ff_full_w  == Len(xtn_ff) + xtn_rd_late >= XtnDepth
xtn_ff_empty_w == xtn_wr_seen = 0
rsp_ff_empty_w == rsp_seen = 0
av_wait_req_oh == xtn_ff_full_w

lb_rd_valid_id == pipe[1].rd
lb_wr_valid_id == pipe[1].wr

\* Answers the host is still owed, were every read answered once.
ReadsOwed ==
    Len(SelectSeq(xtn_ff, LAMBDA x : x.rd)) + Len(rsp_ff)

\* An edge of the Avalon clock: the host makes an access or none, and takes
\* a response whenever there is one.
AvClk(acc) ==
    /\ acc = <<>> \/ ~av_wait_req_oh
    /\ acc # <<>> /\ acc[1].rd => ReadsOwed < MaxReads
    /\ xtn_ff' = xtn_ff \o acc
    /\ av_read_data' = IF rsp_ff_empty_w THEN <<>> ELSE <<Head(rsp_ff)>>
    /\ rsp_ff' = IF rsp_ff_empty_w THEN rsp_ff ELSE Tail(rsp_ff)
    /\ rsp_seen' = IF rsp_ff_empty_w THEN 0 ELSE rsp_seen - 1
    /\ UNCHANGED <<xtn_wr_seen, xtn_rd_late, lb_en, wait_for_rsp_f, pipe,
                   sram_pend, regs, irq>>

\* The FIFOs' synchronisers.
XtnWrSync == /\ xtn_wr_seen < Len(xtn_ff)
             /\ xtn_wr_seen' = xtn_wr_seen + 1
             /\ UNCHANGED <<xtn_ff, xtn_rd_late, lb_en, wait_for_rsp_f, pipe,
                            sram_pend, regs, irq, rsp_ff, rsp_seen, av_read_data>>

XtnRdSync == /\ xtn_rd_late > 0
             /\ xtn_rd_late' = xtn_rd_late - 1
             /\ UNCHANGED <<xtn_ff, xtn_wr_seen, lb_en, wait_for_rsp_f, pipe,
                            sram_pend, regs, irq, rsp_ff, rsp_seen, av_read_data>>

RspSync == /\ rsp_seen < Len(rsp_ff)
           /\ rsp_seen' = rsp_seen + 1
           /\ UNCHANGED <<xtn_ff, xtn_wr_seen, xtn_rd_late, lb_en, wait_for_rsp_f,
                          pipe, sram_pend, regs, irq, rsp_ff, av_read_data>>

-----------------------------------------------------------------------------
(* Local bus side: one edge of lb_clk_ir                                    *)

\* Mutants: a transaction is driven again while it waits for its response;
\* every acknowledge is sent back as a response.
LaunchAgain == ~xtn_ff_empty_w
RspOnAny    == lb_rd_valid_id \/ lb_wr_valid_id

\* The bridge drives the oldest transaction, once, and pops it on a valid.
Launch == ~xtn_ff_empty_w /\ ~wait_for_rsp_f
Pop    == lb_rd_valid_id \/ lb_wr_valid_id
Rsp    == lb_rd_valid_id

BridgeClk ==
    /\ wait_for_rsp_f' = IF wait_for_rsp_f THEN ~Pop ELSE ~xtn_ff_empty_w
    /\ lb_en' = IF Launch THEN <<Head(xtn_ff)>> ELSE <<>>
    /\ xtn_ff' = IF Pop THEN Tail(xtn_ff) ELSE xtn_ff
    /\ xtn_wr_seen' = IF Pop THEN xtn_wr_seen - 1 ELSE xtn_wr_seen
    /\ xtn_rd_late' = IF Pop THEN xtn_rd_late + 1 ELSE xtn_rd_late
    /\ rsp_ff' = IF Rsp THEN Append(rsp_ff, pipe[1].data) ELSE rsp_ff

\* The target of the pulse executes it and its valids set out; an SRAM access
\* waits for its grant.
IsSramAccess(x) == x.tgt = "sram_ctrl" /\ ~x.rd

Entering(grant) ==
    (IF lb_en # <<>> /\ ~IsSramAccess(lb_en[1]) THEN Enter(lb_en[1]) ELSE {})
    \cup (IF grant THEN {[at |-> WrLat("sram_ctrl"), rsp |-> [rd |-> FALSE, wr |-> TRUE, data |-> 0]]}
                   ELSE {})

BlocksClk(grant) ==
    /\ grant => sram_pend
    /\ sram_pend' = ((sram_pend /\ ~grant) \/ (lb_en # <<>> /\ IsSramAccess(lb_en[1])))
    /\ regs' = IF lb_en # <<>> /\ ~lb_en[1].rd THEN WriteEffect(regs, lb_en[1]) ELSE regs
    /\ pipe' = [i \in 1 .. MaxLat |->
                  IF \E e \in Entering(grant) : e.at = i
                  THEN (CHOOSE e \in Entering(grant) : e.at = i).rsp
                  ELSE IF i < MaxLat THEN pipe[i + 1] ELSE Idle]

\* fgyrus_lb: the interrupt is sticky until irq_rst.
IrqClk(fft_done) == irq' = IF irq_rst_oh THEN FALSE ELSE irq \/ fft_done

LbClk(grant, fft_done) ==
    /\ BridgeClk
    /\ BlocksClk(grant)
    /\ IrqClk(fft_done)
    /\ UNCHANGED <<rsp_seen, av_read_data>>

-----------------------------------------------------------------------------
Init == /\ xtn_ff = <<>> /\ xtn_wr_seen = 0 /\ xtn_rd_late = 0
        /\ lb_en = <<>> /\ wait_for_rsp_f = FALSE
        /\ pipe = [i \in 1 .. MaxLat |-> Idle]
        /\ sram_pend = FALSE
        /\ regs = [t \in AllTargets |-> 0]
        /\ irq = FALSE
        /\ rsp_ff = <<>> /\ rsp_seen = 0
        /\ av_read_data = <<>>

Next == \/ \E x \in HostXtn : AvClk(<<x>>)
        \/ AvClk(<<>>)
        \/ XtnWrSync \/ XtnRdSync \/ RspSync
        \/ \E grant, fft_done \in BOOLEAN : LbClk(grant, fft_done)

Spec == Init /\ [][Next]_vars

\* Both clocks run for ever, the synchronisers settle, and the SRAM arbiter
\* grants every access (MmAccessPrompt of module MCSramPath).
Fairness == /\ WF_vars(AvClk(<<>>))
            /\ WF_vars(XtnWrSync) /\ WF_vars(XtnRdSync) /\ WF_vars(RspSync)
            /\ WF_vars(LbClk(FALSE, FALSE)) /\ WF_vars(LbClk(TRUE, FALSE))

FairSpec == Spec /\ Fairness

-----------------------------------------------------------------------------
\* Type invariant: the registers of the Avalon-to-local-bus bridge, its FIFOs
\* and its slave keep values of their declared kind.
TypeOK ==
    /\ xtn_ff \in Seq(HostXtn) /\ Len(xtn_ff) <= XtnDepth
    /\ xtn_wr_seen \in 0 .. Len(xtn_ff)
    /\ xtn_rd_late \in 0 .. XtnDepth
    /\ Len(lb_en) <= 1 /\ lb_en \in Seq(HostXtn)
    /\ wait_for_rsp_f \in BOOLEAN
    /\ pipe \in [1 .. MaxLat -> [rd : BOOLEAN, wr : BOOLEAN, data : Val]]
    /\ sram_pend \in BOOLEAN
    /\ regs \in [AllTargets -> Val]
    /\ irq \in BOOLEAN
    /\ rsp_ff \in Seq(Val)
    /\ rsp_seen \in 0 .. Len(rsp_ff)
    /\ av_read_data \in Seq(Val) /\ Len(av_read_data) <= 1

\* The bridge pops xtn_ff only for the transaction it is waiting for: the
\* FIFOs are built without underflow checking, and a valid that came late or
\* twice would drop a transaction that was never driven (syn_lb_cdc_bridge,
\* rdreq of xtn_ff).
PopsOnlyItsOwn == Pop => wait_for_rsp_f /\ lb_en = <<>> /\ ~xtn_ff_empty_w

(* The accesses not yet executed, and what they will do, oldest first.      *)
Pending == IF wait_for_rsp_f /\ lb_en = <<>> THEN Tail(xtn_ff) ELSE xtn_ff

Execute(st, x) ==
    IF x.rd THEN [st EXCEPT !.answers = Append(@, ReadValue(st.regs, x.tgt))]
            ELSE [st EXCEPT !.regs = WriteEffect(@, x)]

Replayed == FoldLeft(Execute, [regs |-> regs, answers |-> <<>>], Pending)

OnItsWay == LET at == {i \in 1 .. MaxLat : pipe[i].rd}
            IN  IF at = {} THEN <<>> ELSE <<pipe[CHOOSE i \in at : TRUE].data>>

IsReadXtn(x) == x.rd

\* The register path is an in-order register file to the host: posted writes
\* and pipelined reads take effect in program order across the two clocks,
\* and each read is answered once, with the value of the last write before it
\* (syn_lb_cdc_bridge with the acknowledge paths of syn_cortex_lb, acortex_lb).
Bus == INSTANCE RegBus WITH
           Op      <- HostXtn,
           IsRead  <- IsReadXtn,
           Answer  <- LAMBDA r, x : ReadValue(r, x.tgt),
           Effect  <- WriteEffect,
           Reset   <- [t \in AllTargets |-> 0],
           regs    <- Replayed.regs,
           answers <- rsp_ff \o OnItsWay \o Replayed.answers,
           out     <- av_read_data

RegBusSpec == Bus!Spec

\* Every read of the host is answered: no acknowledge is lost between the
\* blocks and the bridge (wait_for_rsp_f is left only by a valid).
ReadsAnswered ==
    (\E i \in DOMAIN xtn_ff : xtn_ff[i].rd) ~> av_read_data # <<>>

\* The stall of a full transaction FIFO always ends (av_wait_req_oh).
WaitReqEnds == av_wait_req_oh ~> ~av_wait_req_oh

\* The bridge's registers keep their types, and its FIFO is popped only by the
\* acknowledge of the transaction at its head (syn_lb_cdc_bridge).
BridgeInv == TypeOK /\ PopsOnlyItsOwn

\* The host never hangs on the register path: its reads are answered and its
\* stalls end.
BusAnswers == ReadsAnswered /\ WaitReqEnds
=============================================================================
