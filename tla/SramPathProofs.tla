--------------------------- MODULE SramPathProofs ---------------------------
(***************************************************************************)
(* Proofs about module SramPath, for every SRAM, slot length and set of    *)
(* words: the arbiter drives the FIFO controller only in ways its own      *)
(* specification allows, so that its invariants hold in the whole path,    *)
(* every register keeps its type, and without MM writes of the host the    *)
(* path hands on the words of the stream as a FIFO does.  With the history *)
(* of a host access, a read returns the word its address held when it was  *)
(* granted, and no access waits for longer than a slot and the registers   *)
(* it passes, for every mixture of reads and writes.                       *)
(***************************************************************************)
EXTENDS MCSramPath, SramFfCntrlrProofs, SequenceTheorems

-----------------------------------------------------------------------------
(* The path implements the controller on its own                            *)

\* A clock of the path is a clock, a reset or no step of the controller.
LEMMA PathStep == ASSUME [Next]_vars PROVE [FfNext]_ffVars
<1>1. ASSUME NEW word \in StWord, StSlot(TRUE, word) PROVE FfNext
  BY <1>1 DEF StSlot, FfNext
<1>2. CASE StSlot(FALSE, 0)
  BY <1>2 DEF StSlot, FfNext
<1>3. CASE MmSlot
  BY <1>3 DEF MmSlot, FfNext
<1>4. ASSUME NEW rd_req \in BOOLEAN, ImSlot(rd_req) PROVE FfNext
  BY <1>4 DEF ImSlot, FfNext
<1>5. CASE HostReset
  BY <1>5 DEF HostReset, FfNext
<1>6. CASE UNCHANGED vars
  BY <1>6 DEF vars, ffVars
<1> QED
  BY <1>1, <1>2, <1>3, <1>4, <1>5, <1>6 DEF Next

\* Every behaviour of the SRAM path is one of sram_ff_cntrlr with some
\* sequence of enables and resets (sram_arb drives it).
THEOREM PathImplementsFf == Spec => FfSpec
<1>1. Init => FfInit
  BY DEF Init
<1>2. [Next]_vars => [FfNext]_ffVars
  BY PathStep
<1> QED
  BY <1>1, <1>2, PTL DEF Spec, FfSpec

\* In the whole path the FIFO never holds more words than the SRAM
\* (sram_arb, sram_ff_cntrlr).
THEOREM PathNeverOverruns == Spec => []NoOverrun
  BY PathImplementsFf, FfNeverOverruns, PTL

\* In the whole path empty and full are exact in every clock (sram_arb,
\* sram_ff_cntrlr).
THEOREM PathFlagsExact == Spec => []FlagsExact
  BY PathImplementsFf, FfFlagsExact, PTL

-----------------------------------------------------------------------------
(* Type correctness.  An MM access latches whatever the bus carries, so the *)
(* type of the access registers rests on what the bus master sends where.   *)

\* What the bus carries fits the register it goes to.
BusOK ==
    /\ bus \in [wr_en : BOOLEAN, addr : {"STATUS", "ACC_CTRL", "ACC_ADDR", "ACC_DATA"},
               data : MmOps \cup MmAddr \cup Word, busy : BOOLEAN]
    /\ bus.addr = "ACC_ADDR" => bus.data \in MmAddr
    /\ bus.addr = "ACC_DATA" => bus.data \in Word
    /\ bus.addr = "ACC_CTRL" => bus.data \in MmOps

\* Types, with those of the bus.
PathInv == TypeOK /\ BusOK

\* The address of the SRAM that a pointer names.
LEMMA PtrAddr == ASSUME NEW p \in Ptr PROVE p % Depth \in Addr /\ 0 \in Addr
  BY Sizes DEF Addr, Ptr

\* The reset values of the path are typed.
LEMMA PathInitInv == Init => PathInv
<1> SUFFICES ASSUME Init PROVE PathInv
  OBVIOUS
<1>1. FfTypeOK
  BY FfInitInv DEF Init, FfInv
<1>2. 0 \in Ptr /\ 0 \in Addr /\ 0 \in Word
  BY Sizes, WordAssumption DEF Ptr, Addr
<1>3. arb_sel_f \in Slot /\ arb_cntr_f \in 0 .. (P_ARB_LEN - 1)
  BY ArbLen DEF Init, Slot
<1>4. BusOK
  BY <1>2 DEF Init, BusOK
<1>5. port \in [st : StTransfer, rst : BOOLEAN]
  BY DEF Init, StTransfer
<1> QED
  BY <1>1, <1>2, <1>3, <1>4, <1>5 DEF PathInv, TypeOK, Init, BusOK

\* The slot wheel stays within its slots and its counter within a slot
\* (sram_arb, arb_cntr_f and arb_sel_f).
LEMMA ArbStep ==
    ASSUME TypeOK, ArbAdvance
    PROVE  arb_sel_f' \in Slot /\ arb_cntr_f' \in 0 .. (P_ARB_LEN - 1)
<1>1. arb_sel_f' \in Slot
  BY DEF TypeOK, ArbAdvance, NextSel, Slot
<1>2. arb_cntr_f' \in 0 .. (P_ARB_LEN - 1)
  BY ArbLen DEF TypeOK, ArbAdvance, NextCntr, arb_cntr_wrap_c
<1> QED
  BY <1>1, <1>2

\* The pin registers and the chip keep their types (sram_drvr).
LEMMA DrvrStep ==
    ASSUME TypeOK, DrvrClk
    PROVE  /\ pins' \in [we : BOOLEAN, oe : BOOLEAN, addr : Addr, data : Word]
           /\ readdata' \in Word
           /\ mem' \in [Addr -> Word]
  BY DEF TypeOK, DrvrClk

\* The access registers take addresses and words alone (sram_lb).
LEMMA LbStep ==
    ASSUME PathInv, SramLbClk
    PROVE  lb' \in [rd_en : BOOLEAN, wr_en : BOOLEAN, addr : Addr, data : Word,
                    rd_valid_1d : BOOLEAN, wr_valid : BOOLEAN]
<1>1. MmAddr \subseteq Addr
  BY MmAddrAssumption DEF Addr
<1>2. mm_rd[3] \in BOOLEAN
  BY DEF PathInv, TypeOK
<1>3. SramData \in Word
  BY DEF PathInv, TypeOK, BusOK, SramData
<1>4. (IF bus.wr_en /\ bus.addr = "ACC_ADDR" THEN bus.data ELSE lb.addr) \in Addr
  BY <1>1 DEF PathInv, TypeOK, BusOK
<1>5. WrValid \in BOOLEAN
  BY <1>2 DEF PathInv, TypeOK, BusOK, WrValid
<1>6. /\ (IF lb.rd_en THEN ~lb_mm_rd_valid_od
           ELSE AtCtrl /\ bus.wr_en /\ bus.data = "rd") \in BOOLEAN
      /\ (IF lb.wr_en THEN ~lb_mm_arb_grant_oh
           ELSE AtCtrl /\ bus.wr_en /\ bus.data = "wr") \in BOOLEAN
  BY <1>2, Zenon DEF lb_mm_rd_valid_od, lb_mm_arb_grant_oh, AtCtrl
<1> QED
  BY <1>2, <1>3, <1>4, <1>5, <1>6 DEF SramLbClk, lb_mm_rd_valid_od

\* The bus master sends addresses and words where they belong.
LEMMA BusStep == ASSUME BusOK, BusClk, lb.wr_valid \in BOOLEAN PROVE BusOK'
<1>1. CASE bus' = [bus EXCEPT !.wr_en = FALSE, !.busy = ~lb.wr_valid]
  BY <1>1 DEF BusOK
<1>2. ASSUME NEW w \in BusWrites,
             bus' = [wr_en |-> TRUE, addr |-> w.addr, data |-> w.data, busy |-> TRUE]
      PROVE  BusOK'
  BY <1>2 DEF BusOK, BusWrites
<1>3. CASE bus' = bus
  BY <1>3 DEF BusOK
<1> QED
  BY <1>1, <1>2, <1>3 DEF BusClk

\* What every clock of the path keeps, given the type of the arbiter's request
\* and of its read pipelines.
LEMMA ClkInv ==
    ASSUME PathInv, EveryClk, [FfNext]_ffVars,
           NEW ff_rd \in BOOLEAN, NEW ff_wr \in BOOLEAN, StickyFlags(ff_rd, ff_wr),
           NEW im_req \in BOOLEAN, NEW mm_req \in BOOLEAN, RdValid(im_req, mm_req),
           arb' \in [wr_en : BOOLEAN, rd_en : BOOLEAN, addr : Addr, wr_data : Word],
           FfTypeOK', port' \in [st : StTransfer, rst : BOOLEAN]
    PROVE  PathInv'
<1>1. TypeOK /\ BusOK
  BY DEF PathInv
<1>2. ArbAdvance /\ DrvrClk /\ SramLbClk /\ BusClk
  BY DEF EveryClk
<1>3. arb_sel_f' \in Slot /\ arb_cntr_f' \in 0 .. (P_ARB_LEN - 1)
  BY <1>1, <1>2, ArbStep
<1>4. /\ pins' \in [we : BOOLEAN, oe : BOOLEAN, addr : Addr, data : Word]
      /\ readdata' \in Word
      /\ mem' \in [Addr -> Word]
  BY <1>1, <1>2, DrvrStep
<1>5. lb' \in [rd_en : BOOLEAN, wr_en : BOOLEAN, addr : Addr, data : Word,
               rd_valid_1d : BOOLEAN, wr_valid : BOOLEAN]
  BY <1>2, LbStep
<1>6. BusOK'
  BY <1>1, <1>2, BusStep DEF TypeOK
<1>7. im_rd' \in BOOLEAN \X BOOLEAN \X BOOLEAN /\ mm_rd' \in BOOLEAN \X BOOLEAN \X BOOLEAN
  BY <1>1 DEF TypeOK, RdValid
<1>8. flags' \in [oflw : BOOLEAN, urun : BOOLEAN]
  <2>1. /\ (flags.oflw \/ (ff_wr /\ sram_full_oh)) \in BOOLEAN
        /\ (flags.urun \/ (ff_rd /\ sram_empty_oh)) \in BOOLEAN
    BY Zenon
  <2> QED
    BY <2>1 DEF StickyFlags
<1> QED
  BY <1>3, <1>4, <1>5, <1>6, <1>7, <1>8 DEF PathInv, TypeOK, BusOK

\* Every step of the path keeps the types; that of the pointers and flags is
\* the controller's own invariant.
LEMMA PathStepInv ==
    ASSUME PathInv, FfTypeOK', [Next]_vars
    PROVE  PathInv'
<1> [FfNext]_ffVars
  BY PathStep
<1>1. sram_wr_addr_od \in Addr /\ sram_rd_addr_od \in Addr /\ 0 \in Addr
  BY PtrAddr DEF PathInv, TypeOK, FfTypeOK, sram_wr_addr_od, sram_rd_addr_od
<1>8. NoInput => port' \in [st : StTransfer, rst : BOOLEAN]
  BY DEF NoInput, StTransfer
<1>2. ASSUME NEW valid \in BOOLEAN, NEW word \in Word, valid => word \in StWord, StSlot(valid, word)
      PROVE  PathInv'
  <2>1. (valid /\ ~sram_full_oh) \in BOOLEAN
    BY Zenon
  <2>2. arb' \in [wr_en : BOOLEAN, rd_en : BOOLEAN, addr : Addr, wr_data : Word]
    BY <1>1, <1>2, <2>1 DEF StSlot
  <2>3. port' \in [st : StTransfer, rst : BOOLEAN]
    BY <1>2 DEF StSlot, StTransfer
  <2> QED
    BY <1>2, <2>2, <2>3, ClkInv DEF StSlot
<1>3. CASE MmSlot
  <2>1. arb' \in [wr_en : BOOLEAN, rd_en : BOOLEAN, addr : Addr, wr_data : Word]
    BY <1>3 DEF MmSlot, PathInv, TypeOK
  <2>2. lb.rd_en \in BOOLEAN
    BY DEF PathInv, TypeOK
  <2> QED
    BY <1>3, <1>8, <2>1, <2>2, ClkInv DEF MmSlot
<1>4. ASSUME NEW rd_req \in BOOLEAN, ImSlot(rd_req) PROVE PathInv'
  <2>1. (rd_req /\ ~sram_empty_oh) \in BOOLEAN
    BY Zenon
  <2>2. arb' \in [wr_en : BOOLEAN, rd_en : BOOLEAN, addr : Addr, wr_data : Word]
    BY <1>1, <1>4, <2>1 DEF ImSlot, PathInv, TypeOK
  <2> QED
    BY <1>4, <1>8, <2>1, <2>2, ClkInv DEF ImSlot
<1>5. CASE HostReset
  <2>1. 0 \in Word /\ arb_sel_f' \in Slot /\ arb_cntr_f' \in 0 .. (P_ARB_LEN - 1)
    BY <1>5, ArbLen, WordAssumption DEF HostReset, Slot
  <2>2. mem' \in [Addr -> Word]
    BY <1>5 DEF HostReset, PathInv, TypeOK
  <2>3. BusOK'
    BY <1>5 DEF HostReset, PathInv, BusOK
  <2>4. /\ arb' \in [wr_en : BOOLEAN, rd_en : BOOLEAN, addr : Addr, wr_data : Word]
        /\ pins' \in [we : BOOLEAN, oe : BOOLEAN, addr : Addr, data : Word]
        /\ readdata' \in Word
        /\ lb' \in [rd_en : BOOLEAN, wr_en : BOOLEAN, addr : Addr, data : Word,
                    rd_valid_1d : BOOLEAN, wr_valid : BOOLEAN]
    BY <1>1, <1>5, <2>1 DEF HostReset
  <2>5. /\ im_rd' \in BOOLEAN \X BOOLEAN \X BOOLEAN
        /\ mm_rd' \in BOOLEAN \X BOOLEAN \X BOOLEAN
        /\ flags' \in [oflw : BOOLEAN, urun : BOOLEAN]
    BY <1>5 DEF HostReset
  <2>6. port' \in [st : StTransfer, rst : BOOLEAN]
    BY <1>5 DEF HostReset
  <2> QED
    BY <2>1, <2>2, <2>3, <2>4, <2>5, <2>6 DEF PathInv, TypeOK, BusOK
<1>6. CASE UNCHANGED vars
  BY <1>6 DEF vars, ffVars, arbVars, drvVars, PathInv, TypeOK, FfTypeOK, BusOK, Slot, Addr, StTransfer
<1>7. StWord \subseteq Word /\ 0 \in Word
  BY WordAssumption
<1> QED
  BY <1>2, <1>3, <1>4, <1>5, <1>6, <1>7 DEF Next

\* The types, with those of the bus, hold throughout.
LEMMA PathInvariance == Spec => []PathInv
<1>1. Spec => []FfTypeOK
  BY PathImplementsFf, FfTypeCorrect, PTL
<1>2. Init => PathInv
  BY PathInitInv
<1>3. PathInv /\ FfTypeOK' /\ [Next]_vars => PathInv'
  BY PathStepInv
<1> QED
  BY <1>1, <1>2, <1>3, PTL DEF Spec

\* Every register of the path keeps its type, the address and data registers
\* of an MM access included (sram_arb, sram_drvr, sram_lb, sram_ff_cntrlr).
THEOREM PathTypeCorrect == Spec => []TypeOK
<1>1. PathInv => TypeOK
  BY DEF PathInv
<1> QED
  BY <1>1, PathInvariance, PTL

-----------------------------------------------------------------------------
(* MM accesses.  At most one stage of an access is up at a time; a read     *)
(* request outlives its grant by four clocks, in which the wheel is in a    *)
(* long slot and cannot grant it again.                                     *)

\* The counter tells where a read in the pipeline is: the slot after the grant
\* began with it.
Wheel == /\ lb_mm_arb_grant_oh => arb_cntr_f = 0
         /\ mm_rd[1] => ~lb_mm_arb_grant_oh /\ arb_cntr_f = 0
         /\ mm_rd[2] => ~lb_mm_arb_grant_oh /\ arb_cntr_f = 1
         /\ mm_rd[3] => ~lb_mm_arb_grant_oh /\ arb_cntr_f = 2

\* The bus waits, past its pulse, for an access of the given kind.
Waiting(op) == bus.busy /\ ~bus.wr_en /\ AtCtrl /\ bus.data = op

\* One stage after the other, each while the bus waits.
Stages == /\ bus.wr_en => bus.busy
          /\ mm_rd[1] \/ mm_rd[2] \/ mm_rd[3] => lb.rd_en
          /\ lb.rd_en => /\ Waiting("rd")
                         /\ ~lb.wr_en /\ ~lb.rd_valid_1d /\ ~lb.wr_valid
          /\ lb.wr_en => Waiting("wr") /\ ~lb.rd_valid_1d /\ ~lb.wr_valid
          /\ lb.rd_valid_1d => Waiting("rd") /\ ~lb.wr_valid
          /\ lb.wr_valid => bus.busy /\ ~bus.wr_en

\* An acknowledged write is in the arbiter's register.
Granted == lb.wr_valid /\ AtCtrl /\ bus.data = "wr" =>
               arb.wr_en /\ arb.addr = lb.addr /\ arb.wr_data = lb.data

\* What the acknowledges of host accesses rest on.
AckInv == Wheel /\ Stages /\ Granted

\* Before the first access nothing is up.
LEMMA AckInitInv == Init => AckInv
  BY DEF Init, AckInv, Wheel, Stages, Granted, lb_mm_arb_grant_oh

\* The counter and the read pipeline move together.
LEMMA WheelStep ==
    ASSUME PathInv, AckInv, ArbAdvance,
           NEW im_req \in BOOLEAN, NEW mm_req \in BOOLEAN, RdValid(im_req, mm_req),
           mm_req => lb_mm_arb_grant_oh
    PROVE  Wheel'
<1>1. mm_rd'[1] = mm_req /\ mm_rd'[2] = mm_rd[1] /\ mm_rd'[3] = mm_rd[2]
  BY DEF RdValid
<1>2. P_ARB_LEN \in Nat /\ P_ARB_LEN >= 4 /\ arb_cntr_f \in 0 .. (P_ARB_LEN - 1)
  BY ArbLen DEF PathInv, TypeOK
<1>3. lb_mm_arb_grant_oh => /\ arb_sel_f' \in {"IM", "AV_ST"}
                            /\ arb_cntr_f = 0 /\ arb_cntr_f' = 0
  BY <1>2 DEF AckInv, Wheel, ArbAdvance, NextSel, NextCntr, arb_cntr_wrap_c, lb_mm_arb_grant_oh
<1>4. ~lb_mm_arb_grant_oh => arb_cntr_f' = IF arb_cntr_f = P_ARB_LEN - 1 THEN 0 ELSE arb_cntr_f + 1
  BY DEF ArbAdvance, NextCntr, arb_cntr_wrap_c, lb_mm_arb_grant_oh
<1>5. ~lb_mm_arb_grant_oh /\ arb_cntr_f # P_ARB_LEN - 1 => arb_sel_f' = arb_sel_f
  BY DEF PathInv, TypeOK, Slot, ArbAdvance, NextSel, arb_cntr_wrap_c, lb_mm_arb_grant_oh
<1>6. lb_mm_arb_grant_oh' => arb_cntr_f' = 0
  BY <1>3, <1>4, <1>5 DEF lb_mm_arb_grant_oh
<1>7. mm_req => ~lb_mm_arb_grant_oh' /\ arb_cntr_f' = 0
  BY <1>3 DEF lb_mm_arb_grant_oh
<1>8. ASSUME mm_rd[1] PROVE ~lb_mm_arb_grant_oh' /\ arb_cntr_f' = 1
  <2>1. ~lb_mm_arb_grant_oh /\ arb_cntr_f = 0
    BY <1>8 DEF AckInv, Wheel
  <2> QED
    BY <1>2, <1>4, <1>5, <2>1 DEF lb_mm_arb_grant_oh
<1>9. ASSUME mm_rd[2] PROVE ~lb_mm_arb_grant_oh' /\ arb_cntr_f' = 2
  <2>1. ~lb_mm_arb_grant_oh /\ arb_cntr_f = 1
    BY <1>9 DEF AckInv, Wheel
  <2> QED
    BY <1>2, <1>4, <1>5, <2>1 DEF lb_mm_arb_grant_oh
<1> QED
  BY <1>1, <1>6, <1>7, <1>8, <1>9, Zenon DEF Wheel

\* An access moves from one stage to the next, and the bus waits meanwhile.
LEMMA StagesStep ==
    ASSUME PathInv, AckInv, SramLbClk, BusClk,
           NEW im_req \in BOOLEAN, NEW mm_req \in BOOLEAN, RdValid(im_req, mm_req),
           mm_req => lb_mm_arb_grant_oh /\ lb.rd_en
    PROVE  Stages'
<1>1. mm_rd'[1] = mm_req /\ mm_rd'[2] = mm_rd[1] /\ mm_rd'[3] = mm_rd[2]
  BY DEF RdValid
<1>2. /\ lb'.rd_en = (IF lb.rd_en THEN ~mm_rd[3]
                       ELSE AtCtrl /\ bus.wr_en /\ bus.data = "rd")
      /\ lb'.wr_en = (IF lb.wr_en THEN ~lb_mm_arb_grant_oh
                       ELSE AtCtrl /\ bus.wr_en /\ bus.data = "wr")
      /\ lb'.rd_valid_1d = mm_rd[3]
      /\ lb'.wr_valid = (IF AtCtrl THEN (lb.wr_en /\ lb_mm_arb_grant_oh) \/ lb.rd_valid_1d
                          ELSE bus.wr_en)
  BY DEF SramLbClk, lb_mm_rd_valid_od, WrValid
<1>3. /\ mm_rd[1] \in BOOLEAN /\ mm_rd[2] \in BOOLEAN /\ mm_rd[3] \in BOOLEAN
      /\ lb.rd_en \in BOOLEAN /\ lb.wr_en \in BOOLEAN /\ lb.rd_valid_1d \in BOOLEAN
      /\ lb.wr_valid \in BOOLEAN /\ bus.wr_en \in BOOLEAN /\ bus.busy \in BOOLEAN
  BY DEF PathInv, TypeOK
\* No two stages of the read pipeline are up, and none in an MM slot.
<1>4. /\ mm_req => ~mm_rd[3]
      /\ mm_rd[1] => ~mm_rd[3]
      /\ mm_rd[2] => ~mm_rd[3]
  BY DEF AckInv, Wheel
<1>5. /\ bus.wr_en => bus.busy
      /\ mm_rd[1] \/ mm_rd[2] \/ mm_rd[3] => lb.rd_en
      /\ lb.rd_en => Waiting("rd") /\ ~lb.wr_en /\ ~lb.rd_valid_1d /\ ~lb.wr_valid
      /\ lb.wr_en => Waiting("wr") /\ ~lb.rd_valid_1d /\ ~lb.wr_valid
      /\ lb.rd_valid_1d => Waiting("rd") /\ ~lb.wr_valid
      /\ lb.wr_valid => bus.busy /\ ~bus.wr_en
  BY DEF AckInv, Stages
\* The pulse is over after a clock; the bus leaves only when acknowledged.
<1>6. bus.busy => /\ ~bus'.wr_en /\ bus'.addr = bus.addr /\ bus'.data = bus.data
                  /\ bus'.busy = ~lb.wr_valid
  BY DEF BusClk, PathInv, BusOK
<1>7. bus'.wr_en => bus'.busy
  <2>1. CASE bus.busy
    BY <1>6, <2>1
  <2>2. CASE ~bus.busy
    BY <1>5, <2>2 DEF BusClk, PathInv, BusOK
  <2> QED
    BY <2>1, <2>2
<1>8. mm_rd'[1] \/ mm_rd'[2] \/ mm_rd'[3] => lb'.rd_en
  BY <1>1, <1>2, <1>4, <1>5
<1>10. ASSUME lb'.rd_en
       PROVE  Waiting("rd")' /\ ~lb'.wr_en /\ ~lb'.rd_valid_1d /\ ~lb'.wr_valid
  <2>1. CASE lb.rd_en
    BY <1>2, <1>3, <1>5, <1>6, <1>10, <2>1 DEF Waiting, AtCtrl
  <2>2. CASE ~lb.rd_en
    BY <1>2, <1>3, <1>5, <1>6, <1>10, <2>2 DEF Waiting, AtCtrl
  <2> QED
    BY <2>1, <2>2
<1>11. ASSUME lb'.wr_en
       PROVE  Waiting("wr")' /\ ~lb'.rd_valid_1d /\ ~lb'.wr_valid
  <2>1. CASE lb.wr_en
    BY <1>2, <1>3, <1>5, <1>6, <1>11, <2>1 DEF Waiting, AtCtrl
  <2>2. CASE ~lb.wr_en
    BY <1>2, <1>3, <1>5, <1>6, <1>11, <2>2 DEF Waiting, AtCtrl
  <2> QED
    BY <2>1, <2>2
<1>12. ASSUME lb'.rd_valid_1d PROVE Waiting("rd")' /\ ~lb'.wr_valid
  BY <1>2, <1>3, <1>5, <1>6, <1>12 DEF Waiting, AtCtrl
<1>13. ASSUME lb'.wr_valid PROVE bus'.busy /\ ~bus'.wr_en
  BY <1>2, <1>3, <1>5, <1>6, <1>13 DEF Waiting
<1> QED
  BY <1>7, <1>8, <1>10, <1>11, <1>12, <1>13 DEF Stages

\* The grant of a write puts its address and data into the arbiter's register.
LEMMA GrantedStep ==
    ASSUME PathInv, AckInv, SramLbClk, BusClk,
           lb_mm_arb_grant_oh =>
               arb' = [wr_en |-> lb.wr_en, rd_en |-> lb.rd_en,
                       addr |-> lb.addr, wr_data |-> lb.data]
    PROVE  Granted'
<1> SUFFICES ASSUME lb'.wr_valid, AtCtrl', bus'.data = "wr"
             PROVE  arb'.wr_en /\ arb'.addr = lb'.addr /\ arb'.wr_data = lb'.data
  BY DEF Granted
<1>1. Stages /\ Wheel
  BY DEF AckInv
<1>2. lb'.wr_valid = (IF AtCtrl THEN (lb.wr_en /\ lb_mm_arb_grant_oh) \/ lb.rd_valid_1d
                      ELSE bus.wr_en)
  BY DEF SramLbClk, WrValid
<1>3. bus.busy => bus'.addr = bus.addr /\ bus'.data = bus.data
  BY DEF BusClk, PathInv, BusOK
<1>4. AtCtrl /\ bus.data = "wr"
  <2>1. CASE AtCtrl
    BY <1>1, <1>2, <1>3, <2>1 DEF Stages, Waiting, AtCtrl
  <2>2. CASE ~AtCtrl
    BY <1>1, <1>2, <1>3, <2>2 DEF Stages, AtCtrl
  <2> QED
    BY <2>1, <2>2
<1>5. lb.wr_en /\ lb_mm_arb_grant_oh
  BY <1>1, <1>2, <1>4 DEF Stages, Waiting
<1>6. ~bus.wr_en /\ ~mm_rd[3]
  BY <1>1, <1>5 DEF Stages, Waiting
<1>7. lb'.addr = lb.addr /\ lb'.data = lb.data
  BY <1>6 DEF SramLbClk, SramData, lb_mm_rd_valid_od
<1> QED
  BY <1>5, <1>7

\* Every step keeps the stages of an access in order.
LEMMA AckStepInv ==
    ASSUME PathInv, AckInv, [Next]_vars
    PROVE  AckInv'
<1>1. ASSUME NEW valid \in BOOLEAN, NEW word \in Word, StSlot(valid, word)
      PROVE  AckInv'
  <2>1. ~lb_mm_arb_grant_oh /\ EveryClk /\ RdValid(FALSE, FALSE)
    BY <1>1 DEF StSlot, lb_mm_arb_grant_oh
  <2> QED
    BY <2>1, WheelStep, StagesStep, GrantedStep DEF EveryClk, AckInv
<1>2. CASE MmSlot
  <2>1. lb_mm_arb_grant_oh /\ EveryClk /\ RdValid(FALSE, lb.rd_en) /\ lb.rd_en \in BOOLEAN
    BY <1>2 DEF MmSlot, lb_mm_arb_grant_oh, PathInv, TypeOK
  <2>2. arb' = [wr_en |-> lb.wr_en, rd_en |-> lb.rd_en, addr |-> lb.addr, wr_data |-> lb.data]
    BY <1>2 DEF MmSlot
  <2> QED
    BY <2>1, <2>2, WheelStep, StagesStep, GrantedStep DEF EveryClk, AckInv
<1>3. ASSUME NEW rd_req \in BOOLEAN, ImSlot(rd_req) PROVE AckInv'
  <2>1. ~lb_mm_arb_grant_oh /\ EveryClk /\ RdValid(rd_req /\ ~sram_empty_oh, FALSE)
    BY <1>3 DEF ImSlot, lb_mm_arb_grant_oh
  <2>2. (rd_req /\ ~sram_empty_oh) \in BOOLEAN
    BY Zenon
  <2> QED
    BY <2>1, <2>2, WheelStep, StagesStep, GrantedStep DEF EveryClk, AckInv
<1>4. CASE HostReset
  BY <1>4 DEF HostReset, AckInv, Wheel, Stages, Granted, lb_mm_arb_grant_oh
<1>5. CASE UNCHANGED vars
  BY <1>5 DEF vars, arbVars, drvVars, AckInv, Wheel, Stages, Granted, Waiting, AtCtrl,
              lb_mm_arb_grant_oh
<1>6. StWord \subseteq Word /\ 0 \in Word
  BY WordAssumption
<1> QED
  BY <1>1, <1>2, <1>3, <1>4, <1>5, <1>6 DEF Next

\* The access invariant holds throughout: no read is granted twice, and each
\* stage of an access finds the bus waiting (sram_arb, sram_lb).
THEOREM PathAckInvariance == Spec => []AckInv
<1>1. PathInv /\ AckInv /\ [Next]_vars => AckInv'
  BY AckStepInv
<1>2. Init => AckInv
  BY AckInitInv
<1> QED
  BY <1>1, <1>2, PathInvariance, PTL DEF Spec

\* A local bus write is acknowledged at most once, for every slot length of at
\* least four clocks (sram_lb, lb_wr_valid_od; sram_arb, the slot wheel).
THEOREM PathNoSpuriousAck == Spec => []NoSpuriousAck
<1>1. AckInv => NoSpuriousAck
  BY DEF AckInv, Stages, NoSpuriousAck
<1> QED
  BY <1>1, PathAckInvariance, PTL

\* An acknowledged MM write is the newest write to its address in the pipeline
\* (sram_lb acknowledges on the grant; sram_arb registers the request).
THEOREM PathMmWriteLands == Spec => []MmWriteLands
<1>1. AckInv => MmWriteLands
  BY DEF AckInv, Granted, MmWriteLands, WordAt
<1> QED
  BY <1>1, PathAckInvariance, PTL

-----------------------------------------------------------------------------
(* The FIFO of words.  With no MM writes of the host the words between the  *)
(* pointers are only written by the stream: each clock hands the word on    *)
(* the pins to the parser, moves the one in the arbiter's register to the   *)
(* pins, and takes the next one from, or adds one to, the stored words.     *)

\* No MM write is under way, and a request of the parser in the pipeline is a
\* read in the registers that carry it.
DataInv ==
    /\ ~lb.wr_en
    /\ AtCtrl /\ bus.wr_en => bus.data # "wr"
    /\ im_rd[1] => arb.rd_en /\ ~arb.wr_en
    /\ im_rd[2] => pins.oe /\ ~pins.we

\* The host does not write to the SRAM: its writes may replace a word of the stream.
NoMmWrites == "wr" \notin MmOps

\* After the reset no register carries a word.
LEMMA DataInitInv == Init => DataInv
  BY DEF Init, DataInv, AtCtrl

\* Every step keeps a word with the request that carries it.
LEMMA DataStepInv ==
    ASSUME NoMmWrites, PathInv, DataInv, [Next]_vars
    PROVE  DataInv'
<1>1. EveryClk => ~lb'.wr_en
  <2> SUFFICES ASSUME EveryClk PROVE ~lb'.wr_en
    OBVIOUS
  <2>1. lb'.wr_en = IF lb.wr_en THEN ~lb_mm_arb_grant_oh
                    ELSE AtCtrl /\ bus.wr_en /\ bus.data = "wr"
    BY DEF EveryClk, SramLbClk
  <2> QED
    BY <2>1 DEF DataInv
<1>2. EveryClk => (AtCtrl' /\ bus'.wr_en => bus'.data # "wr")
  <2> SUFFICES ASSUME EveryClk, bus'.addr = "ACC_CTRL", bus'.wr_en, bus'.data = "wr" PROVE FALSE
    BY DEF AtCtrl
  <2>1. bus.wr_en \in BOOLEAN /\ bus \in [wr_en : BOOLEAN, addr : {"STATUS", "ACC_CTRL", "ACC_ADDR", "ACC_DATA"},
               data : MmOps \cup MmAddr \cup Word, busy : BOOLEAN]
    BY DEF PathInv, BusOK
  <2>2. CASE bus' = [bus EXCEPT !.wr_en = FALSE, !.busy = ~lb.wr_valid]
    BY <2>1, <2>2
  <2>3. ASSUME NEW w \in BusWrites,
               bus' = [wr_en |-> TRUE, addr |-> w.addr, data |-> w.data, busy |-> TRUE]
        PROVE  FALSE
    BY <2>3 DEF BusWrites, NoMmWrites
  <2>4. CASE bus' = bus
    BY <2>4 DEF DataInv, AtCtrl
  <2> QED
    BY <2>2, <2>3, <2>4 DEF EveryClk, BusClk
<1>3. EveryClk => pins'.oe = arb.rd_en /\ pins'.we = arb.wr_en
  BY DEF EveryClk, DrvrClk
<1>4. ASSUME NEW valid \in BOOLEAN, NEW word, StSlot(valid, word) PROVE DataInv'
  BY <1>1, <1>2, <1>3, <1>4 DEF StSlot, RdValid, DataInv
<1>5. CASE MmSlot
  BY <1>1, <1>2, <1>3, <1>5 DEF MmSlot, RdValid, DataInv
<1>6. ASSUME NEW rd_req \in BOOLEAN, ImSlot(rd_req) PROVE DataInv'
  BY <1>1, <1>2, <1>3, <1>6 DEF ImSlot, RdValid, DataInv
<1>7. CASE HostReset
  BY <1>7 DEF HostReset, DataInv, AtCtrl
<1>8. CASE UNCHANGED vars
  BY <1>8 DEF vars, arbVars, drvVars, DataInv, AtCtrl
<1> QED
  BY <1>4, <1>5, <1>6, <1>7, <1>8 DEF Next

\* What an address will hold changes with the write the arbiter takes up.
LEMMA WordAtStep ==
    ASSUME TypeOK, DrvrClk, NEW a \in Addr
    PROVE  WordAt(a)' = IF arb'.wr_en /\ arb'.addr = a THEN arb'.wr_data ELSE WordAt(a)
<1>1. /\ pins'.we = arb.wr_en /\ pins'.addr = arb.addr /\ pins'.data = arb.wr_data
      /\ mem'[a] = IF pins.we /\ pins.addr = a THEN pins.data ELSE mem[a]
  BY DEF TypeOK, DrvrClk
<1> QED
  BY <1>1 DEF WordAt

\* What an address will hold is a word.
LEMMA WordAtTyped == ASSUME TypeOK, NEW a \in Addr PROVE WordAt(a) \in Word
  BY DEF TypeOK, WordAt

\* A word moves from the arbiter's register to the pins and from there to the
\* parser, the same on every clock.
LEMMA PipeMoves ==
    ASSUME PathInv, DataInv, DrvrClk, NEW im_req, NEW mm_req, RdValid(im_req, mm_req)
    PROVE  /\ OnPins' = InArb
           /\ (IF im_rd_valid_oh THEN <<readdata>> ELSE <<>>)' = OnPins
<1>1. im_rd'[2] = im_rd[1] /\ im_rd'[3] = im_rd[2]
  BY DEF RdValid
<1>2. ASSUME im_rd[1] PROVE mem'[pins'.addr] = WordAt(arb.addr)
  <2>1. arb.addr \in Addr /\ ~arb.wr_en
    BY <1>2 DEF PathInv, TypeOK, DataInv
  <2>2. /\ pins'.addr = arb.addr
        /\ mem'[arb.addr] = IF pins.we /\ pins.addr = arb.addr THEN pins.data ELSE mem[arb.addr]
    BY <2>1 DEF PathInv, TypeOK, DrvrClk
  <2> QED
    BY <2>1, <2>2 DEF WordAt
<1>3. ASSUME im_rd[2] PROVE readdata' = mem[pins.addr]
  BY <1>3 DEF DataInv, DrvrClk
<1>4. OnPins' = InArb
  BY <1>1, <1>2 DEF OnPins, InArb
<1>5. (IF im_rd_valid_oh THEN <<readdata>> ELSE <<>>)' = OnPins
  BY <1>1, <1>3 DEF OnPins, im_rd_valid_oh
<1> QED
  BY <1>4, <1>5

-----------------------------------------------------------------------------
\* The i-th stored word.
StoredAt(i) == WordAt((sram_rd_ptr_f + i - 1) % Depth)

\* The addresses of the stored words.
LEMMA StoredAddr ==
    ASSUME FfInv, NEW i \in Nat
    PROVE  (sram_rd_ptr_f + i) % Depth \in Addr
<1>1. sram_rd_ptr_f + i \in Nat /\ Depth \in Nat \ {0}
  BY Sizes DEF FfInv, FfTypeOK
<1> QED
  BY <1>1 DEF Addr

\* The stored words are a sequence as long as the pointers are apart.
StoredOK ==
    /\ Occupancy \in 0 .. Depth
    /\ Stored \in Seq(Word) /\ Len(Stored) = Occupancy
    /\ \A i \in 1 .. Occupancy : Stored[i] = StoredAt(i)

\* The stored words are a sequence of words.
LEMMA StoredSeq == FfInv /\ TypeOK => StoredOK
<1> SUFFICES ASSUME FfInv, TypeOK PROVE StoredOK
  OBVIOUS
<1>1. Occupancy \in 0 .. Depth
  BY DistValue, Sizes DEF FfInv, FfTypeOK, NoOverrun, Occupancy, Dist, Ptr
<1>2. \A i \in 1 .. Occupancy : StoredAt(i) \in Word
  <2> SUFFICES ASSUME NEW i \in 1 .. Occupancy PROVE StoredAt(i) \in Word
    OBVIOUS
  <2>1. i - 1 \in Nat /\ sram_rd_ptr_f \in Int
    BY <1>1, Sizes DEF FfInv, FfTypeOK
  <2>2. sram_rd_ptr_f + i - 1 = sram_rd_ptr_f + (i - 1)
    BY <2>1
  <2>3. (sram_rd_ptr_f + i - 1) % Depth \in Addr
    BY <2>1, <2>2, StoredAddr
  <2> QED
    BY <2>3, WordAtTyped DEF StoredAt
<1>3. Stored = [i \in 1 .. Occupancy |-> StoredAt(i)]
  BY DEF Stored, StoredAt
<1>4. Occupancy \in Nat
  BY <1>1
<1> QED
  BY <1>1, <1>2, <1>3, <1>4 DEF StoredOK

\* Addresses of a ring of n words, for pointers with one bit more.
LEMMA RingMod ==
    ASSUME NEW n \in Nat \ {0}, NEW a \in 0 .. (3 * n - 1)
    PROVE  a % n = IF a < n THEN a ELSE IF a < 2 * n THEN a - n ELSE a - 2 * n
  OBVIOUS

\* Places of a ring that are less than a turn apart have different addresses.
LEMMA RingDistinct ==
    ASSUME NEW n \in Nat \ {0}, NEW p \in 0 .. (2 * n - 1),
           NEW i \in 0 .. (n - 1), NEW j \in 0 .. (n - 1), (p + i) % n = (p + j) % n
    PROVE  i = j
<1>1. p + i \in 0 .. (3 * n - 1) /\ p + j \in 0 .. (3 * n - 1)
  OBVIOUS
<1> DEFINE M(a) == IF a < n THEN a ELSE IF a < 2 * n THEN a - n ELSE a - 2 * n
<1>2. (p + i) % n = M(p + i) /\ (p + j) % n = M(p + j)
  BY <1>1, RingMod
<1>3. M(p + i) = M(p + j)
  BY <1>2
<1> QED
  BY <1>3

\* The write pointer names the address behind the stored words.
LEMMA WriteAddr ==
    ASSUME NEW rd \in Ptr, NEW wr \in Ptr, Dist(rd, wr) <= Depth
    PROVE  (rd + Dist(rd, wr)) % Depth = wr % Depth
<1>1. Depth \in Nat \ {0} /\ rd \in 0 .. (2 * Depth - 1) /\ wr \in 0 .. (2 * Depth - 1)
  BY Sizes DEF Ptr
<1>2. Dist(rd, wr) = IF wr >= rd THEN wr - rd ELSE wr - rd + 2 * Depth
  BY DistValue, Sizes
<1>3. CASE wr >= rd
  BY <1>1, <1>2, <1>3
<1>4. CASE ~(wr >= rd)
  <2>1. rd + Dist(rd, wr) = wr + 2 * Depth /\ wr < Depth
    BY <1>1, <1>2, <1>4
  <2>2. wr + 2 * Depth \in 0 .. (3 * Depth - 1) /\ wr \in 0 .. (3 * Depth - 1)
    BY <1>1, <2>1
  <2>3. (wr + 2 * Depth) % Depth = wr /\ wr % Depth = wr
    BY <1>1, <2>1, <2>2, RingMod
  <2> QED
    BY <2>1, <2>3
<1> QED
  BY <1>3, <1>4

\* The read pointer one further, all addresses move up by one.
LEMMA NextAddr ==
    ASSUME NEW rd \in Ptr, NEW i \in 0 .. (Depth - 1)
    PROVE  (((rd + 1) % PtrMod) + i) % Depth = (rd + 1 + i) % Depth
<1>1. Depth \in Nat \ {0} /\ PtrMod = 2 * Depth /\ rd \in 0 .. (2 * Depth - 1)
  BY Sizes DEF Ptr
<1>2. CASE rd + 1 < 2 * Depth
  <2>1. PtrMod \in Nat \ {0} /\ rd + 1 \in 0 .. (PtrMod - 1)
    BY <1>1, <1>2
  <2>2. (rd + 1) % PtrMod = rd + 1
    BY <2>1, ModPeriod
  <2> QED
    BY <2>2
<1>3. CASE rd + 1 = 2 * Depth
  <2>1. (rd + 1) % PtrMod = 0
    BY <1>1, <1>3, ModPeriod
  <2>2. rd + 1 + i \in 0 .. (3 * Depth - 1) /\ i \in 0 .. (3 * Depth - 1)
    BY <1>1, <1>3
  <2>3. (rd + 1 + i) % Depth = i /\ i % Depth = i
    BY <1>1, <1>3, <2>2, RingMod
  <2> QED
    BY <2>1, <2>3
<1> QED
  BY <1>1, <1>2, <1>3

-----------------------------------------------------------------------------
(* What a clock does to the stored words.                                   *)

\* A word of the stream goes behind the stored ones.
LEMMA StoredAccept ==
    ASSUME PathInv, FfInv, FfInv', TypeOK', NEW word \in Word, ~sram_full_oh, StSlot(TRUE, word)
    PROVE  Stored' = Append(Stored, word) /\ Occupancy < Depth
<1> DEFINE rd == sram_rd_ptr_f
           wr == sram_wr_ptr_f
<1>1. rd \in Ptr /\ wr \in Ptr /\ Occupancy = Dist(rd, wr)
  BY DEF FfInv, FfTypeOK, Occupancy, Dist
<1>2. Occupancy \in Nat /\ Occupancy < Depth
  BY Sizes, StoredSeq DEF FfInv, FlagsExact, PathInv, StoredOK
<1>3. /\ sram_rd_ptr_f' = rd /\ sram_wr_ptr_f' = (wr + 1) % PtrMod
      /\ arb'.wr_en = TRUE /\ arb'.addr = wr % Depth /\ arb'.wr_data = word
      /\ DrvrClk
  BY DEF StSlot, FfClk, NextRd, NextWr, EveryClk, sram_wr_addr_od
<1>4. Occupancy' = Occupancy + 1
  BY <1>1, <1>2, <1>3, DistStep DEF Occupancy, Dist
<1>5. (rd + Occupancy) % Depth = wr % Depth
  BY <1>1, <1>2, Sizes, WriteAddr
<1>6. ASSUME NEW i \in 1 .. Occupancy PROVE StoredAt(i)' = StoredAt(i)
  <2>1. i - 1 \in 0 .. (Depth - 1) /\ Occupancy \in 0 .. (Depth - 1) /\ i - 1 # Occupancy /\ i - 1 \in Nat
    BY <1>2, Sizes
  <2>2. rd \in 0 .. (2 * Depth - 1) /\ rd + i - 1 = rd + (i - 1)
    BY <1>1, Sizes DEF Ptr
  <2>3. (rd + i - 1) % Depth # wr % Depth
    BY <1>5, <2>1, <2>2, Sizes, RingDistinct
  <2>4. (rd + i - 1) % Depth \in Addr
    BY <2>1, <2>2, StoredAddr
  <2> QED
    BY <1>3, <2>3, <2>4, WordAtStep DEF StoredAt, PathInv
<1>7. ASSUME NEW k, k = Occupancy + 1 PROVE StoredAt(k)' = word
  <2>1. rd + k - 1 = rd + Occupancy
    BY <1>1, <1>2, <1>7, Sizes
  <2>2. wr % Depth \in Addr
    BY <1>1, PtrAddr
  <2>3. (sram_rd_ptr_f' + k - 1) % Depth = wr % Depth
    BY <1>3, <1>5, <2>1
  <2> QED
    BY <1>3, <2>2, <2>3, WordAtStep DEF StoredAt, PathInv
<1>8. StoredOK /\ StoredOK'
  <2>1. FfInv' /\ TypeOK' => StoredOK'
    BY StoredSeq, PTL
  <2> QED
    BY <2>1, StoredSeq DEF PathInv
<1>9. /\ Append(Stored, word) \in Seq(Word) /\ Len(Append(Stored, word)) = Occupancy + 1
      /\ \A i \in 1 .. Occupancy : Append(Stored, word)[i] = Stored[i]
      /\ Append(Stored, word)[Occupancy + 1] = word
  BY <1>8, AppendProperties DEF StoredOK
<1>10. \A i \in 1 .. (Occupancy + 1) : Stored'[i] = Append(Stored, word)[i]
  <2> SUFFICES ASSUME NEW i \in 1 .. (Occupancy + 1)
               PROVE  Stored'[i] = Append(Stored, word)[i]
    OBVIOUS
  <2>1. Stored'[i] = StoredAt(i)'
    BY <1>4, <1>8 DEF StoredOK
  <2>2. CASE i = Occupancy + 1
    BY <1>7, <1>9, <2>1, <2>2
  <2>3. CASE i \in 1 .. Occupancy
    BY <1>6, <1>8, <1>9, <2>1, <2>3 DEF StoredOK
  <2>4. i = Occupancy + 1 \/ i \in 1 .. Occupancy
    BY <1>2
  <2> QED
    BY <2>2, <2>3, <2>4
<1>11. Stored' = Append(Stored, word)
  BY <1>4, <1>8, <1>9, <1>10, SeqEqual DEF StoredOK
<1> QED
  BY <1>2, <1>11

\* Without a word going in or out nothing changes.
LEMMA StoredKept ==
    ASSUME PathInv, FfInv, FfInv', TypeOK', DrvrClk, ~arb'.wr_en,
           sram_rd_ptr_f' = sram_rd_ptr_f, sram_wr_ptr_f' = sram_wr_ptr_f
    PROVE  Stored' = Stored
<1>1. Occupancy' = Occupancy
  BY DEF Occupancy
<1>2. StoredOK /\ StoredOK'
  <2>1. FfInv' /\ TypeOK' => StoredOK'
    BY StoredSeq, PTL
  <2> QED
    BY <2>1, StoredSeq DEF PathInv
<1>3. ASSUME NEW i \in 1 .. Occupancy PROVE Stored'[i] = Stored[i]
  <2>1. i - 1 \in Nat /\ sram_rd_ptr_f + i - 1 = sram_rd_ptr_f + (i - 1)
    BY <1>2, Sizes DEF StoredOK, FfInv, FfTypeOK
  <2>2. (sram_rd_ptr_f + i - 1) % Depth \in Addr
    BY <2>1, StoredAddr
  <2>3. StoredAt(i)' = StoredAt(i)
    BY <2>2, WordAtStep DEF StoredAt, PathInv
  <2> QED
    BY <1>1, <1>2, <2>3 DEF StoredOK
<1> QED
  BY <1>1, <1>2, <1>3, SeqEqual DEF StoredOK

\* The parser's request takes the first stored word into the arbiter's register.
LEMMA StoredTaken ==
    ASSUME PathInv, FfInv, FfInv', TypeOK', ~sram_empty_oh, ImSlot(TRUE)
    PROVE  Stored = InArb' \o Stored'
<1> DEFINE rd == sram_rd_ptr_f
           wr == sram_wr_ptr_f
<1>1. rd \in Ptr /\ wr \in Ptr /\ Occupancy = Dist(rd, wr)
  BY DEF FfInv, FfTypeOK, Occupancy, Dist
<1>2. StoredOK /\ StoredOK'
  <2>1. FfInv' /\ TypeOK' => StoredOK'
    BY StoredSeq, PTL
  <2> QED
    BY <2>1, StoredSeq DEF PathInv
<1>3. Occupancy \in 1 .. Depth
  BY <1>2 DEF StoredOK, FfInv, FlagsExact
<1>4. /\ sram_rd_ptr_f' = (rd + 1) % PtrMod /\ sram_wr_ptr_f' = wr
      /\ ~arb'.wr_en /\ arb'.addr = rd % Depth
      /\ im_rd'[1] = TRUE /\ DrvrClk
  BY DEF ImSlot, FfClk, NextRd, NextWr, EveryClk, sram_rd_addr_od, RdValid
<1>5. Occupancy' = Occupancy - 1
  BY <1>1, <1>3, <1>4, DistStep DEF Occupancy, Dist
<1>6. \A a \in Addr : WordAt(a)' = WordAt(a)
  BY <1>4, WordAtStep DEF PathInv
<1>7. InArb' = <<Stored[1]>>
  <2>1. rd % Depth \in Addr /\ rd + 1 - 1 = rd
    BY <1>1, PtrAddr, Sizes
  <2>2. Stored[1] = WordAt(rd % Depth)
    BY <1>2, <1>3, <2>1 DEF StoredOK, StoredAt
  <2>3. InArb' = <<WordAt(rd % Depth)>>
    BY <1>4, <1>6, <2>1 DEF InArb
  <2> QED
    BY <2>2, <2>3
<1>8. ASSUME NEW i \in 1 .. (Occupancy - 1) PROVE Stored'[i] = Stored[i + 1]
  <2>1. /\ i - 1 \in 0 .. (Depth - 1) /\ i \in Nat /\ i + 1 \in 1 .. Occupancy
        /\ rd + (i + 1) - 1 = rd + i /\ rd + 1 + (i - 1) = rd + i
        /\ \A p \in Nat : p + i - 1 = p + (i - 1)
    BY <1>1, <1>3, Sizes
  <2>2. (rd + 1) % PtrMod \in Nat
    BY <1>1, DistStep, Sizes
  <2>3. (((rd + 1) % PtrMod) + i - 1) % Depth = (rd + i) % Depth
    BY <1>1, <2>1, <2>2, NextAddr
  <2>4. (rd + i) % Depth \in Addr
    BY <2>1, StoredAddr
  <2>5. StoredAt(i)' = StoredAt(i + 1)
    BY <1>4, <1>6, <2>1, <2>3, <2>4 DEF StoredAt
  <2> QED
    BY <1>2, <1>5, <2>1, <2>5 DEF StoredOK
<1>9. /\ <<Stored[1]>> \in Seq(Word) /\ Len(<<Stored[1]>>) = 1 /\ <<Stored[1]>>[1] = Stored[1]
  BY <1>2, <1>3 DEF StoredOK
<1> DEFINE t == <<Stored[1]>> \o Stored'
<1>10. /\ t \in Seq(Word) /\ Len(t) = Occupancy
       /\ \A i \in 1 .. Occupancy : t[i] = IF i <= 1 THEN Stored[1] ELSE Stored'[i - 1]
  <2>1. Stored' \in Seq(Word) /\ Len(Stored') = Occupancy - 1
    BY <1>2, <1>5 DEF StoredOK
  <2>2. /\ t \in Seq(Word) /\ Len(t) = 1 + (Occupancy - 1)
        /\ \A i \in 1 .. 1 + (Occupancy - 1) : t[i] = IF i <= 1 THEN <<Stored[1]>>[i] ELSE Stored'[i - 1]
    BY <1>9, <2>1, ConcatProperties
  <2>3. 1 + (Occupancy - 1) = Occupancy
    BY <1>3, Sizes
  <2> QED
    BY <1>3, <1>9, <2>2, <2>3
<1>11. ASSUME NEW i \in 1 .. Occupancy PROVE Stored[i] = t[i]
  <2>1. CASE i = 1
    BY <1>10, <2>1
  <2>2. CASE i # 1
    <3>1. i - 1 \in 1 .. (Occupancy - 1) /\ (i - 1) + 1 = i /\ ~(i <= 1)
      BY <1>3, <2>2, Sizes
    <3>2. Stored'[i - 1] = Stored[i]
      BY <1>8, <3>1
    <3> QED
      BY <1>10, <3>1, <3>2
  <2> QED
    BY <2>1, <2>2
<1>12. Stored = t
  BY <1>2, <1>10, <1>11, SeqEqual DEF StoredOK
<1> QED
  BY <1>7, <1>12

-----------------------------------------------------------------------------
(* The refinement.                                                          *)

\* What the mapping of FifoSpec substitutes for the words and the delivery.
Words == OnPins \o InArb \o Stored
Given == IF im_rd_valid_oh THEN <<readdata>> ELSE <<>>

\* A sequence of one word.
LEMMA OneWord ==
    ASSUME NEW x \in Word
    PROVE  <<x>> \in Seq(Word) /\ Len(<<x>>) = 1 /\ <<x>>[1] = x
  OBVIOUS

\* The registers of the read pipeline hold a word each, or none.
PipeOK == /\ OnPins = <<>> \/ \E x \in Word : OnPins = <<x>>
          /\ InArb = <<>> \/ \E x \in Word : InArb = <<x>>
          /\ OnPins \in Seq(Word) /\ InArb \in Seq(Word) /\ Len(InArb) <= 1

\* Typed registers carry one word or none.
LEMMA PipeTyped == PathInv => PipeOK
<1> SUFFICES ASSUME PathInv PROVE PipeOK
  OBVIOUS
<1>1. OnPins = <<>> \/ \E x \in Word : OnPins = <<x>>
  BY DEF OnPins, PathInv, TypeOK
<1>2. InArb = <<>> \/ \E x \in Word : InArb = <<x>>
  BY WordAtTyped DEF InArb, PathInv, TypeOK
<1>3. <<>> \in Seq(Word) /\ Len(<<>>) = 0
  BY EmptySeq
<1>4. OnPins \in Seq(Word)
  BY <1>1, <1>3, OneWord
<1>5. InArb \in Seq(Word) /\ Len(InArb) <= 1
  <2>1. CASE InArb = <<>>
    BY <1>3, <2>1
  <2>2. ASSUME NEW x \in Word, InArb = <<x>> PROVE InArb \in Seq(Word) /\ Len(InArb) <= 1
    BY <2>2, OneWord
  <2> QED
    BY <1>2, <2>1, <2>2
<1> QED
  BY <1>1, <1>2, <1>4, <1>5 DEF PipeOK

\* The words behind the first ones stay in order; the new one goes last.
LEMMA Rotate ==
    ASSUME NEW a \in Seq(Word), NEW b \in Seq(Word), NEW c \in Seq(Word)
    PROVE  (a \o b) \o c = a \o (b \o c)
  BY ConcatAssociative

\* A word put in front of others is the first and leaves the others.
LEMMA TakeFirst ==
    ASSUME NEW x \in Word, NEW s \in Seq(Word)
    PROVE  /\ <<x>> \o s # <<>> /\ Head(<<x>> \o s) = x /\ Tail(<<x>> \o s) = s
<1>1. <<x>> \in Seq(Word) /\ Len(<<x>>) = 1 /\ <<x>>[1] = x
  BY OneWord
<1> DEFINE t == <<x>> \o s
<1>2. /\ t \in Seq(Word) /\ Len(t) = 1 + Len(s)
      /\ \A i \in 1 .. 1 + Len(s) : t[i] = IF i <= 1 THEN x ELSE s[i - 1]
  BY <1>1, ConcatProperties
<1>3. Len(s) \in Nat
  BY LenProperties
<1>4. t # <<>> /\ Head(t) = t[1]
  BY <1>2, <1>3, EmptySeq
<1>5. Head(t) = x
  BY <1>2, <1>3, <1>4
<1>6. /\ Tail(t) \in Seq(Word) /\ Len(Tail(t)) = Len(s)
      /\ \A i \in 1 .. Len(s) : Tail(t)[i] = t[i + 1]
  BY <1>2, <1>3, <1>4, HeadTailProperties
<1>7. \A i \in 1 .. Len(s) : Tail(t)[i] = s[i]
  BY <1>2, <1>3, <1>6
<1>8. Tail(t) = s
  BY <1>6, <1>7, SeqEqual
<1> QED
  BY <1>4, <1>5, <1>8

\* What the source hands over in a clock, and whether it goes in.
Entry(st, acc) == \/ st = <<>> /\ acc = <<>> /\ flags'.oflw = flags.oflw
                  \/ \E w \in Word : /\ st = <<w>> /\ acc = <<w>> /\ Occupancy < Depth
                                      /\ flags'.oflw = flags.oflw
                  \/ \E w \in Word : /\ st = <<w>> /\ acc = <<>> /\ Occupancy = Depth
                                      /\ flags'.oflw = TRUE

\* What a clock does to the words of the FIFO, left being those not delivered.
Enters(left) ==
    \/ port'.st = <<>> /\ Words' = left /\ flags'.oflw = flags.oflw
    \/ \E w \in Word : /\ port'.st = <<w>>
                       /\ \/ /\ Len(Words) < Depth + 2 /\ Words' = Append(left, w)
                             /\ flags'.oflw = flags.oflw
                          \/ Len(Words) >= Depth /\ Words' = left /\ flags'.oflw = TRUE

\* One clock, with the word that is handed over.
LEMMA FifoClock ==
    ASSUME PathInv, FfInv, Given' = OnPins, OnPins' = InArb,
           NEW acc, Entry(port'.st, acc),
           PathInv', FfInv', InArb' \o Stored' = Stored \o acc
    PROVE  \/ Given' = <<>> /\ Enters(Words)
           \/ Words # <<>> /\ Given' = <<Head(Words)>> /\ Enters(Tail(Words))
<1> DEFINE rest == InArb \o Stored
<1>1. /\ OnPins \in Seq(Word) /\ InArb \in Seq(Word) /\ Len(InArb) <= 1
      /\ Stored \in Seq(Word) /\ Len(Stored) = Occupancy /\ Occupancy \in Nat
      /\ acc \in Seq(Word)
  <2>1. acc \in Seq(Word)
    BY OneWord, EmptySeq DEF Entry
  <2> QED
    BY <2>1, PipeTyped, StoredSeq, Sizes DEF StoredOK, PipeOK, PathInv
<1>2. InArb' \in Seq(Word) /\ Stored' \in Seq(Word) /\ OnPins' \in Seq(Word)
  <2>1. FfInv' /\ TypeOK' => StoredOK'
    BY StoredSeq, PTL
  <2>2. PathInv' => PipeOK'
    BY PipeTyped, PTL
  <2> QED
    BY <2>1, <2>2 DEF PathInv, StoredOK, PipeOK
<1>3. rest \in Seq(Word) /\ Len(rest) = Len(InArb) + Occupancy
  BY <1>1, ConcatProperties
<1>4. Words = OnPins \o rest
  BY <1>1, Rotate DEF Words
<1>5. Words' = rest \o acc
  <2>1. Words' = OnPins' \o (InArb' \o Stored')
    BY <1>2, Rotate DEF Words
  <2>2. Words' = InArb \o (Stored \o acc)
    BY <2>1
  <2> QED
    BY <1>1, <2>2, Rotate
<1>6. acc = <<>> => Words' = rest
  BY <1>3, <1>5, ConcatEmptySeq
<1>7. ASSUME NEW w \in Word, acc = <<w>> PROVE Words' = Append(rest, w)
  BY <1>3, <1>5, <1>7, AppendIsConcat
<1>8. Len(OnPins) \in Nat /\ Len(InArb) \in Nat /\ Len(Words) = Len(OnPins) + Len(InArb) + Occupancy
  <2>1. Len(OnPins) \in Nat /\ Len(InArb) \in Nat
    BY <1>1, LenProperties
  <2>2. Len(Words) = Len(OnPins) + Len(rest)
    BY <1>1, <1>3, <1>4, ConcatProperties
  <2> QED
    BY <1>1, <1>3, <2>1, <2>2
<1>9. Len(OnPins) <= 1
  <2>1. CASE OnPins = <<>>
    BY <2>1, EmptySeq
  <2>2. ASSUME NEW x \in Word, OnPins = <<x>> PROVE Len(OnPins) <= 1
    BY <2>2, OneWord
  <2> QED
    BY <2>1, <2>2, PipeTyped DEF PipeOK
<1>10. Enters(rest)
  <2>1. CASE port'.st = <<>> /\ acc = <<>> /\ flags'.oflw = flags.oflw
    BY <1>6, <2>1 DEF Enters
  <2>2. ASSUME NEW w \in Word, port'.st = <<w>>, acc = <<w>>, Occupancy < Depth, flags'.oflw = flags.oflw
        PROVE  Enters(rest)
    <3>1. Len(Words) < Depth + 2
      BY <1>1, <1>8, <1>9, <2>2, Sizes
    <3>2. Words' = Append(rest, w)
      BY <1>7, <2>2
    <3> HIDE DEF rest
    <3> QED
      BY <2>2, <3>1, <3>2 DEF Enters
  <2>3. ASSUME NEW w \in Word, port'.st = <<w>>, acc = <<>>, Occupancy = Depth, flags'.oflw = TRUE
        PROVE  Enters(rest)
    <3>1. Len(Words) >= Depth
      BY <1>8, <2>3, Sizes
    <3>2. Words' = rest
      BY <1>6, <2>3
    <3> HIDE DEF rest
    <3> QED
      BY <2>3, <3>1, <3>2 DEF Enters
  <2> QED
    BY <2>1, <2>2, <2>3 DEF Entry
<1>11. CASE OnPins = <<>>
  <2>1. Words = rest /\ Given' = <<>>
    BY <1>3, <1>4, <1>11, ConcatEmptySeq
  <2> QED
    BY <1>10, <2>1
<1>12. ASSUME NEW x \in Word, OnPins = <<x>>
      PROVE  Words # <<>> /\ Given' = <<Head(Words)>> /\ Enters(Tail(Words))
  <2>1. Words # <<>> /\ Given' = <<Head(Words)>> /\ Tail(Words) = rest
    BY <1>3, <1>4, <1>12, TakeFirst
  <2> QED
    BY <1>10, <2>1
<1> QED
  BY <1>11, <1>12, PipeTyped DEF PipeOK

\* After the reset the FIFO is empty.
LEMMA FifoInit == Init => Fifo!Init
<1> SUFFICES ASSUME Init PROVE Words = <<>> /\ Given = <<>>
  BY DEF Fifo!Init, Words, Given, Init
<1>1. OnPins = <<>> /\ InArb = <<>> /\ Given = <<>>
  BY DEF Init, OnPins, InArb, Given, im_rd_valid_oh
<1>2. Occupancy = 0
  BY Sizes, ModPeriod DEF Init, FfInit, Occupancy
<1>3. Stored = <<>>
  BY <1>2 DEF Stored
<1>4. <<>> \in Seq(Word)
  BY EmptySeq
<1> QED
  BY <1>1, <1>3, <1>4, ConcatEmptySeq DEF Words

\* Every step is a step of the FIFO or leaves it as it is.
LEMMA FifoStep ==
    ASSUME PathInv, PathInv', FfInv, FfInv', DataInv, [Next]_vars
    PROVE  [Fifo!Next]_<<Words, port.st, Given, flags.oflw, port.rst>>
<1> DEFINE Clock == /\ port'.rst = FALSE
                    /\ \/ Given' = <<>> /\ Enters(Words)
                       \/ Words # <<>> /\ Given' = <<Head(Words)>> /\ Enters(Tail(Words))
<1>1. Clock => Fifo!Next
  BY DEF Fifo!Next, Fifo!Clock, Fifo!Put, Fifo!Accept, Fifo!Refuse, Enters, Words, Given
<1>2. /\ Stored \in Seq(Word) /\ Stored \o <<>> = Stored
      /\ Stored' \in Seq(Word) /\ <<>> \o Stored' = Stored'
  <2>1. FfInv' /\ TypeOK' => StoredOK'
    BY StoredSeq, PTL
  <2> QED
    BY <2>1, StoredSeq, ConcatEmptySeq DEF StoredOK, PathInv
<1>3. ASSUME NEW word \in StWord, StSlot(TRUE, word) PROVE Clock
  <2>1. Given' = OnPins /\ OnPins' = InArb /\ InArb' = <<>> /\ word \in Word
    <3>1. DrvrClk /\ RdValid(FALSE, FALSE) /\ ~im_rd'[1]
      BY <1>3 DEF StSlot, EveryClk, RdValid
    <3> QED
      BY <3>1, PipeMoves, WordAssumption DEF Given, InArb
  <2>2. CASE sram_full_oh
    <3>1. /\ DrvrClk /\ ~arb'.wr_en
          /\ sram_rd_ptr_f' = sram_rd_ptr_f /\ sram_wr_ptr_f' = sram_wr_ptr_f
      BY <1>3, <2>2 DEF StSlot, EveryClk, FfClk, NextRd, NextWr
    <3>2. InArb' \o Stored' = Stored \o <<>>
      BY <1>2, <2>1, <3>1, StoredKept DEF PathInv
    <3>3. port'.st = <<word>> /\ port'.rst = FALSE /\ flags'.oflw = TRUE /\ Occupancy = Depth
      BY <1>3, <2>2 DEF StSlot, StickyFlags, FfInv, FlagsExact
    <3>4. Entry(port'.st, <<>>)
      BY <2>1, <3>3 DEF Entry
    <3> QED
      BY <2>1, <3>2, <3>3, <3>4, FifoClock
  <2>3. CASE ~sram_full_oh
    <3>1. Stored' = Append(Stored, word) /\ Occupancy < Depth
      BY <1>3, <2>1, <2>3, StoredAccept DEF PathInv
    <3>2. InArb' \o Stored' = Stored \o <<word>>
      BY <1>2, <2>1, <3>1, AppendIsConcat
    <3>3. port'.st = <<word>> /\ port'.rst = FALSE /\ flags'.oflw = flags.oflw
      BY <1>3, <2>3 DEF StSlot, StickyFlags, PathInv, TypeOK
    <3>4. Entry(port'.st, <<word>>)
      BY <2>1, <3>1, <3>3 DEF Entry
    <3> QED
      BY <2>1, <3>2, <3>3, <3>4, FifoClock
  <2> QED
    BY <2>2, <2>3
<1>4. ASSUME NEW mm, DrvrClk, RdValid(FALSE, mm), ~arb'.wr_en,
             sram_rd_ptr_f' = sram_rd_ptr_f, sram_wr_ptr_f' = sram_wr_ptr_f,
             port' = [st |-> <<>>, rst |-> FALSE], flags'.oflw = flags.oflw
      PROVE  Clock
  <2>1. Given' = OnPins /\ OnPins' = InArb /\ InArb' = <<>>
    <3>1. ~im_rd'[1]
      BY <1>4 DEF RdValid
    <3> QED
      BY <1>4, <3>1, PipeMoves DEF Given, InArb
  <2>2. InArb' \o Stored' = Stored \o <<>>
    BY <1>2, <1>4, <2>1, StoredKept DEF PathInv
  <2>3. Entry(port'.st, <<>>) /\ port'.rst = FALSE
    BY <1>4 DEF Entry
  <2> QED
    BY <2>1, <2>2, <2>3, FifoClock
<1>5. CASE StSlot(FALSE, 0)
  <2>1. /\ DrvrClk /\ RdValid(FALSE, FALSE) /\ ~arb'.wr_en
        /\ sram_rd_ptr_f' = sram_rd_ptr_f /\ sram_wr_ptr_f' = sram_wr_ptr_f
    BY <1>5 DEF StSlot, EveryClk, FfClk, NextRd, NextWr
  <2>2. port' = [st |-> <<>>, rst |-> FALSE] /\ flags'.oflw = flags.oflw
    BY <1>5 DEF StSlot, StickyFlags, PathInv, TypeOK
  <2> QED
    BY <1>1, <1>4, <2>1, <2>2
<1>6. CASE MmSlot
  <2>1. /\ DrvrClk /\ RdValid(FALSE, lb.rd_en) /\ ~arb'.wr_en
        /\ sram_rd_ptr_f' = sram_rd_ptr_f /\ sram_wr_ptr_f' = sram_wr_ptr_f
    BY <1>6 DEF MmSlot, EveryClk, FfClk, NextRd, NextWr, DataInv
  <2>2. port' = [st |-> <<>>, rst |-> FALSE] /\ flags'.oflw = flags.oflw
    BY <1>6 DEF MmSlot, NoInput, StickyFlags, PathInv, TypeOK
  <2> QED
    BY <1>1, <1>4, <2>1, <2>2
<1>7. ASSUME NEW rd_req \in BOOLEAN, ImSlot(rd_req) PROVE Clock
  <2>3. port' = [st |-> <<>>, rst |-> FALSE] /\ flags'.oflw = flags.oflw
    BY <1>7 DEF ImSlot, NoInput, StickyFlags, PathInv, TypeOK
  <2>1. CASE rd_req /\ ~sram_empty_oh
    <3>1. ImSlot(TRUE) /\ DrvrClk /\ RdValid(rd_req /\ ~sram_empty_oh, FALSE)
      BY <1>7, <2>1 DEF ImSlot, EveryClk
    <3>2. Given' = OnPins /\ OnPins' = InArb
      BY <3>1, PipeMoves DEF Given
    <3>3. InArb' \o Stored' = Stored \o <<>>
      BY <1>2, <2>1, <3>1, StoredTaken DEF PathInv
    <3>4. Entry(port'.st, <<>>) /\ port'.rst = FALSE
      BY <2>3 DEF Entry
    <3> QED
      BY <3>2, <3>3, <3>4, FifoClock
  <2>2. CASE ~(rd_req /\ ~sram_empty_oh)
    <3>1. /\ DrvrClk /\ RdValid(FALSE, FALSE) /\ ~arb'.wr_en
          /\ sram_rd_ptr_f' = sram_rd_ptr_f /\ sram_wr_ptr_f' = sram_wr_ptr_f
      BY <1>7, <2>2 DEF ImSlot, EveryClk, FfClk, NextRd, NextWr, RdValid
    <3> QED
      BY <1>4, <2>3, <3>1
  <2> QED
    BY <2>1, <2>2
<1>8. CASE HostReset
  <2>1. OnPins' = <<>> /\ InArb' = <<>> /\ Given' = <<>>
    BY <1>8 DEF HostReset, OnPins, InArb, Given, im_rd_valid_oh
  <2>2. Occupancy' = 0
    BY <1>8, Sizes, ModPeriod DEF HostReset, FfReset, Occupancy
  <2>3. Stored' = <<>>
    BY <2>2 DEF Stored
  <2>4. <<>> \in Seq(Word)
    BY EmptySeq
  <2>5. Words' = <<>> /\ Given' = <<>>
    BY <2>1, <2>3, <2>4, ConcatEmptySeq DEF Words
  <2>6. port'.rst = TRUE /\ port'.st \in StTransfer /\ flags'.oflw = FALSE
    BY <1>8 DEF HostReset
  <2>7. port'.st = <<>> \/ \E w \in Word : port'.st = <<w>>
    BY <2>6, WordAssumption DEF StTransfer
  <2> QED
    BY <2>5, <2>6, <2>7 DEF Fifo!Next, Fifo!Reset, Words, Given
<1>9. CASE UNCHANGED vars
  <2>1. Words' = Words /\ Given' = Given
    BY <1>9 DEF vars, ffVars, arbVars, drvVars, Words, Given, OnPins, InArb, Stored, Occupancy,
                WordAt, im_rd_valid_oh
  <2>2. port' = port /\ flags' = flags
    BY <1>9 DEF vars
  <2> QED
    BY <2>1, <2>2
<1> QED
  BY <1>1, <1>3, <1>5, <1>6, <1>7, <1>8, <1>9 DEF Next

\* The SRAM path is a FIFO of words for every address width, every set of words
\* and every reads of the host, as long as the host writes no word into the
\* SRAM itself: what the parser gets is what the source handed over, in order,
\* once; a word is refused only by a full SRAM and never without the overflow
\* flag, and only a reset of the host discards words (sram_ff_cntrlr, sram_arb,
\* sram_drvr and sram_lb together).
THEOREM PathImplementsFifo == ASSUME NoMmWrites PROVE Spec => FifoSpec
<1>1. Spec => []FfInv
  BY PathImplementsFf, FfInvariance, PTL
<1>2. FfInv => FfTypeOK
  BY DEF FfInv
<1>3. Init => PathInv /\ DataInv
  BY PathInitInv, DataInitInv
<1>4. PathInv /\ FfTypeOK' /\ [Next]_vars => PathInv'
  BY PathStepInv
<1>5. PathInv /\ DataInv /\ [Next]_vars => DataInv'
  BY DataStepInv
<1>6. PathInv /\ PathInv' /\ FfInv /\ FfInv' /\ DataInv /\ [Next]_vars
      => [Fifo!Next]_<<Words, port.st, Given, flags.oflw, port.rst>>
  BY FifoStep
<1>7. Init => Fifo!Init
  BY FifoInit
<1> QED
  BY <1>1, <1>2, <1>3, <1>4, <1>5, <1>6, <1>7, PTL DEF Spec, FifoSpec, Fifo!Spec, Words, Given

-----------------------------------------------------------------------------
(* The word a read returns, at every stage of its way back.                 *)

\* The word that was granted is the one under way.
ReadInv ==
    /\ mm_rd[1] => arb.rd_en /\ ~arb.wr_en /\ granted = WordAt(arb.addr)
    /\ mm_rd[2] => pins.oe /\ ~pins.we /\ granted = mem[pins.addr]
    /\ mm_rd[3] => granted = readdata
    /\ lb.rd_valid_1d => granted = lb.data
    /\ MmReadReturnsWord

\* Clocks until the wheel comes to an MM slot.
ToGrant == IF lb_mm_arb_grant_oh THEN 0 ELSE P_ARB_LEN - arb_cntr_f

\* A request of sram_lb that has not been granted.
Asking == lb.wr_en \/ (lb.rd_en /\ ~mm_rd[1] /\ ~mm_rd[2] /\ ~mm_rd[3])

\* How long the bus has waited, at every stage of an access.
PaceInv ==
    /\ waited \in Nat
    /\ ~bus.busy => waited = 0
    /\ bus.busy => bus.wr_en \/ lb.rd_en \/ lb.wr_en \/ lb.rd_valid_1d \/ lb.wr_valid
    /\ bus.wr_en => waited = 1
    /\ Asking => waited + ToGrant <= P_ARB_LEN + 2
    /\ mm_rd[1] => waited <= P_ARB_LEN + 3
    /\ mm_rd[2] => waited <= P_ARB_LEN + 4
    /\ mm_rd[3] => waited <= P_ARB_LEN + 5
    /\ lb.rd_valid_1d => waited <= P_ARB_LEN + 6
    /\ lb.wr_valid => waited <= P_ARB_LEN + 7

-----------------------------------------------------------------------------
\* What the registers of a read are after a clock.
LEMMA ReadRegs ==
    ASSUME PathInv, AckInv, EveryClk
    PROVE  /\ lb'.rd_valid_1d = mm_rd[3]
           /\ ~bus.wr_en => lb'.addr = lb.addr /\ lb'.data = IF mm_rd[3] THEN readdata ELSE lb.data
           /\ pins'.we = arb.wr_en /\ pins'.oe = arb.rd_en /\ pins'.addr = arb.addr /\ pins'.data = arb.wr_data
           /\ pins.oe /\ ~pins.we => readdata' = mem[pins.addr]
  BY DEF EveryClk, SramLbClk, DrvrClk, SramData, lb_mm_rd_valid_od

\* An acknowledge of a read follows its delayed valid.
LEMMA ReadAck ==
    ASSUME PathInv, AckInv, EveryClk, lb'.wr_valid, AtCtrl', bus'.data = "rd"
    PROVE  lb.rd_valid_1d
<1>1. Stages
  BY DEF AckInv
<1>2. lb'.wr_valid = (IF AtCtrl THEN (lb.wr_en /\ lb_mm_arb_grant_oh) \/ lb.rd_valid_1d
                      ELSE bus.wr_en)
  BY DEF EveryClk, SramLbClk, WrValid
<1>3. bus.busy => bus'.addr = bus.addr /\ bus'.data = bus.data
  BY DEF EveryClk, BusClk, PathInv, BusOK
<1>4. CASE AtCtrl
  BY <1>1, <1>2, <1>3, <1>4 DEF Stages, Waiting, AtCtrl
<1>5. CASE ~AtCtrl
  BY <1>1, <1>2, <1>3, <1>5 DEF Stages, AtCtrl
<1> QED
  BY <1>4, <1>5

\* What the pins do is what the arbiter's register will have done.
LEMMA LandedWord ==
    ASSUME PathInv, EveryClk, ~arb.wr_en
    PROVE  mem'[arb.addr] = WordAt(arb.addr)
<1>1. mem \in [Addr -> Word] /\ arb.addr \in Addr /\ pins.addr \in Addr
  BY DEF PathInv, TypeOK
<1> QED
  BY <1>1 DEF EveryClk, DrvrClk, WordAt

\* A clock moves a read one stage on.
LEMMA ReadClk ==
    ASSUME PathInv, AckInv, ReadInv, EveryClk,
           NEW im_req, NEW mm_req \in BOOLEAN, RdValid(im_req, mm_req),
           mm_req <=> lb_mm_arb_grant_oh /\ lb.rd_en,
           mm_req => arb' = [wr_en |-> lb.wr_en, rd_en |-> lb.rd_en,
                             addr |-> lb.addr, wr_data |-> lb.data],
           granted' = IF lb_mm_arb_grant_oh /\ lb.rd_en THEN WordAt(lb.addr) ELSE granted
    PROVE  ReadInv'
<1>1. mm_rd'[1] = mm_req /\ mm_rd'[2] = mm_rd[1] /\ mm_rd'[3] = mm_rd[2]
  BY DEF RdValid
<1>2. Stages /\ Wheel
  BY DEF AckInv
<1>3. mm_rd[1] \/ mm_rd[2] \/ mm_rd[3] \/ lb.rd_valid_1d => granted' = granted
  BY <1>2 DEF Stages, Wheel
<1>4. ASSUME mm_req PROVE arb'.rd_en /\ ~arb'.wr_en /\ granted' = WordAt(arb.addr)'
  <2>1. arb'.rd_en /\ ~arb'.wr_en /\ arb'.addr = lb.addr /\ lb.addr \in Addr
    BY <1>2, <1>4 DEF Stages, PathInv, TypeOK
  <2>2. ASSUME NEW a \in Addr PROVE WordAt(a)' = WordAt(a)
    BY <2>1, WordAtStep DEF PathInv, EveryClk
  <2> QED
    BY <1>4, <2>1, <2>2 DEF WordAt
<1>5. ASSUME mm_rd[1] PROVE pins'.oe /\ ~pins'.we /\ granted' = mem'[pins'.addr]
  BY <1>3, <1>5, ReadRegs, LandedWord DEF ReadInv
<1>6. ASSUME mm_rd[2] PROVE granted' = readdata'
  BY <1>3, <1>6, ReadRegs DEF ReadInv
<1>7. ASSUME mm_rd[3] PROVE granted' = lb'.data
  BY <1>2, <1>3, <1>7, ReadRegs DEF ReadInv, Stages, Waiting
<1>8. lb'.rd_valid_1d = mm_rd[3]
  BY ReadRegs
<1>9. MmReadReturnsWord'
  <2> SUFFICES ASSUME lb'.wr_valid, AtCtrl', bus'.data = "rd" PROVE lb'.data = granted'
    BY DEF MmReadReturnsWord
  <2>1. lb.rd_valid_1d
    BY ReadAck
  <2>2. ~bus.wr_en /\ ~mm_rd[3]
    BY <1>2, <2>1 DEF Stages, Waiting
  <2>3. lb'.data = lb.data
    BY <2>2, ReadRegs
  <2> QED
    BY <1>3, <2>1, <2>3 DEF ReadInv
<1> QED
  BY <1>1, <1>4, <1>5, <1>6, <1>7, <1>8, <1>9, Zenon DEF ReadInv

-----------------------------------------------------------------------------
\* The wheel comes a clock nearer to an MM slot.
LEMMA ToGrantClk ==
    ASSUME PathInv, AckInv, EveryClk
    PROVE  /\ ToGrant \in Nat /\ ToGrant <= P_ARB_LEN
           /\ ToGrant' \in Nat /\ ToGrant' <= P_ARB_LEN
           /\ ~lb_mm_arb_grant_oh => ToGrant' + 1 = ToGrant
<1>1. P_ARB_LEN \in Nat /\ P_ARB_LEN >= 4 /\ arb_cntr_f \in 0 .. (P_ARB_LEN - 1) /\ arb_sel_f \in Slot
  BY ArbLen DEF PathInv, TypeOK
<1>2. CASE lb_mm_arb_grant_oh
  <2>1. arb_sel_f' \in {"IM", "AV_ST"} /\ arb_cntr_f = 0 /\ arb_cntr_f' = 0
    BY <1>1, <1>2 DEF AckInv, Wheel, EveryClk, ArbAdvance, NextSel, NextCntr, arb_cntr_wrap_c, lb_mm_arb_grant_oh
  <2> QED
    BY <1>1, <1>2, <2>1 DEF ToGrant, lb_mm_arb_grant_oh
<1>3. CASE ~lb_mm_arb_grant_oh /\ arb_cntr_f # P_ARB_LEN - 1
  <2>1. arb_sel_f' = arb_sel_f /\ arb_cntr_f' = arb_cntr_f + 1
    BY <1>1, <1>3 DEF EveryClk, ArbAdvance, NextSel, NextCntr, arb_cntr_wrap_c, lb_mm_arb_grant_oh, Slot
  <2> QED
    BY <1>1, <1>3, <2>1 DEF ToGrant, lb_mm_arb_grant_oh
<1>4. CASE ~lb_mm_arb_grant_oh /\ arb_cntr_f = P_ARB_LEN - 1
  <2>1. lb_mm_arb_grant_oh'
    BY <1>1, <1>4 DEF EveryClk, ArbAdvance, NextSel, arb_cntr_wrap_c, lb_mm_arb_grant_oh, Slot
  <2> QED
    BY <1>1, <1>4, <2>1 DEF ToGrant
<1> QED
  BY <1>2, <1>3, <1>4

\* A clock moves an access one stage on, or brings its grant nearer.
LEMMA PaceClk ==
    ASSUME PathInv, AckInv, PaceInv, EveryClk,
           NEW im_req, NEW mm_req \in BOOLEAN, RdValid(im_req, mm_req),
           mm_req <=> lb_mm_arb_grant_oh /\ lb.rd_en,
           waited' = IF bus'.busy THEN waited + 1 ELSE 0
    PROVE  PaceInv'
<1>1. mm_rd'[1] = mm_req /\ mm_rd'[2] = mm_rd[1] /\ mm_rd'[3] = mm_rd[2]
  BY DEF RdValid
<1>2. /\ lb'.rd_en = (IF lb.rd_en THEN ~mm_rd[3]
                      ELSE AtCtrl /\ bus.wr_en /\ bus.data = "rd")
      /\ lb'.wr_en = (IF lb.wr_en THEN ~lb_mm_arb_grant_oh
                      ELSE AtCtrl /\ bus.wr_en /\ bus.data = "wr")
      /\ lb'.rd_valid_1d = mm_rd[3]
      /\ lb'.wr_valid = (IF AtCtrl THEN (lb.wr_en /\ lb_mm_arb_grant_oh) \/ lb.rd_valid_1d
                         ELSE bus.wr_en)
  BY DEF EveryClk, SramLbClk, lb_mm_rd_valid_od, WrValid
<1>3. Stages /\ Wheel
  BY DEF AckInv
<1>4. /\ bus.busy => ~bus'.wr_en /\ bus'.busy = ~lb.wr_valid
      /\ ~bus.busy => bus' = bus \/ (bus'.wr_en /\ bus'.busy)
  <2>1. bus.busy => ~bus'.wr_en /\ bus'.busy = ~lb.wr_valid
    BY DEF EveryClk, BusClk, PathInv, BusOK
  <2>2. ~bus.busy => bus' = bus \/ (bus'.wr_en /\ bus'.busy)
    BY DEF EveryClk, BusClk
  <2> QED
    BY <2>1, <2>2
<1>5. waited \in Nat /\ waited' \in Nat /\ waited' <= waited + 1
  <2>1. waited \in Nat
    BY DEF PaceInv
  <2> QED
    BY <2>1
<1>6. /\ ToGrant \in Nat /\ ToGrant' \in Nat /\ ToGrant' <= P_ARB_LEN /\ P_ARB_LEN \in Nat
  BY ToGrantClk, ArbLen
<1>16. /\ ~lb_mm_arb_grant_oh => ToGrant' + 1 = ToGrant
       /\ lb_mm_arb_grant_oh => ToGrant = 0
  BY ToGrantClk DEF ToGrant
<1>7. bus'.busy => bus'.wr_en \/ lb'.rd_en \/ lb'.wr_en \/ lb'.rd_valid_1d \/ lb'.wr_valid
  <2>1. CASE bus.wr_en
    <3>1. AtCtrl => bus.data \in {"rd", "wr"}
      BY MmOpsAssumption DEF PathInv, BusOK, AtCtrl
    <3> QED
      BY <1>2, <1>3, <2>1, <3>1 DEF Stages, Waiting
  <2>2. CASE bus.busy /\ ~bus.wr_en
    BY <1>2, <1>3, <1>4, <2>2 DEF PaceInv, Stages, Waiting
  <2>3. CASE ~bus.busy
    BY <1>3, <1>4, <2>3 DEF Stages
  <2> QED
    BY <1>3, <2>1, <2>2, <2>3 DEF Stages
<1>8. bus'.wr_en => waited' = 1
  <2>1. bus'.wr_en => ~bus.busy /\ bus'.busy
    BY <1>3, <1>4 DEF Stages
  <2> QED
    BY <2>1 DEF PaceInv
<1>9. ASSUME Asking' PROVE waited' + ToGrant' <= P_ARB_LEN + 2
  <2>1. CASE bus.wr_en
    <3>1. waited = 1
      BY <2>1 DEF PaceInv
    <3>2. \A w, v, g, p \in Nat : w = 1 /\ v <= w + 1 /\ g <= p => v + g <= p + 2
      OBVIOUS
    <3> QED
      BY <1>5, <1>6, <3>1, <3>2, Zenon
  <2>2. CASE ~bus.wr_en
    <3>1. Asking /\ ~lb_mm_arb_grant_oh
      BY <1>1, <1>2, <1>9, <2>2 DEF Asking
    <3>2. waited + ToGrant <= P_ARB_LEN + 2
      BY <3>1 DEF PaceInv
    <3>3. ToGrant' + 1 = ToGrant
      BY <1>16, <3>1
    <3>4. \A w, v, g, h, p \in Nat : v <= w + 1 /\ h + 1 = g /\ w + g <= p + 2 => v + h <= p + 2
      OBVIOUS
    <3> QED
      BY <1>5, <1>6, <3>2, <3>3, <3>4, Zenon
  <2> QED
    BY <2>1, <2>2
<1>10. ASSUME lb_mm_arb_grant_oh, lb.rd_en \/ lb.wr_en PROVE waited' <= P_ARB_LEN + 3
  <2>1. Asking
    BY <1>3, <1>10 DEF Asking, Wheel
  <2>2. waited + ToGrant <= P_ARB_LEN + 2
    BY <2>1 DEF PaceInv
  <2> QED
    BY <1>5, <1>6, <1>10, <1>16, <2>2
<1>11. mm_rd'[1] => waited' <= P_ARB_LEN + 3
  BY <1>1, <1>10
<1>12. mm_rd'[2] => waited' <= P_ARB_LEN + 4
  BY <1>1, <1>5, <1>6 DEF PaceInv
<1>13. mm_rd'[3] => waited' <= P_ARB_LEN + 5
  BY <1>1, <1>5, <1>6 DEF PaceInv
<1>14. lb'.rd_valid_1d => waited' <= P_ARB_LEN + 6
  BY <1>2, <1>5, <1>6 DEF PaceInv
<1>15. ASSUME lb'.wr_valid PROVE waited' <= P_ARB_LEN + 7
  <2>1. CASE lb.wr_en /\ lb_mm_arb_grant_oh
    BY <1>5, <1>6, <1>10, <2>1
  <2>2. CASE lb.rd_valid_1d
    BY <1>5, <1>6, <2>2 DEF PaceInv
  <2>3. CASE bus.wr_en
    BY <1>5, <1>6, <2>3 DEF PaceInv
  <2> QED
    BY <1>2, <1>15, <2>1, <2>2, <2>3
<1>17. ~bus'.busy => waited' = 0
  OBVIOUS
<1> QED
  BY <1>5, <1>7, <1>8, <1>17, <1>9, <1>11, <1>12, <1>13, <1>14, <1>15, Zenon DEF PaceInv

-----------------------------------------------------------------------------
\* What is known of a host access on its way.
HistInv == ReadInv /\ PaceInv

\* Every step keeps both.
LEMMA HistStep ==
    ASSUME PathInv, AckInv, HistInv, [MCNext]_<<vars, granted, waited>>
    PROVE  HistInv'
<1>1. ASSUME NEW im_req, NEW mm_req \in BOOLEAN, RdValid(im_req, mm_req), EveryClk, MCNext,
             mm_req <=> lb_mm_arb_grant_oh /\ lb.rd_en,
             mm_req => arb' = [wr_en |-> lb.wr_en, rd_en |-> lb.rd_en,
                               addr |-> lb.addr, wr_data |-> lb.data]
      PROVE  HistInv'
  BY <1>1, ReadClk, PaceClk DEF HistInv, MCNext
<1>2. ASSUME MCNext, NEW valid, NEW word, StSlot(valid, word) PROVE HistInv'
  BY <1>1, <1>2 DEF StSlot, lb_mm_arb_grant_oh
<1>3. ASSUME MCNext, MmSlot PROVE HistInv'
  <2>1. lb.rd_en \in BOOLEAN
    BY DEF PathInv, TypeOK
  <2> QED
    BY <1>1, <1>3, <2>1 DEF MmSlot, lb_mm_arb_grant_oh
<1>4. ASSUME MCNext, NEW rd_req, ImSlot(rd_req) PROVE HistInv'
  BY <1>1, <1>4 DEF ImSlot, lb_mm_arb_grant_oh
<1>5. ASSUME MCNext, HostReset PROVE HistInv'
  <2>1. ~bus'.busy /\ ~bus'.wr_en /\ bus' = bus
    BY <1>5 DEF HostReset, AckInv, Stages
  <2>2. waited' = 0
    BY <1>5, <2>1 DEF MCNext
  <2>3. ~mm_rd'[1] /\ ~mm_rd'[2] /\ ~mm_rd'[3] /\ ~lb'.rd_valid_1d /\ ~lb'.wr_valid /\ ~lb'.rd_en /\ ~lb'.wr_en
    BY <1>5 DEF HostReset
  <2> QED
    BY <2>1, <2>2, <2>3 DEF HistInv, ReadInv, PaceInv, MmReadReturnsWord, Asking
<1>6. CASE UNCHANGED <<vars, granted, waited>>
  BY <1>6 DEF HistInv, ReadInv, PaceInv, MmReadReturnsWord, Asking, ToGrant, lb_mm_arb_grant_oh,
              WordAt, AtCtrl, vars, arbVars, drvVars
<1> QED
  BY <1>2, <1>3, <1>4, <1>5, <1>6 DEF MCNext, Next

\* Before the first access nobody waits.
LEMMA HistStart == HistInit => HistInv
  BY DEF HistInit, Init, HistInv, ReadInv, PaceInv, MmReadReturnsWord, Asking

\* Every step of the path with its history is one of the path.
LEMMA HistImplementsPath == HistSpec => Spec
<1>1. HistInit => Init
  BY DEF HistInit
<1>2. [MCNext]_<<vars, granted, waited>> => [Next]_vars
  BY DEF MCNext
<1> QED
  BY <1>1, <1>2, PTL DEF HistSpec, Spec

\* A read of the host returns the word its address held when the arbiter
\* granted it, whatever the stream and the parser did meanwhile, and the host
\* has the answer to an access after at most one slot and seven clocks
\* (sram_arb, sram_drvr, sram_lb).
THEOREM MmReadsServed == HistSpec => []MmReadServed
<1>1. HistSpec => [](PathInv /\ AckInv)
  BY HistImplementsPath, PathAckInvariance, PathInvariance, PTL
<1>2. HistInit => HistInv
  BY HistStart
<1>3. PathInv /\ AckInv /\ HistInv /\ [MCNext]_<<vars, granted, waited>> => HistInv'
  BY HistStep
<1>4. HistInv /\ PathInv /\ AckInv => MmReadServed
  <2> SUFFICES ASSUME HistInv, PathInv, AckInv PROVE MmAccessPrompt /\ MmReadReturnsWord
    BY DEF MmReadServed
  <2>1. PaceInv /\ Stages /\ P_ARB_LEN \in Nat /\ ToGrant \in Nat
    <3>1. P_ARB_LEN \in Nat /\ arb_cntr_f \in 0 .. (P_ARB_LEN - 1)
      BY ArbLen DEF PathInv, TypeOK
    <3> QED
      BY <3>1 DEF HistInv, AckInv, ToGrant
  <2>2. waited \in Nat
    BY <2>1 DEF PaceInv
  <2>3. \/ waited + ToGrant <= P_ARB_LEN + 2
        \/ waited <= P_ARB_LEN + 3 \/ waited <= P_ARB_LEN + 4 \/ waited <= P_ARB_LEN + 5
        \/ waited <= P_ARB_LEN + 6 \/ waited <= P_ARB_LEN + 7 \/ waited = 0 \/ waited = 1
    BY <2>1, Zenon DEF PaceInv, Asking
  <2>4. waited <= P_ARB_LEN + 7
    BY <2>1, <2>2, <2>3
  <2> QED
    BY <2>4 DEF HistInv, ReadInv, MmAccessPrompt
<1> QED
  BY <1>1, <1>2, <1>3, <1>4, PTL DEF HistSpec
=============================================================================
