--------------------------- MODULE LbBridgeProofs ---------------------------
(***************************************************************************)
(* Proofs about module LbBridge, for every set of targets, every FIFO      *)
(* depth and every bound on the reads of the host: the registers keep      *)
(* their types, xtn_ff never holds more than it has room for, and it is    *)
(* popped by nothing but the acknowledge of the transaction at its head.   *)
(***************************************************************************)
EXTENDS LbBridge, TLAPS

\* Stages of the path back, and what travels there.
Stage == 1 .. MaxLat
Beat == [rd : BOOLEAN, wr : BOOLEAN, data : Val]
Valid(b) == b.rd \/ b.wr

\* A transaction is in one place on its way through the blocks: the enable
\* pulse, the SRAM block waiting for its grant, or one register of the path
\* back; and it is there only while the bridge waits for it.
OneInFlight ==
    /\ lb_en # <<>> => ~sram_pend /\ \A i \in Stage : ~Valid(pipe[i])
    /\ sram_pend => \A i \in Stage : ~Valid(pipe[i])
    /\ \A i, j \in Stage : Valid(pipe[i]) /\ Valid(pipe[j]) => i = j
    /\ lb_en # <<>> => wait_for_rsp_f
    /\ sram_pend => wait_for_rsp_f
    /\ \A i \in Stage : Valid(pipe[i]) => wait_for_rsp_f

\* The transaction the bridge waits for is still in xtn_ff, and the write
\* side takes xtn_ff for no emptier than it is.
FifoKept ==
    /\ wait_for_rsp_f => xtn_wr_seen > 0
    /\ Len(xtn_ff) + xtn_rd_late <= XtnDepth

\* The inductive invariant.
BridgeIInv == TypeOK /\ OneInFlight /\ FifoKept

-----------------------------------------------------------------------------
USE TargetAssumption, ValAssumption, XtnDepthAssumption, MaxReadsAssumption

\* The empty sequence is one over every set.
LEMMA EmptySeq == ASSUME NEW S PROVE <<>> \in Seq(S) /\ Len(<<>>) = 0
  OBVIOUS

\* Both FIFOs are empty after the reset and nothing travels.
LEMMA BridgeInit == Init => BridgeIInv
<1> SUFFICES ASSUME Init PROVE BridgeIInv
  OBVIOUS
<1>1. Idle \in Beat /\ ~Valid(Idle)
  BY DEF Idle, Beat, Valid
<1>2. \A i \in Stage : pipe[i] = Idle
  BY DEF Init, Stage
<1>3. TypeOK
  <2>1. pipe \in [1 .. MaxLat -> Beat]
    BY <1>1 DEF Init
  <2>2. regs \in [AllTargets -> Val]
    BY DEF Init
  <2>3. /\ xtn_ff \in Seq(HostXtn) /\ lb_en \in Seq(HostXtn) /\ rsp_ff \in Seq(Val)
        /\ av_read_data \in Seq(Val)
        /\ Len(xtn_ff) = 0 /\ Len(lb_en) = 0 /\ Len(rsp_ff) = 0 /\ Len(av_read_data) = 0
    BY EmptySeq DEF Init
  <2>4. /\ xtn_wr_seen \in 0 .. Len(xtn_ff) /\ xtn_rd_late \in 0 .. XtnDepth
        /\ rsp_seen \in 0 .. Len(rsp_ff)
    BY <2>3 DEF Init
  <2>5. wait_for_rsp_f \in BOOLEAN /\ sram_pend \in BOOLEAN /\ irq \in BOOLEAN
    BY DEF Init
  <2> QED
    BY <2>1, <2>2, <2>3, <2>4, <2>5 DEF TypeOK, Beat
<1>4. OneInFlight
  BY <1>1, <1>2 DEF Init, OneInFlight
<1>5. FifoKept
  BY DEF Init, FifoKept
<1> QED
  BY <1>3, <1>4, <1>5 DEF BridgeIInv

\* A valid at the bridge finds it waiting, with the transaction in xtn_ff.
LEMMA PopFinds ==
    ASSUME BridgeIInv, Pop
    PROVE  wait_for_rsp_f /\ lb_en = <<>> /\ ~sram_pend /\ xtn_wr_seen > 0 /\ Len(xtn_ff) > 0
<1>1. 1 \in Stage /\ Valid(pipe[1])
  BY DEF Stage, MaxLat, Valid, Pop, lb_rd_valid_id, lb_wr_valid_id
<1> QED
  BY <1>1 DEF BridgeIInv, OneInFlight, FifoKept, TypeOK

\* The inductive invariant says whose acknowledge removes a transaction.
LEMMA BridgeIInvPops == BridgeIInv => PopsOnlyItsOwn
  BY PopFinds DEF PopsOnlyItsOwn, xtn_ff_empty_w

-----------------------------------------------------------------------------
(* Steps of the host side.                                                  *)

\* A clock of the processor's side only appends to xtn_ff and takes from the response FIFO.
LEMMA AvClkKeeps ==
    ASSUME BridgeIInv, NEW acc \in {<<>>} \cup {<<x>> : x \in HostXtn}, AvClk(acc)
    PROVE  BridgeIInv'
<1>1. acc \in Seq(HostXtn) /\ (Len(acc) = 0 \/ (Len(acc) = 1 /\ acc # <<>>))
  <2>1. ASSUME acc = <<>>
        PROVE  acc \in Seq(HostXtn) /\ Len(acc) = 0
    BY <2>1, Zenon, EmptySeq
  <2>2. ASSUME NEW x \in HostXtn, acc = <<x>>
        PROVE  acc \in Seq(HostXtn) /\ Len(acc) = 1 /\ acc # <<>>
    BY <2>2
  <2>3. acc = <<>> \/ \E x \in HostXtn : acc = <<x>>
    BY Zenon
  <2> QED
    BY <2>1, <2>2, <2>3
<1>2. /\ xtn_ff' \in Seq(HostXtn) /\ Len(xtn_ff') = Len(xtn_ff) + Len(acc)
  <2>1. xtn_ff \in Seq(HostXtn) /\ xtn_ff' = xtn_ff \o acc
    BY DEF AvClk, BridgeIInv, TypeOK
  <2> QED
    BY <1>1, <2>1
<1>3. Len(xtn_ff') + xtn_rd_late' <= XtnDepth
  <2>1. /\ Len(xtn_ff) \in Nat /\ xtn_rd_late \in Nat /\ xtn_rd_late' = xtn_rd_late
        /\ Len(xtn_ff) + xtn_rd_late <= XtnDepth
    BY DEF AvClk, BridgeIInv, TypeOK, FifoKept
  <2>2. acc # <<>> => Len(xtn_ff) + xtn_rd_late < XtnDepth
    BY <2>1 DEF AvClk, av_wait_req_oh, xtn_ff_full_w
  <2>3. CASE Len(acc) = 0
    BY <1>2, <2>1, <2>3
  <2>4. CASE Len(acc) = 1 /\ acc # <<>>
    BY <1>2, <2>1, <2>2, <2>4
  <2> QED
    BY <1>1, <2>3, <2>4
<1>4. /\ rsp_ff' \in Seq(Val) /\ rsp_seen' \in 0 .. Len(rsp_ff')
      /\ av_read_data' \in Seq(Val) /\ Len(av_read_data') <= 1
  BY DEF AvClk, BridgeIInv, TypeOK, rsp_ff_empty_w
<1>5. TypeOK'
  BY <1>1, <1>2, <1>3, <1>4 DEF AvClk, BridgeIInv, TypeOK
<1>6. OneInFlight'
  BY DEF AvClk, BridgeIInv, OneInFlight
<1> QED
  BY <1>3, <1>5, <1>6 DEF AvClk, BridgeIInv, FifoKept

\* A late view of a FIFO level moves towards the truth and not beyond.
LEMMA SyncKeeps ==
    ASSUME BridgeIInv, XtnWrSync \/ XtnRdSync \/ RspSync
    PROVE  BridgeIInv'
<1>1. CASE XtnWrSync
  BY <1>1 DEF XtnWrSync, BridgeIInv, TypeOK, OneInFlight, FifoKept
<1>2. CASE XtnRdSync
  BY <1>2 DEF XtnRdSync, BridgeIInv, TypeOK, OneInFlight, FifoKept
<1>3. CASE RspSync
  BY <1>3 DEF RspSync, BridgeIInv, TypeOK, OneInFlight, FifoKept
<1> QED
  BY <1>1, <1>2, <1>3

-----------------------------------------------------------------------------
(* A clock of the local bus.                                                *)

\* What enters the path back has a stage and a beat.
LEMMA EnterTyped ==
    ASSUME TypeOK, NEW x \in HostXtn
    PROVE  Enter(x) \subseteq [at : Stage, rsp : Beat]
<1>1. x.rd \in BOOLEAN /\ x.tgt \in AllTargets
  BY DEF HostXtn, Xtn
<1>2. WrLat(x.tgt) \in Stage
  BY DEF WrLat, Stage, MaxLat
<1>3. x.rd /\ RaisesRd(x) => RdLat(x.tgt) \in Stage
  BY <1>1 DEF RdLat, RaisesRd, AllTargets, Stage, MaxLat
<1>4. ReadValue(regs, x.tgt) \in Val
  BY <1>1 DEF ReadValue, TypeOK
<1>5. RaisesRd(x) \in BOOLEAN /\ RaisesWr(x) \in BOOLEAN
  BY <1>1 DEF RaisesRd, RaisesWr
<1>6. x.rd => ~RaisesWr(x)
  BY DEF RaisesWr
<1> QED
  BY <1>1, <1>2, <1>3, <1>4, <1>5, <1>6 DEF Enter, Beat

\* At most one transaction enters, and only one that was in flight.
LEMMA EnteringOne ==
    ASSUME BridgeIInv, NEW grant \in BOOLEAN, grant => sram_pend
    PROVE  /\ Entering(grant) \subseteq [at : Stage, rsp : Beat]
           /\ \A e, f \in Entering(grant) : e = f
           /\ Entering(grant) # {} => (lb_en # <<>> /\ ~IsSramAccess(lb_en[1])) \/ grant
<1> DEFINE G == [at |-> WrLat("sram_ctrl"), rsp |-> [rd |-> FALSE, wr |-> TRUE, data |-> 0]]
<1>1. G \in [at : Stage, rsp : Beat]
  BY DEF WrLat, Stage, MaxLat, Beat
<1>2. lb_en # <<>> => lb_en[1] \in HostXtn
  BY DEF BridgeIInv, TypeOK
<1>3. lb_en # <<>> => Enter(lb_en[1]) \subseteq [at : Stage, rsp : Beat]
  BY <1>2, EnterTyped DEF BridgeIInv
<1>4. \A x : \A e, f \in Enter(x) : e = f
  BY DEF Enter
<1>5. ~(lb_en # <<>> /\ grant)
  BY DEF BridgeIInv, OneInFlight
<1> HIDE DEF G
<1>6. Entering(grant) = (IF lb_en # <<>> /\ ~IsSramAccess(lb_en[1]) THEN Enter(lb_en[1]) ELSE {})
                        \cup (IF grant THEN {G} ELSE {})
  BY DEF Entering, G
<1> QED
  BY <1>1, <1>3, <1>4, <1>5, <1>6

\* The path back after a clock: what enters, and what was a stage behind.
LEMMA PipeShift ==
    ASSUME BridgeIInv, NEW grant \in BOOLEAN, BlocksClk(grant)
    PROVE  /\ pipe' \in [Stage -> Beat]
           /\ \A i \in Stage : \/ \E e \in Entering(grant) : e.at = i /\ pipe'[i] = e.rsp
                               \/ /\ \A e \in Entering(grant) : e.at # i
                                  /\ i < MaxLat /\ pipe'[i] = pipe[i + 1]
                               \/ ~Valid(pipe'[i])
<1>1. /\ Entering(grant) \subseteq [at : Stage, rsp : Beat]
      /\ \A e, f \in Entering(grant) : e = f
  BY EnteringOne DEF BlocksClk
<1>2. pipe \in [Stage -> Beat]
  BY DEF BridgeIInv, TypeOK, Stage, Beat
<1>3. Idle \in Beat /\ ~Valid(Idle)
  BY DEF Idle, Beat, Valid
<1>4. pipe' = [i \in Stage |->
                  IF \E e \in Entering(grant) : e.at = i
                  THEN (CHOOSE e \in Entering(grant) : e.at = i).rsp
                  ELSE IF i < MaxLat THEN pipe[i + 1] ELSE Idle]
  BY DEF BlocksClk, Stage
<1>5. ASSUME NEW i \in Stage
      PROVE  /\ pipe'[i] \in Beat
             /\ \/ \E e \in Entering(grant) : e.at = i /\ pipe'[i] = e.rsp
                \/ /\ \A e \in Entering(grant) : e.at # i
                   /\ i < MaxLat /\ pipe'[i] = pipe[i + 1]
                \/ ~Valid(pipe'[i])
  <2>1. CASE \E e \in Entering(grant) : e.at = i
    <3> DEFINE c == CHOOSE e \in Entering(grant) : e.at = i
    <3>1. c \in Entering(grant) /\ c.at = i
      BY <2>1
    <3>2. pipe'[i] = c.rsp
      BY <1>4, <2>1
    <3>3. c.rsp \in Beat
      BY <1>1, <3>1
    <3> QED
      BY <3>1, <3>2, <3>3
  <2>2. CASE ~(\E e \in Entering(grant) : e.at = i) /\ i < MaxLat
    <3>1. pipe'[i] = pipe[i + 1] /\ i + 1 \in Stage
      BY <1>4, <2>2 DEF Stage, MaxLat
    <3> QED
      BY <1>2, <2>2, <3>1
  <2>3. CASE ~(\E e \in Entering(grant) : e.at = i) /\ ~(i < MaxLat)
    <3>1. pipe'[i] = Idle
      BY <1>4, <2>3
    <3> QED
      BY <1>3, <3>1
  <2> QED
    BY <2>1, <2>2, <2>3
<1> QED
  BY <1>4, <1>5

\* Registers of the blocks keep register values.
LEMMA WriteTyped ==
    ASSUME TypeOK, NEW x \in HostXtn
    PROVE  WriteEffect(regs, x) \in [AllTargets -> Val]
  BY DEF WriteEffect, TypeOK, HostXtn, Xtn

\* A clock of the local bus keeps the types.
LEMMA LbClkTyped ==
    ASSUME BridgeIInv, NEW grant \in BOOLEAN, NEW fft_done \in BOOLEAN, LbClk(grant, fft_done)
    PROVE  TypeOK' /\ FifoKept'
<1> USE DEF LbClk
<1>1. TypeOK
  BY DEF BridgeIInv
<1>2. Pop => wait_for_rsp_f /\ xtn_wr_seen > 0 /\ Len(xtn_ff) > 0
  BY PopFinds
<1>3. /\ xtn_ff' \in Seq(HostXtn)
      /\ Len(xtn_ff') = IF Pop THEN Len(xtn_ff) - 1 ELSE Len(xtn_ff)
  BY <1>1, <1>2 DEF BridgeClk, TypeOK
<1>4. xtn_wr_seen' \in 0 .. Len(xtn_ff') /\ xtn_rd_late' \in 0 .. XtnDepth
  BY <1>1, <1>2, <1>3 DEF BridgeClk, TypeOK, BridgeIInv, FifoKept
<1>5. Launch => Len(xtn_ff) > 0
  BY <1>1 DEF Launch, xtn_ff_empty_w, TypeOK
<1>6. Len(lb_en') <= 1 /\ lb_en' \in Seq(HostXtn)
  <2>1. CASE Launch
    <3>1. Head(xtn_ff) \in HostXtn /\ lb_en' = <<Head(xtn_ff)>>
      BY <1>1, <1>5, <2>1 DEF BridgeClk, TypeOK
    <3> QED
      BY <3>1
  <2>2. CASE ~Launch
    BY <2>2, EmptySeq DEF BridgeClk
  <2> QED
    BY <2>1, <2>2
<1>7. wait_for_rsp_f' \in BOOLEAN
  BY DEF BridgeClk, xtn_ff_empty_w, Pop
<1>8. pipe' \in [1 .. MaxLat -> Beat]
  BY PipeShift DEF Stage
<1>9. sram_pend' \in BOOLEAN /\ irq' \in BOOLEAN
  BY <1>1 DEF BlocksClk, IrqClk, irq_rst_oh, TypeOK
<1>10. regs' \in [AllTargets -> Val]
  <2>1. lb_en # <<>> => lb_en[1] \in HostXtn
    BY <1>1 DEF TypeOK
  <2> QED
    BY <1>1, <2>1, WriteTyped DEF BlocksClk, TypeOK
<1>11. rsp_ff' \in Seq(Val) /\ Len(rsp_ff') >= Len(rsp_ff)
  <2>1. pipe[1].data \in Val
    BY <1>1 DEF TypeOK, MaxLat
  <2> QED
    BY <1>1, <2>1 DEF BridgeClk, TypeOK
<1>12. rsp_seen' \in 0 .. Len(rsp_ff') /\ av_read_data' \in Seq(Val) /\ Len(av_read_data') <= 1
  BY <1>1, <1>11 DEF TypeOK
<1>13. Len(xtn_ff') + xtn_rd_late' <= XtnDepth
  <2>1. Len(xtn_ff) \in Nat /\ xtn_rd_late \in Nat /\ Len(xtn_ff) + xtn_rd_late <= XtnDepth
    BY <1>1 DEF TypeOK, BridgeIInv, FifoKept
  <2>2. xtn_rd_late' = IF Pop THEN xtn_rd_late + 1 ELSE xtn_rd_late
    BY DEF BridgeClk
  <2> QED
    BY <1>3, <2>1, <2>2
<1>14. wait_for_rsp_f' => xtn_wr_seen' > 0
  <2>1. xtn_wr_seen \in Nat /\ (wait_for_rsp_f => xtn_wr_seen > 0)
    BY <1>1 DEF TypeOK, BridgeIInv, FifoKept
  <2>2. CASE Pop
    BY <1>2, <2>2 DEF BridgeClk
  <2>3. CASE ~Pop
    <3>1. xtn_wr_seen' = xtn_wr_seen
      BY <2>3 DEF BridgeClk
    <3>2. wait_for_rsp_f' => wait_for_rsp_f \/ xtn_wr_seen # 0
      BY DEF BridgeClk, xtn_ff_empty_w
    <3> QED
      BY <2>1, <3>1, <3>2
  <2> QED
    BY <2>2, <2>3
<1> QED
  BY <1>3, <1>4, <1>6, <1>7, <1>8, <1>9, <1>10, <1>11, <1>12, <1>13, <1>14 DEF TypeOK, FifoKept, Beat

\* A clock of the local bus keeps one transaction in flight at most.
LEMMA LbClkOne ==
    ASSUME BridgeIInv, NEW grant \in BOOLEAN, NEW fft_done \in BOOLEAN, LbClk(grant, fft_done)
    PROVE  OneInFlight'
<1>1. /\ BlocksClk(grant) /\ BridgeClk
      /\ grant => sram_pend
  BY DEF LbClk, BlocksClk
<1>2. /\ \A e, f \in Entering(grant) : e = f
      /\ Entering(grant) # {} => (lb_en # <<>> /\ ~IsSramAccess(lb_en[1])) \/ grant
  BY <1>1, EnteringOne
<1>3. \A i \in Stage : Valid(pipe'[i]) =>
          \/ \E e \in Entering(grant) : e.at = i
          \/ i < MaxLat /\ Valid(pipe[i + 1])
  BY <1>1, PipeShift
<1>4. /\ lb_en # <<>> => ~sram_pend /\ \A i \in Stage : ~Valid(pipe[i])
      /\ sram_pend => \A i \in Stage : ~Valid(pipe[i])
      /\ \A i, j \in Stage : Valid(pipe[i]) /\ Valid(pipe[j]) => i = j
      /\ lb_en # <<>> => wait_for_rsp_f
      /\ sram_pend => wait_for_rsp_f
      /\ \A i \in Stage : Valid(pipe[i]) => wait_for_rsp_f
  BY DEF BridgeIInv, OneInFlight
<1>5. \A i \in Stage : i < MaxLat => i + 1 \in Stage
  BY DEF Stage, MaxLat
<1>6. Launch => ~wait_for_rsp_f
  BY DEF Launch
<1>7. lb_en' # <<>> => Launch
  BY <1>1 DEF BridgeClk
<1>8. /\ sram_pend' => (sram_pend /\ ~grant) \/ (lb_en # <<>> /\ IsSramAccess(lb_en[1]))
  BY <1>1 DEF BlocksClk
<1>9. \A i \in Stage : Valid(pipe'[i]) => wait_for_rsp_f /\ ~sram_pend' /\ lb_en' = <<>>
  BY <1>2, <1>3, <1>4, <1>5, <1>6, <1>7, <1>8, <1>1
<1>10. \A i, j \in Stage : Valid(pipe'[i]) /\ Valid(pipe'[j]) => i = j
  <2> SUFFICES ASSUME NEW i \in Stage, NEW j \in Stage, Valid(pipe'[i]), Valid(pipe'[j])
               PROVE  i = j
    OBVIOUS
  <2>1. CASE Entering(grant) # {}
    <3>1. \A k \in Stage : ~Valid(pipe[k])
      BY <2>1, <1>2, <1>4, <1>1
    <3> QED
      BY <3>1, <1>2, <1>3, <1>5
  <2>2. CASE Entering(grant) = {}
    <3>1. i + 1 = j + 1
      BY <2>2, <1>3, <1>4, <1>5
    <3> QED
      BY <3>1 DEF Stage
  <2> QED
    BY <2>1, <2>2
<1>11. Pop => lb_en = <<>> /\ ~sram_pend /\ Valid(pipe[1]) /\ wait_for_rsp_f
  BY PopFinds DEF Pop, lb_rd_valid_id, lb_wr_valid_id, Valid
<1>12. wait_for_rsp_f /\ ~Pop => wait_for_rsp_f'
  BY <1>1 DEF BridgeClk
<1>13. \A i \in Stage : Valid(pipe'[i]) => ~Pop
  <2> SUFFICES ASSUME NEW i \in Stage, Valid(pipe'[i]), Pop PROVE FALSE
    OBVIOUS
  <2>1. Entering(grant) = {}
    BY <1>1, <1>2, <1>11
  <2>2. i + 1 \in Stage /\ Valid(pipe[i + 1]) /\ 1 \in Stage
    BY <2>1, <1>3, <1>5 DEF Stage, MaxLat
  <2>3. i + 1 = 1
    BY <2>2, <1>4, <1>11
  <2> QED
    BY <2>3 DEF Stage
<1>14. /\ sram_pend' => wait_for_rsp_f /\ ~Pop
       /\ lb_en' # <<>> => wait_for_rsp_f'
  <2>1. sram_pend' => wait_for_rsp_f /\ ~Pop
    BY <1>4, <1>8, <1>11
  <2>2. Launch => wait_for_rsp_f'
    BY <1>1 DEF Launch, BridgeClk
  <2> QED
    BY <2>1, <2>2, <1>7
<1>15. lb_en' # <<>> => ~sram_pend'
  BY <1>6, <1>7, <1>14
<1> QED
  BY <1>9, <1>10, <1>12, <1>13, <1>14, <1>15 DEF OneInFlight

-----------------------------------------------------------------------------
\* Every step keeps the inductive invariant.
LEMMA BridgeStep == BridgeIInv /\ [Next]_vars => BridgeIInv'
<1> SUFFICES ASSUME BridgeIInv, [Next]_vars PROVE BridgeIInv'
  OBVIOUS
<1>1. ASSUME NEW x \in HostXtn, AvClk(<<x>>) PROVE BridgeIInv'
  <2>1. <<x>> \in {<<>>} \cup {<<y>> : y \in HostXtn}
    OBVIOUS
  <2> QED
    BY <1>1, <2>1, AvClkKeeps
<1>2. CASE AvClk(<<>>)
  <2>1. <<>> \in {<<>>} \cup {<<y>> : y \in HostXtn}
    OBVIOUS
  <2> QED
    BY <1>2, <2>1, AvClkKeeps
<1>3. CASE XtnWrSync \/ XtnRdSync \/ RspSync
  BY <1>3, SyncKeeps
<1>4. ASSUME NEW grant \in BOOLEAN, NEW fft_done \in BOOLEAN, LbClk(grant, fft_done)
      PROVE  BridgeIInv'
  BY <1>4, LbClkTyped, LbClkOne DEF BridgeIInv
<1>5. CASE UNCHANGED vars
  BY <1>5 DEF vars, BridgeIInv, TypeOK, OneInFlight, FifoKept
<1> QED
  BY <1>1, <1>2, <1>3, <1>4, <1>5 DEF Next

\* The inductive invariant holds in every state.
LEMMA BridgeInvariant == Spec => []BridgeIInv
  BY BridgeInit, BridgeStep, PTL DEF Spec

\* xtn_ff is popped by nothing but the acknowledge of the transaction at its
\* head, whatever the targets, the depth of the FIFO and the host's reads: no
\* acknowledge comes late or twice (syn_lb_cdc_bridge, rdreq of xtn_ff).
THEOREM BridgeCorrect == Spec => []BridgeInv
<1>1. BridgeIInv => BridgeInv
  BY BridgeIInvPops DEF BridgeInv, BridgeIInv
<1> QED
  BY <1>1, BridgeInvariant, PTL

\* xtn_ff never overflows: the entries in it and the pops its write side has
\* not seen yet never exceed its depth (syn_lb_cdc_bridge, av_wait_req_oh).
THEOREM XtnFifoFits == Spec => [](Len(xtn_ff) + xtn_rd_late <= XtnDepth)
<1>1. BridgeIInv => Len(xtn_ff) + xtn_rd_late <= XtnDepth
  BY DEF BridgeIInv, FifoKept
<1> QED
  BY <1>1, BridgeInvariant, PTL
=============================================================================
