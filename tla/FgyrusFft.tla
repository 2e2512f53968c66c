----------------------------- MODULE FgyrusFft ------------------------------
(***************************************************************************)
(* The FFT engine of one channel: the ping-pong sample buffer              *)
(* acortex2fgyrus_bffr with its toggle synchroniser, the sequencer         *)
(* fgyrus_fsm, the pipelined butterfly_wing, the FFT RAM and the divider.  *)
(* FgClk is one edge of the fgyrus clock, AcWrite a sample written on the  *)
(* acortex clock.                                                          *)
(*                                                                         *)
(* Data is abstracted to its provenance: <<k, i, b>> is position i after k *)
(* FFT stages, computed from sample buffer b.  A result computed from the  *)
(* wrong operands, or read from a RAM word while it is written, is X.      *)
(***************************************************************************)
EXTENDS Integers, FiniteSets, FiniteSetsExt

CONSTANTS P_NO_STAGES,   \* log2 of the number of samples (7 on the board)
          DivLat,        \* clocks of a division (16: two bits per clock)
          Gap,           \* least number of fgyrus clocks between two samples
          Small,         \* bins whose magnitude fits in 16 bits
          AcResets       \* the buffers during whose filling the host resets the audio cortex

P_NO_SAMPLES == 2 ^ P_NO_STAGES
Sample == 0 .. (P_NO_SAMPLES - 1)

ASSUME StagesAssumption == P_NO_STAGES \in Nat \ {0, 1}
ASSUME DivLatAssumption == DivLat \in Nat \ {0}
\* A buffer is not filled again while the other one is being read: N samples
\* take longer than the synchroniser and the N + 3 clocks of DECIMATE.
ASSUME GapAssumption == Gap \in Nat /\ P_NO_SAMPLES * Gap > P_NO_SAMPLES + 12
ASSUME SmallAssumption == Small \subseteq Sample
ASSUME AcResetsAssumption == AcResets \subseteq {0, 1}

X   == <<-1, 0, 0>>
Cos == P_NO_STAGES + 1      \* kind of a cosine looked up in the CORDIC RAM
Abs == P_NO_STAGES + 2      \* kind of a magnitude

VARIABLES
    ram_wptr_f, gap,          \* bffr: write pointer; clocks since the last write
    tflop_f, sync,            \* its synchroniser: toggle; <<dd0, dd1, f0, f1, f2>>
    fgyrus_en,
    fsm_pstate,
    pst_vec_f, pst_vec_extn_f,   \* the bits that are set
    sample_cntr_f, decimate_ovr_f,
    stage, sample_offset_f,      \* fft_stage_no_f = 2 ^ stage
    smp,                      \* fft_sample_1_f, _2_f, _1_1d, _2_1d
    pcm_a,                    \* pcm_sample_ram: address of its two read registers
    rd_addr, wr,              \* fft_ram_rd_addr_od; fft_ram_wr_*
    ram, q,                   \* the FFT RAM; its two read registers
    tw,                       \* twiddle address, its enable, two read registers
    bfly,                     \* butterfly operands, pipeline, result
    dv,                       \* operands of the division, divider, its result
    res_wr, res,              \* fft_res_wr_*; the result RAM
    fgyrus_pcm_done_oh

bffrVars == <<ram_wptr_f, gap, tflop_f>>
fsmVars  == <<sync, fsm_pstate, pst_vec_f, pst_vec_extn_f, sample_cntr_f, decimate_ovr_f,
              stage, sample_offset_f, smp, pcm_a, rd_addr, wr, ram, q, tw, bfly,
              dv, res_wr, res, fgyrus_pcm_done_oh>>
vars == <<bffrVars, fgyrus_en, fsmVars>>

\* A set of bits shifted up by one, within width w.
Shl(bits, w) == {i + 1 : i \in bits} \cap 0 .. (w - 1)
Bit(b, i)    == IF b THEN {i} ELSE {}

-----------------------------------------------------------------------------
(* acortex2fgyrus_bffr and pulse_sync_tggl                                  *)

\* "when the 128th sample is written"
Switches == ram_wptr_f % P_NO_SAMPLES = P_NO_SAMPLES - 1

AcWrite == /\ gap = Gap
           /\ gap' = 0
           /\ ram_wptr_f' = (ram_wptr_f + 1) % (2 * P_NO_SAMPLES)
           /\ tflop_f' = (tflop_f # Switches)
           /\ UNCHANGED <<fgyrus_en, fsmVars>>

\* A host reset of the audio cortex clears its side of the buffer only.
AcReset == /\ ram_wptr_f \div P_NO_SAMPLES \in AcResets
           /\ ram_wptr_f' = 0 /\ tflop_f' = FALSE
           /\ UNCHANGED <<gap, fgyrus_en, fsmVars>>

fgyrus_pcm_rdy_ih == sync[5]

SyncClk == sync' = <<tflop_f, sync[1], sync[2], sync[3] # sync[2], sync[4]>>

\* The buffer that is not being written is read.
ReadBuffer == 1 - (ram_wptr_f \div P_NO_SAMPLES)

-----------------------------------------------------------------------------
(* Conditions of the FSM                                                    *)

inc_fft_sample_w     == 6 \in pst_vec_f
fft_sample_inc_val_w == (2 ^ (stage + 1)) % P_NO_SAMPLES
fft_sample_val_nxt_c == sample_cntr_f + fft_sample_inc_val_w

inc_fft_sample_offset_c ==
    /\ fft_sample_val_nxt_c >= P_NO_SAMPLES \/ stage = P_NO_STAGES - 1
    /\ inc_fft_sample_w

wrap_sample_offset_c == sample_offset_f = 2 ^ stage
fft_all_stages_ovr_c == wrap_sample_offset_c /\ stage = P_NO_STAGES - 1

\* Mutant: the end of the last write is never seen.
LastWriteInPhase == wr.re_en /\ ~bfly.rdy /\ 5 \in pst_vec_f

LastFftWrite == wr.re_en /\ ~bfly.rdy
cordic_ovr_c == wr.addr = P_NO_SAMPLES - 1 /\ wr.im_en
abs_ovr_c    == wr.addr = P_NO_SAMPLES - 1 /\ wr.re_en

div_res_rdy_w       == dv.cntr = 0
div_res_rdy_pulse_c == div_res_rdy_w /\ ~dv.rdy_1d

NextState ==
    CASE fsm_pstate = "IDLE"     -> IF fgyrus_pcm_rdy_ih /\ fgyrus_en THEN "DECIMATE" ELSE "IDLE"
      [] fsm_pstate = "DECIMATE" -> IF decimate_ovr_f THEN "FFT" ELSE "DECIMATE"
      [] fsm_pstate = "FFT"      -> IF fft_all_stages_ovr_c THEN "FFT_WAIT" ELSE "FFT"
      [] fsm_pstate = "FFT_WAIT" -> IF LastFftWrite THEN "CORDIC" ELSE "FFT_WAIT"
      [] fsm_pstate = "CORDIC"   -> IF cordic_ovr_c THEN "ABS" ELSE "CORDIC"
      [] fsm_pstate = "ABS"      -> IF abs_ovr_c THEN "IDLE" ELSE "ABS"

\* The pipeline bits, which sequence every RAM access within a state.
Rotated == {(i + 1) % 7 : i \in pst_vec_f}

NextPst ==
    CASE fsm_pstate = "IDLE"     -> Bit(fgyrus_pcm_rdy_ih, 0)
      [] fsm_pstate = "DECIMATE" ->
            IF decimate_ovr_f THEN {0}
            ELSE Shl(pst_vec_f, 3) \cup Bit(sample_cntr_f # P_NO_SAMPLES - 1, 0)
      [] fsm_pstate = "FFT"      -> Rotated
      [] fsm_pstate = "FFT_WAIT" -> IF LastFftWrite THEN {0} ELSE Rotated
      [] fsm_pstate = "CORDIC"   ->
            IF cordic_ovr_c THEN {0}
            ELSE Shl(pst_vec_f \ {3}, 7) \cup Bit(div_res_rdy_pulse_c, 0)
                                         \cup Bit(div_res_rdy_pulse_c, 4)
      [] fsm_pstate = "ABS"      -> Shl(pst_vec_f, 7) \cup Bit(div_res_rdy_pulse_c, 0)

NextExtn ==
    CASE fsm_pstate = "IDLE"   -> {}
      [] fsm_pstate = "CORDIC" -> IF cordic_ovr_c THEN {}
                                  ELSE Shl(pst_vec_extn_f, 7) \cup Bit(6 \in pst_vec_f, 0)
      [] fsm_pstate = "ABS"    -> Bit(div_res_rdy_pulse_c, 0) \cup Bit(0 \in pst_vec_extn_f, 1)
                                  \cup (pst_vec_extn_f \ {0, 1})
      [] OTHER                 -> pst_vec_extn_f

NextSampleCntr ==
    CASE fsm_pstate = "DECIMATE" -> IF decimate_ovr_f THEN 0
                                    ELSE (sample_cntr_f + 1) % P_NO_SAMPLES
      [] fsm_pstate = "FFT"      -> IF inc_fft_sample_w THEN fft_sample_val_nxt_c % P_NO_SAMPLES
                                    ELSE sample_cntr_f
      [] OTHER                   -> 0

SequencerClk ==
    /\ fsm_pstate' = NextState
    /\ pst_vec_f' = NextPst
    /\ pst_vec_extn_f' = NextExtn
    /\ decimate_ovr_f' = (fsm_pstate = "DECIMATE" /\ 2 \in pst_vec_f /\ 1 \notin pst_vec_f)
    /\ sample_cntr_f' = NextSampleCntr
    /\ sample_offset_f' =
          IF fsm_pstate # "FFT" \/ wrap_sample_offset_c THEN 0
          ELSE IF inc_fft_sample_offset_c THEN sample_offset_f + 1 ELSE sample_offset_f
    /\ stage' = IF fsm_pstate = "FFT" /\ wrap_sample_offset_c
                THEN (stage + 1) % P_NO_STAGES ELSE stage
    /\ fgyrus_pcm_done_oh' = (fsm_pstate = "ABS" /\ abs_ovr_c)

-----------------------------------------------------------------------------
(* Addresses, the FFT RAM and the sample RAMs.  A RAM has an address and an *)
(* output register; reading a word in the clock it is written gives X       *)
(* (read_during_write_mode_mixed_ports = "DONT_CARE").                      *)

BitRev(n) == SumSet({2 ^ (P_NO_STAGES - 1 - i) :
                        i \in {j \in 0 .. (P_NO_STAGES - 1) : (n \div 2 ^ j) % 2 = 1}})

\* Mutant: the second operand is addressed a clock too early.
RdAddrEarly == IF 2 \in pst_vec_f THEN smp.s2 ELSE smp.s1

FftRdAddr == IF 3 \in pst_vec_f THEN smp.s2 ELSE smp.s1

NextRdAddr ==
    CASE fsm_pstate \in {"IDLE", "FFT_WAIT"} -> 0
      [] fsm_pstate = "DECIMATE" -> rd_addr
      [] fsm_pstate = "FFT"      -> FftRdAddr
      [] fsm_pstate = "CORDIC"   ->
            IF cordic_ovr_c THEN 0
            ELSE IF div_res_rdy_pulse_c THEN (rd_addr + 1) % P_NO_SAMPLES ELSE rd_addr
      [] fsm_pstate = "ABS"      ->
            IF div_res_rdy_pulse_c THEN (rd_addr + 1) % P_NO_SAMPLES ELSE rd_addr

\* The word at pcm_a[2], of the buffer that is selected when it arrives; its
\* place in the FFT is its bit-reversed address.
pcm_ram_rd_data_id == <<0, BitRev(pcm_a[2]), ReadBuffer>>

FftWrAddr == IF 5 \in pst_vec_f THEN smp.s1_1d ELSE smp.s2_1d

Inc(addr, en) == IF en THEN (addr + 1) % P_NO_SAMPLES ELSE addr

NextWr ==
    CASE fsm_pstate = "IDLE" ->
            [re_en |-> FALSE, im_en |-> FALSE, addr |-> P_NO_SAMPLES - 1, re |-> X, im |-> X]
      [] fsm_pstate = "DECIMATE" ->
            LET en == 2 \in pst_vec_f
            IN  [re_en |-> en, im_en |-> en, addr |-> Inc(wr.addr, en),
                 re |-> pcm_ram_rd_data_id, im |-> pcm_ram_rd_data_id]
      [] fsm_pstate = "FFT" ->
            [re_en |-> bfly.rdy, im_en |-> bfly.rdy, addr |-> FftWrAddr,
             re |-> bfly.data, im |-> bfly.data]
      [] fsm_pstate = "FFT_WAIT" ->
            [re_en |-> bfly.rdy, im_en |-> bfly.rdy,
             addr |-> IF LastFftWrite THEN 0 ELSE FftWrAddr,
             re |-> bfly.data, im |-> bfly.data]
      [] fsm_pstate = "CORDIC" ->
            [wr EXCEPT !.im_en = 0 \in pst_vec_extn_f, !.addr = Inc(wr.addr, wr.im_en),
                       !.im = dv.cos_q]
      [] fsm_pstate = "ABS" ->
            [wr EXCEPT !.re_en = 1 \in pst_vec_extn_f, !.addr = Inc(wr.addr, wr.re_en),
                       !.re = dv.abs_val]

Read(mem, en) == IF en /\ wr.addr = rd_addr THEN X ELSE mem[rd_addr]

RamClk ==
    /\ smp' = [s1 |-> (sample_cntr_f + sample_offset_f) % P_NO_SAMPLES,
               s2 |-> (smp.s1 + 2 ^ stage) % P_NO_SAMPLES,
               s1_1d |-> IF 6 \in pst_vec_f THEN smp.s1 ELSE smp.s1_1d,
               s2_1d |-> IF 6 \in pst_vec_f THEN smp.s2 ELSE smp.s2_1d]
    /\ pcm_a' = <<BitRev(sample_cntr_f), pcm_a[1]>>
    /\ rd_addr' = NextRdAddr
    /\ wr' = NextWr
    /\ ram' = [re |-> IF wr.re_en THEN [ram.re EXCEPT ![wr.addr] = wr.re] ELSE ram.re,
               im |-> IF wr.im_en THEN [ram.im EXCEPT ![wr.addr] = wr.im] ELSE ram.im]
    /\ q' = [re_1 |-> Read(ram.re, wr.re_en), im_1 |-> Read(ram.im, wr.im_en),
             re |-> q.re_1, im |-> q.im_1]
    /\ res_wr' = IF fsm_pstate = "ABS"
                 THEN [en |-> wr.re_en, addr |-> wr.addr, data |-> wr.re]
                 ELSE [res_wr EXCEPT !.en = FALSE]
    /\ res' = IF res_wr.en THEN [res EXCEPT ![res_wr.addr] = res_wr.data] ELSE res

-----------------------------------------------------------------------------
(* Twiddle factors and butterfly_wing.  Stage k of the twiddle RAM's layout *)
(* starts at 2^k (twiddle_ram.mif).  The multiplier takes three clocks and  *)
(* the sum one more; sample a is used when the sum is.                      *)

Both(re, im) == IF re = im THEN re ELSE X

\* a and b are the two operands of a butterfly, w the address of its factor.
Operands(a, b, w) ==
    /\ a[1] \in 0 .. (P_NO_STAGES - 1)
    /\ b = <<a[1], a[2] + 2 ^ a[1], a[3]>>
    /\ (a[2] \div 2 ^ a[1]) % 2 = 0
    /\ w = 2 ^ a[1] + (a[2] % 2 ^ a[1])

Sum(m)  == IF Operands(bfly.a, m.b, m.w)
           THEN <<bfly.a[1] + 1, bfly.a[2], bfly.a[3]>> ELSE X
Diff(m) == IF Operands(bfly.a, m.b, m.w)
           THEN <<bfly.a[1] + 1, m.b[2], bfly.a[3]>> ELSE X

ButterflyClk ==
    /\ tw' = [addr |-> IF fsm_pstate # "FFT" THEN 1
                       ELSE Inc(tw.addr, tw.inc_en),
              inc_en |-> inc_fft_sample_offset_c, q_1 |-> tw.addr, q |-> tw.q_1]
    /\ bfly' = [a   |-> IF 5 \in pst_vec_f THEN Both(q.re, q.im) ELSE bfly.a,
                b   |-> IF 6 \in pst_vec_f THEN Both(q.re, q.im) ELSE bfly.b,
                samples_rdy |-> fsm_pstate = "FFT" /\ 6 \in pst_vec_f,
                pst |-> Shl(bfly.pst, 5) \cup Bit(bfly.samples_rdy, 0),
                mul |-> <<[b |-> bfly.b, w |-> tw.q], bfly.mul[1], bfly.mul[2], bfly.mul[3]>>,
                data |-> IF 3 \in bfly.pst THEN Sum(bfly.mul[4])
                         ELSE IF 4 \in bfly.pst THEN Diff(bfly.mul[4]) ELSE bfly.data,
                rdy  |-> bfly.pst \cap {3, 4} # {}]

-----------------------------------------------------------------------------
(* The division, shared by CORDIC (im / re, whose angle's cosine replaces   *)
(* im) and ABS (re / cosine).  A magnitude is scaled by 2^16 once: before   *)
(* the division if it is small, after it otherwise.                         *)

\* The magnitude of v, negated a clock earlier into inv.
Magnitude(v, inv) == IF v = inv THEN v ELSE X

Quotient == IF div_res_rdy_w THEN [n |-> dv.n, sh |-> dv.sh, d |-> dv.d]
            ELSE [n |-> X, sh |-> 0, d |-> X]

\* The cosine that belongs to the quotient, if it and the zero flag are those
\* of one bin.
Cosine == IF /\ dv.q.n = dv.q.d /\ dv.q.n = dv.zero[4]
             /\ dv.q.n[1] = P_NO_STAGES
          THEN <<Cos, dv.q.n[2], dv.q.n[3]>> ELSE X

AbsVal == IF /\ dv.q.n[1] = P_NO_STAGES
             /\ dv.q.d = <<Cos, dv.q.n[2], dv.q.n[3]>>
             /\ dv.q.sh + (IF dv.norm_post_1d THEN 1 ELSE 0) = 1
          THEN <<Abs, dv.q.n[2], dv.q.n[3]>> ELSE X

DivideClk ==
    dv' = [ zero |-> <<q.re, dv.zero[1], dv.zero[2], dv.zero[3]>>,
            inv_re |-> q.re, inv_im |-> q.im,
            norm_pre |-> 4 \in pst_vec_f /\ dv.pre[2] = 0 /\ dv.pre[1][2] \in Small,
            pre |-> IF dv.norm_pre THEN <<dv.pre[1], 1>>
                    ELSE <<Magnitude(q.re, dv.inv_re), 0>>,
            for_n |-> IF fsm_pstate = "CORDIC" THEN <<Magnitude(q.im, dv.inv_im), 0>> ELSE dv.pre,
            for_d |-> IF fsm_pstate = "CORDIC" THEN Magnitude(q.re, dv.inv_re) ELSE q.im,
            load |-> (IF fsm_pstate = "CORDIC" THEN 3 ELSE 6) \in pst_vec_f,
            norm_post |-> IF 1 \in pst_vec_extn_f \/ fsm_pstate # "ABS" THEN FALSE
                          ELSE IF 5 \in pst_vec_f THEN ~dv.norm_pre ELSE dv.norm_post,
            norm_post_1d |-> dv.norm_post /\ div_res_rdy_pulse_c,
            abs_val |-> AbsVal,
            rdy_1d |-> div_res_rdy_w,
            q |-> Quotient,
            cos_addr |-> Cosine, cos_q_1 |-> dv.cos_addr, cos_q |-> dv.cos_q_1,
            cntr |-> IF dv.load THEN DivLat ELSE IF dv.cntr > 0 THEN dv.cntr - 1 ELSE 0,
            n  |-> IF dv.load THEN dv.for_n[1] ELSE dv.n,
            sh |-> IF dv.load THEN dv.for_n[2] ELSE dv.sh,
            d  |-> IF dv.load THEN dv.for_d ELSE dv.d ]

-----------------------------------------------------------------------------
Init ==
    /\ ram_wptr_f = 0 /\ gap = Gap /\ tflop_f = FALSE
    /\ sync = <<FALSE, FALSE, FALSE, FALSE, FALSE>>
    /\ fgyrus_en = FALSE /\ fsm_pstate = "IDLE"
    /\ pst_vec_f = {} /\ pst_vec_extn_f = {}
    /\ sample_cntr_f = 0 /\ decimate_ovr_f = FALSE /\ stage = 0 /\ sample_offset_f = 0
    /\ smp = [s1 |-> 0, s2 |-> 0, s1_1d |-> 0, s2_1d |-> 0]
    /\ pcm_a = <<0, 0>> /\ rd_addr = 0
    /\ wr = [re_en |-> FALSE, im_en |-> FALSE, addr |-> P_NO_SAMPLES - 1, re |-> X, im |-> X]
    /\ ram = [re |-> [i \in Sample |-> X], im |-> [i \in Sample |-> X]]
    /\ q = [re_1 |-> X, im_1 |-> X, re |-> X, im |-> X]
    /\ tw = [addr |-> 1, inc_en |-> FALSE, q_1 |-> 0, q |-> 0]
    /\ bfly = [a |-> X, b |-> X, samples_rdy |-> FALSE, pst |-> {},
               mul |-> [i \in 1 .. 4 |-> [b |-> X, w |-> 0]], data |-> X, rdy |-> FALSE]
    /\ dv = [zero |-> [i \in 1 .. 4 |-> X], inv_re |-> X, inv_im |-> X, norm_pre |-> FALSE,
             pre |-> <<X, 0>>, for_n |-> <<X, 0>>, for_d |-> X, load |-> FALSE,
             norm_post |-> FALSE, norm_post_1d |-> FALSE, abs_val |-> X, rdy_1d |-> FALSE,
             q |-> [n |-> X, sh |-> 0, d |-> X], cos_addr |-> X, cos_q_1 |-> X, cos_q |-> X,
             cntr |-> 0, n |-> X, sh |-> 0, d |-> X]
    /\ res_wr = [en |-> FALSE, addr |-> 0, data |-> X]
    /\ res = [i \in Sample |-> X]
    /\ fgyrus_pcm_done_oh = FALSE

FgClk == /\ SyncClk /\ SequencerClk /\ RamClk /\ ButterflyClk /\ DivideClk
         /\ gap' = IF gap < Gap THEN gap + 1 ELSE gap
         /\ UNCHANGED <<ram_wptr_f, tflop_f, fgyrus_en>>

HostEnable(en) == fgyrus_en' = en /\ UNCHANGED <<bffrVars, fsmVars>>

Next == \/ FgClk \/ AcWrite \/ AcReset
        \/ \E en \in BOOLEAN : HostEnable(en)

Spec == Init /\ [][Next]_vars

\* The clock of the engine never stops.
FairSpec == Spec /\ WF_vars(FgClk)

-----------------------------------------------------------------------------
Provenance == ((-1) .. Abs) \X Sample \X {0, 1}

\* Type invariant: the registers of the fgyrus FFT engine, its pipelines, its RAMs
\* and the capture handshake keep values of their declared kind.
TypeOK ==
    /\ ram_wptr_f \in 0 .. (2 * P_NO_SAMPLES - 1) /\ gap \in 0 .. Gap
    /\ fsm_pstate \in {"IDLE", "DECIMATE", "FFT", "FFT_WAIT", "CORDIC", "ABS"}
    /\ pst_vec_f \subseteq 0 .. 6 /\ pst_vec_extn_f \subseteq 0 .. 6
    /\ sample_cntr_f \in Sample /\ stage \in 0 .. (P_NO_STAGES - 1)
    /\ sample_offset_f \in Sample
    /\ rd_addr \in Sample /\ wr.addr \in Sample
    /\ ram \in [{"re", "im"} -> [Sample -> Provenance]]
    /\ dv.cntr \in 0 .. DivLat

\* Every word written to the FFT RAM is a right one, in its place: samples in
\* bit-reversed order from one buffer, each butterfly from the two results of
\* the stage before it with its own twiddle factor, the cosine and the
\* magnitude of its own bin, through four read and four multiplier registers
\* and a divider that are never told to wait (fgyrus_fsm, butterfly_wing).
WritesInPlace ==
    /\ wr.re_en => wr.re # X /\ wr.re[2] = wr.addr
    /\ wr.im_en => wr.im # X /\ wr.im[2] = wr.addr

\* When the engine reports a frame done, the result RAM holds (with the word
\* being written) the magnitude of every bin, all of one buffer (fgyrus_fsm,
\* "1->All PCM samples have been processed").
ResultsComplete ==
    fgyrus_pcm_done_oh =>
        \E b \in {0, 1} : \A i \in Sample :
            (IF res_wr.en /\ res_wr.addr = i THEN res_wr.data ELSE res[i]) = <<Abs, i, b>>

\* A frame that was started is finished: no state of the FSM waits for a pulse
\* that has already gone by (FFT_WAIT for the last write, CORDIC and ABS for
\* the divider's ready edge).
FrameCompletes == fsm_pstate # "IDLE" ~> fsm_pstate = "IDLE"
=============================================================================
